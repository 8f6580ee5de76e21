------------------------ MODULE DuplicateLinks_proofs ------------------------
(***************************************************************************)
(* Proofs about DuplicateLinks, for every set of jobs and of runs: the     *)
(* types are right, a committed row is listed exactly when it is the end   *)
(* of its chain, every chain ends, the loop over a chain ends too, and no  *)
(* duplicate is counted twice.  All need an invariant of the sessions,     *)
(* stale objects included: an UPDATE changes canonical_job_id and          *)
(* is_canonical together, because a chain is only extended at its end.     *)
(***************************************************************************)
EXTENDS DuplicateLinks, FiniteSetTheorems, TLAPS

Present(r) == {j \in Jobs : View(r, j) # Absent}
Committed  == {j \in Jobs : row[j] # Absent}

\* A version of row j that points, if anywhere, to another row of P.
Sound(v, j, P) ==
  v # Absent => /\ v.canonical <=> v.next = None
                /\ v.next # j
                /\ v.next \in P \union {None}

\* A change of one of the two columns is a change of both.
Together(old, new) ==
  \/ new.next = old.next /\ new.canonical = old.canonical
  \/ new.next # old.next /\ new.canonical # old.canonical

RowInv == \A j \in Jobs : Sound(row[j], j, Committed)

Locks ==
  \A q, r \in Runs : \A j \in Jobs :
    q # r => run[q].mine[j] = Absent \/ run[r].mine[j] = Absent

VersionInv(r) ==
  \A j \in Jobs : /\ Sound(run[r].mine[j], j, Present(r))
                  /\ Sound(run[r].loaded[j], j, Present(r))
                  /\ Sound(run[r].object[j], j, Present(r))

SessionInv(r) ==
  \A j \in Jobs :
    /\ run[r].object[j] = Absent <=> run[r].loaded[j] = Absent
    /\ run[r].object[j] # Absent =>
         View(r, j) # Absent /\ Together(run[r].loaded[j], run[r].object[j])

\* Between the insert of a posting and its link nothing points to it.
LinkingInv(r) ==
  /\ run[r].phase = "read" =>
       /\ run[r].job \in Jobs
       /\ run[r].at # None => run[r].object[run[r].at] # Absent
  /\ run[r].phase = "linking" =>
       /\ run[r].job \in Jobs /\ run[r].at \in Jobs
       /\ run[r].at # run[r].job
       /\ run[r].object[run[r].at] # Absent
       /\ run[r].loaded = run[r].object
       /\ row[run[r].job] = Absent
       /\ run[r].mine[run[r].job] = NewRow
       /\ run[r].object[run[r].job] = NewRow
       /\ \A j \in Jobs :
            /\ run[r].mine[j] # Absent => run[r].mine[j].next # run[r].job
            /\ run[r].object[j] # Absent => run[r].object[j].next # run[r].job

RunInv(r) == VersionInv(r) /\ SessionInv(r) /\ LinkingInv(r)

LinkInv == RowInv /\ Locks /\ \A r \in Runs : RunInv(r)

Inv == TypeOK /\ LinkInv

-----------------------------------------------------------------------------
(* Types.                                                                  *)

\* A row that exists is not mistaken for one that does not (models/job.py: Job).
LEMMA AbsentNotRow == Absent \notin Row
  BY DEF Absent, Row

\* The row of a new job has the types of its columns.
LEMMA NewRowType == NewRow \in Row /\ NewRow # Absent
<1>1. NewRow \in Row
  BY DEF NewRow, Row
<1> QED
  BY <1>1, AbsentNotRow

\* Every version of a row a run can read is a row or absent.
LEMMA ViewType ==
  ASSUME TypeOK, NEW r \in Runs, NEW j \in Jobs
  PROVE  View(r, j) \in Row \union {Absent}
  BY DEF TypeOK, View, Run, Versions

\* An UPDATE of a row leaves a row.
LEMMA UpdateType ==
  ASSUME NEW current \in Row, NEW old \in Row, NEW new \in Row
  PROVE  Update(current, old, new) \in Row
  BY DEF Update, Column, Row

\* Both rows of a link have the types of their columns.
LEMMA LinkedType ==
  ASSUME NEW c \in Jobs, NEW j \in Jobs, NEW seen \in Row, NEW merge \in BOOLEAN,
         NEW better \in BOOLEAN
  PROVE  /\ Linked(c, j, seen, merge, better).job \in Row
         /\ Linked(c, j, seen, merge, better).canonical \in Row
<1> DEFINE linked == Linked(c, j, seen, merge, better)
<1>1. CASE merge /\ better
  <2>1. /\ linked.job = NewRow
        /\ linked.canonical = [next |-> j, canonical |-> FALSE, count |-> seen.count + 1]
    BY <1>1 DEF Linked
  <2> QED
    BY <2>1 DEF NewRow, Row
<1>2. CASE merge /\ ~better
  <2>1. /\ linked.job = [next |-> c, canonical |-> FALSE, count |-> 0]
        /\ linked.canonical = [seen EXCEPT !.count = @ + 1]
    BY <1>2 DEF Linked, NewRow
  <2> QED
    BY <2>1 DEF NewRow, Row
<1>3. CASE ~merge
  <2>1. /\ linked.job = NewRow
        /\ linked.canonical = [seen EXCEPT !.count = @ + 1]
    BY <1>3 DEF Linked
  <2> QED
    BY <2>1 DEF NewRow, Row
<1> QED
  BY <1>1, <1>2, <1>3

\* What a run has written after a flush are rows.
LEMMA FlushedType ==
  ASSUME TypeOK, NEW r \in Runs, SessionInv(r)
  PROVE  Flushed(r) \in Versions
<1> SUFFICES ASSUME NEW j \in Jobs
             PROVE  Flushed(r)[j] \in Row \union {Absent}
  BY DEF Flushed, Versions
<1>1. CASE j \in Dirty(r)
  <2>1. run[r].object[j] \in Row /\ run[r].loaded[j] \in Row /\ View(r, j) \in Row
    BY <1>1, ViewType DEF Dirty, SessionInv, TypeOK, Run, Versions
  <2> QED
    BY <1>1, <2>1, UpdateType DEF Flushed
<1>2. CASE j \notin Dirty(r)
  BY <1>2 DEF Flushed, TypeOK, Run, Versions
<1> QED
  BY <1>1, <1>2

-----------------------------------------------------------------------------
(* What a session reads and writes is sound.                               *)

\* A row a run reads is the end of its chain exactly when it is listed.
LEMMA ViewSound ==
  ASSUME Inv, NEW r \in Runs, NEW j \in Jobs
  PROVE  Sound(View(r, j), j, Present(r))
<1>1. Committed \subseteq Present(r)
  BY DEF Committed, Present, View
<1> QED
  BY <1>1 DEF Inv, LinkInv, RowInv, RunInv, VersionInv, Sound, View

\* A flush writes rows that exist, keeps the two columns together, and waits for locks.
LEMMA FlushedSound ==
  ASSUME Inv, NEW r \in Runs, NEW j \in Jobs
  PROVE  /\ run[r].mine[j] # Absent => Flushed(r)[j] # Absent
         /\ Flushed(r)[j] # Absent => View(r, j) # Absent
         /\ Sound(Flushed(r)[j], j, Present(r))
         /\ Flushed(r)[j] # Absent /\ FlushAllowed(r) =>
              \A q \in Runs \ {r} : run[q].mine[j] = Absent
<1>1. CASE j \in Dirty(r)
  <2> DEFINE current == View(r, j)
             old == run[r].loaded[j]
             new == run[r].object[j]
  <2>1. current \in Row /\ old \in Row /\ new \in Row
    BY <1>1, ViewType DEF Dirty, Inv, LinkInv, RunInv, SessionInv, TypeOK, Run, Versions
  <2>2. current # Absent /\ old # Absent /\ new # Absent
    BY <2>1, AbsentNotRow
  <2>3. Flushed(r)[j] = Update(current, old, new)
    BY <1>1 DEF Flushed
  <2>4. Flushed(r)[j] # Absent
    BY <2>1, <2>3, UpdateType, AbsentNotRow
  <2>5. Together(old, new)
    BY <2>2 DEF Inv, LinkInv, RunInv, SessionInv
  <2>6. /\ Sound(current, j, Present(r))
        /\ Sound(old, j, Present(r))
        /\ Sound(new, j, Present(r))
    BY ViewSound DEF Inv, LinkInv, RunInv, VersionInv
  <2>7. /\ Flushed(r)[j].next = Column(current.next, old.next, new.next)
        /\ Flushed(r)[j].canonical = Column(current.canonical, old.canonical, new.canonical)
    BY <2>3 DEF Update
  <2>8. Sound(Flushed(r)[j], j, Present(r))
    BY <2>2, <2>5, <2>6, <2>7 DEF Sound, Together, Column
  <2> QED
    BY <1>1, <2>2, <2>4, <2>8 DEF FlushAllowed, Unlocked
<1>2. CASE j \notin Dirty(r)
  <2>1. Flushed(r)[j] = run[r].mine[j]
    BY <1>2 DEF Flushed
  <2> QED
    BY <2>1 DEF Inv, LinkInv, RunInv, VersionInv, Locks, View
<1> QED
  BY <1>1, <1>2

-----------------------------------------------------------------------------
(* The steps.                                                              *)

\* What a step of run r has to keep: the other runs are kept by Frame.
Kept(r) == TypeOK /\ RowInv /\ Locks /\ RunInv(r)

\* A session with nothing in it has the type of a session.
LEMMA ClosedType == Closed \in Run
<1>1. Nothing \in Versions
  BY DEF Nothing, Versions
<1> QED
  BY <1>1 DEF Closed, Run

\* A step that commits nothing keeps the invariant of every run it does not change.
LEMMA Frame ==
  ASSUME Inv, NEW q \in Runs, run'[q] = run[q], row' = row
  PROVE  RunInv(q)'
<1>1. RunInv(q)
  BY DEF Inv, LinkInv
<1>2. Present(q)' = Present(q) /\ \A j \in Jobs : View(q, j)' = View(q, j)
  BY DEF Present, View
<1> QED
  BY <1>1, <1>2 DEF RunInv, VersionInv, SessionInv, LinkingInv

\* A run that only writes rows no other run has written leaves every lock to one run.
LEMMA LocksKept ==
  ASSUME Locks, NEW r \in Runs,
         \A q \in Runs \ {r} : run'[q] = run[q],
         \A j \in Jobs : run'[r].mine[j] # Absent =>
                          \A q \in Runs \ {r} : run[q].mine[j] = Absent
  PROVE  Locks'
<1> SUFFICES ASSUME NEW p \in Runs, NEW q \in Runs, NEW j \in Jobs, p # q
             PROVE  run'[p].mine[j] = Absent \/ run'[q].mine[j] = Absent
  BY DEF Locks
<1>1. CASE p = r
  BY <1>1
<1>2. CASE q = r
  BY <1>2
<1>3. CASE p # r /\ q # r
  BY <1>3 DEF Locks
<1> QED
  BY <1>1, <1>2, <1>3

LEMMA RollbackKeeps ==
  ASSUME Inv, NEW r \in Runs, Rollback(r)
  PROVE  Kept(r)'
<1>1. /\ run'[r] = Closed
      /\ \A q \in Runs \ {r} : run'[q] = run[q]
  BY DEF Rollback, Inv, TypeOK
<1>2. RunInv(r)'
  <2>1. /\ \A j \in Jobs : /\ run'[r].mine[j] = Absent
                            /\ run'[r].loaded[j] = Absent
                            /\ run'[r].object[j] = Absent
        /\ run'[r].phase = "between"
    BY <1>1 DEF Closed, Nothing
  <2> QED
    BY <2>1 DEF RunInv, VersionInv, SessionInv, LinkingInv, Sound
<1>3. TypeOK'
  BY <1>1, ClosedType DEF Rollback, Inv, TypeOK
<1>4. RowInv' /\ Locks'
  <2>1. \A j \in Jobs : run'[r].mine[j] = Absent
    BY <1>1 DEF Closed, Nothing
  <2> QED
    BY <1>1, <2>1, LocksKept DEF Rollback, Inv, LinkInv, RowInv, Committed
<1> QED
  BY <1>2, <1>3, <1>4 DEF Kept

LEMMA FlushKeeps ==
  ASSUME Inv, NEW r \in Runs, Flush(r)
  PROVE  Kept(r)'
<1> DEFINE x == run'[r]
<1>1. /\ x = run'[r]
      /\ x = [run[r] EXCEPT !.mine = Flushed(r), !.loaded = run[r].object]
      /\ \A q \in Runs \ {r} : run'[q] = run[q]
      /\ row' = row /\ links' = links
  BY DEF Flush, Inv, TypeOK
<1> HIDE DEF x
<1>2. run[r] \in Run /\ SessionInv(r) /\ VersionInv(r)
  BY DEF Inv, TypeOK, LinkInv, RunInv
<1>3. /\ x.phase = "between" /\ x.mine = Flushed(r) /\ x.loaded = run[r].object
      /\ x.object = run[r].object
  BY <1>1, <1>2 DEF Flush, Run
<1>4. TypeOK'
  <2>1. Flushed(r) \in Versions
    BY <1>2, FlushedType DEF Inv
  <2>2. x \in Run
    BY <1>1, <1>2, <2>1 DEF Run
  <2>3. run' \in [Runs -> Run]
    BY <1>1, <2>2 DEF Flush, Inv, TypeOK
  <2> QED
    BY <1>1, <2>3 DEF Inv, TypeOK
<1>5. \A j \in Jobs : View(r, j)' # Absent <=> View(r, j) # Absent
  BY <1>1, <1>3, FlushedSound DEF View
<1>6. Present(r)' = Present(r)
  BY <1>5 DEF Present
<1>7. VersionInv(r)'
  BY <1>1, <1>2, <1>3, <1>6, FlushedSound DEF VersionInv
<1>8. SessionInv(r)'
  <2>1. /\ run'[r].loaded = run[r].object
        /\ run'[r].object = run[r].object
    BY <1>1, <1>3
  <2> QED
    BY <1>2, <1>5, <2>1 DEF SessionInv, Together
<1>9. RowInv' /\ Locks'
  <2>1. RowInv'
    BY <1>1 DEF Inv, LinkInv, RowInv, Committed
  <2>2. run'[r].mine = Flushed(r)
    BY <1>1, <1>3
  <2>3. \A j \in Jobs : run'[r].mine[j] # Absent =>
                       \A q \in Runs \ {r} : run[q].mine[j] = Absent
    BY <2>2, FlushedSound DEF Flush
  <2>4. Locks'
    <3>1. Locks /\ \A q \in Runs \ {r} : run'[q] = run[q]
      BY <1>1 DEF Inv, LinkInv
    <3> QED
      BY <2>3, <3>1, LocksKept
  <2> QED
    BY <2>1, <2>4
<1>10. LinkingInv(r)'
  BY <1>1, <1>3 DEF LinkingInv
<1> QED
  BY <1>4, <1>7, <1>8, <1>9, <1>10 DEF Kept, RunInv

\* A step that writes no row keeps the committed rows, the locks and what a run reads.
LEMMA UnwrittenKept ==
  ASSUME Inv, NEW r \in Runs, row' = row, run'[r].mine = run[r].mine,
         \A q \in Runs \ {r} : run'[q] = run[q]
  PROVE  /\ RowInv' /\ Locks'
         /\ Present(r)' = Present(r)
         /\ \A j \in Jobs : View(r, j)' = View(r, j)
<1>1. RowInv'
  BY DEF Inv, LinkInv, RowInv, Committed
<1>2. Locks'
  <2>1. Locks /\ \A j \in Jobs : run'[r].mine[j] # Absent =>
                                   \A q \in Runs \ {r} : run[q].mine[j] = Absent
    BY DEF Inv, LinkInv, Locks
  <2> QED
    BY <2>1, LocksKept
<1> QED
  BY <1>1, <1>2 DEF Present, View

\* The candidates are read as they are, the dirty objects stay.
LEMMA ReadKeeps ==
  ASSUME Inv, NEW r \in Runs, NEW j \in Jobs, Read(r, j)
  PROVE  Kept(r)'
<1>1. run[r] \in Run /\ SessionInv(r) /\ VersionInv(r) /\ row' = row /\ links' = links
  BY DEF Read, Inv, TypeOK, LinkInv, RunInv
<1>2. PICK candidates \in SUBSET {i \in Jobs : View(r, i) # Absent},
           m \in Jobs \union {None} :
        /\ m # None => m \in candidates
        /\ run' = [run EXCEPT ![r].phase = "read", ![r].job = j, ![r].at = m,
             ![r].loaded = [i \in Jobs |-> IF i \in Dirty(r) THEN run[r].loaded[i]
                              ELSE IF i \in candidates THEN View(r, i) ELSE Absent],
             ![r].object = [i \in Jobs |-> IF i \in Dirty(r) THEN run[r].object[i]
                              ELSE IF i \in candidates THEN View(r, i) ELSE Absent]]
  BY DEF Read, Candidates
<1> DEFINE loaded == [i \in Jobs |-> IF i \in Dirty(r) THEN run[r].loaded[i]
                        ELSE IF i \in candidates THEN View(r, i) ELSE Absent]
           object == [i \in Jobs |-> IF i \in Dirty(r) THEN run[r].object[i]
                        ELSE IF i \in candidates THEN View(r, i) ELSE Absent]
<1>3. /\ run'[r] = [run[r] EXCEPT !.phase = "read", !.job = j, !.at = m,
                      !.loaded = loaded, !.object = object]
      /\ run' = [run EXCEPT ![r] = run'[r]]
      /\ \A q \in Runs \ {r} : run'[q] = run[q]
  BY <1>2 DEF Inv, TypeOK
<1>4. \A i \in Jobs :
        \/ loaded[i] = run[r].loaded[i] /\ object[i] = run[r].object[i]
           /\ object[i] # loaded[i]
        \/ i \in candidates /\ loaded[i] = View(r, i) /\ object[i] = View(r, i)
        \/ i \notin candidates /\ loaded[i] = Absent /\ object[i] = Absent
  BY DEF Dirty
<1>5. loaded \in Versions /\ object \in Versions
  BY <1>1, <1>4, ViewType DEF Inv, Run, Versions
<1> HIDE DEF loaded, object
<1>6. /\ run'[r].phase = "read" /\ run'[r].job = j /\ run'[r].at = m
      /\ run'[r].loaded = loaded /\ run'[r].object = object
      /\ run'[r].mine = run[r].mine
      /\ run'[r] \in Run
  BY <1>1, <1>3, <1>5 DEF Run
<1>7. TypeOK'
  BY <1>1, <1>3, <1>6 DEF Inv, TypeOK
<1>8. /\ RowInv' /\ Locks'
      /\ Present(r)' = Present(r)
      /\ \A i \in Jobs : View(r, i)' = View(r, i)
  BY <1>1, <1>3, <1>6, UnwrittenKept
<1>9. VersionInv(r)'
  <2>1. \A i \in Jobs : Sound(Absent, i, Present(r))
    BY DEF Sound
  <2>2. \A i \in Jobs : /\ Sound(loaded[i], i, Present(r))
                        /\ Sound(object[i], i, Present(r))
    BY <1>1, <1>4, <2>1, ViewSound DEF VersionInv
  <2> QED
    BY <1>1, <1>6, <1>8, <2>2 DEF VersionInv
<1>10. SessionInv(r)'
  <2>1. \A i \in Jobs : /\ object[i] = Absent <=> loaded[i] = Absent
                        /\ object[i] # Absent =>
                             View(r, i) # Absent /\ Together(loaded[i], object[i])
    BY <1>1, <1>2, <1>4 DEF SessionInv, Together
  <2> QED
    BY <1>6, <1>8, <2>1 DEF SessionInv
<1>11. LinkingInv(r)'
  <2>1. m # None => object[m] # Absent
    BY <1>1, <1>2, <1>4 DEF SessionInv
  <2> QED
    BY <1>6, <2>1 DEF LinkingInv
<1> QED
  BY <1>7, <1>8, <1>9, <1>10, <1>11 DEF Kept, RunInv

\* The loop stays on rows the session holds, and never reaches the posting itself.
LEMMA FollowKeeps ==
  ASSUME Inv, NEW r \in Runs, Follow(r)
  PROVE  Kept(r)'
<1> DEFINE at == run[r].at
           parent == run[r].object[at].next
           object == Get(run[r].object, r, parent)
<1>1. /\ run[r] \in Run /\ SessionInv(r) /\ VersionInv(r) /\ LinkingInv(r)
      /\ row' = row /\ links' = links /\ run[r].phase = "linking"
      /\ parent \notin {None, at}
  BY DEF Follow, Inv, TypeOK, LinkInv, RunInv
<1>2. /\ at \in Jobs /\ at # run[r].job /\ run[r].job \in Jobs
      /\ run[r].object[at] # Absent /\ run[r].loaded = run[r].object
      /\ \A j \in Jobs : run[r].object[j] # Absent => run[r].object[j].next # run[r].job
  BY <1>1 DEF LinkingInv
<1>3. parent \in Present(r) /\ parent \in Jobs /\ parent # run[r].job
  BY <1>1, <1>2 DEF VersionInv, Sound, Present
<1>4. /\ run'[r] = [run[r] EXCEPT !.at = parent, !.loaded = Get(run[r].loaded, r, parent),
                                  !.object = object, !.passed = @ \union {at}]
      /\ run' = [run EXCEPT ![r] = run'[r]]
      /\ \A q \in Runs \ {r} : run'[q] = run[q]
  BY DEF Follow, Inv, TypeOK
<1>5. /\ object \in Versions
      /\ \A j \in Jobs : object[j] = IF j = parent /\ run[r].object[j] = Absent
                                     THEN View(r, j) ELSE run[r].object[j]
  BY <1>1, <1>3, ViewType DEF Inv, Run, Versions, Get
<1> HIDE DEF at, parent, object
<1>6. /\ run'[r].phase = "linking" /\ run'[r].job = run[r].job /\ run'[r].at = parent
      /\ run'[r].loaded = object /\ run'[r].object = object
      /\ run'[r].mine = run[r].mine
      /\ run'[r] \in Run
  <2>1. Get(run[r].loaded, r, parent) = object
    BY <1>2 DEF object
  <2>2. run'[r] = [run[r] EXCEPT !.at = parent, !.loaded = object,
                                 !.object = object, !.passed = @ \union {at}]
    BY <1>4, <2>1
  <2>3. /\ run[r] \in Run /\ run[r].phase = "linking"
        /\ at \in Jobs /\ parent \in Jobs /\ object \in Versions
    BY <1>1, <1>2, <1>3, <1>5
  <2>4. /\ run[r].passed \union {at} \in SUBSET Jobs
        /\ parent \in Jobs \union {None}
    BY <2>3 DEF Run
  <2> DEFINE passed == run[r].passed \union {at}
  <2>5. passed \in SUBSET Jobs /\ run'[r].passed = passed
    BY <2>2, <2>3, <2>4 DEF Run
  <2> HIDE DEF passed
  <2> QED
    BY <2>2, <2>3, <2>4, <2>5 DEF Run
<1>7. TypeOK'
  BY <1>1, <1>4, <1>6 DEF Inv, TypeOK
<1>8. /\ RowInv' /\ Locks'
      /\ Present(r)' = Present(r)
      /\ \A j \in Jobs : View(r, j)' = View(r, j)
  BY <1>1, <1>4, <1>6, UnwrittenKept
<1>9. VersionInv(r)'
  <2>1. \A j \in Jobs : Sound(object[j], j, Present(r))
    BY <1>1, <1>5, ViewSound DEF VersionInv
  <2> QED
    BY <1>1, <1>6, <1>8, <2>1 DEF VersionInv
<1>10. SessionInv(r)'
  <2>1. \A j \in Jobs : object[j] # Absent => View(r, j) # Absent
    BY <1>1, <1>3, <1>5 DEF SessionInv, Present
  <2> QED
    BY <1>6, <1>8, <2>1 DEF SessionInv, Together
<1>11. LinkingInv(r)'
  <2>1. object[parent] # Absent
    BY <1>1, <1>3, <1>5 DEF Present
  <2>2. \A j \in Jobs : object[j] # Absent => object[j].next # run[r].job
    <3> DEFINE job == run[r].job
    <3>1. /\ job \in Jobs /\ job # None /\ job \notin Committed
          /\ \A j \in Jobs : run[r].mine[j] # Absent => run[r].mine[j].next # job
      BY <1>1, LinksAssumption DEF LinkingInv, Committed
    <3>2. \A j \in Jobs : row[j] # Absent => row[j].next # job
      BY <3>1 DEF Inv, LinkInv, RowInv, Sound
    <3>3. \A j \in Jobs : View(r, j) # Absent => View(r, j).next # job
      BY <3>1, <3>2 DEF View
    <3> QED
      BY <1>2, <1>5, <3>3
  <2>3. object[run[r].job] = NewRow
    BY <1>1, <1>2, <1>3, <1>5, NewRowType DEF LinkingInv
  <2> QED
    BY <1>1, <1>2, <1>3, <1>6, <2>1, <2>2, <2>3 DEF LinkingInv
<1> QED
  BY <1>7, <1>8, <1>9, <1>10, <1>11 DEF Kept, RunInv

\* A link changes the two columns of either row together, and its rows point to each other
\* in one direction only.
LEMMA LinkedSound ==
  ASSUME NEW c \in Jobs, NEW j \in Jobs, c # j, NEW seen \in Row, NEW P, c \in P, j \in P,
         seen.next = None, seen.canonical = TRUE,
         NEW merge \in BOOLEAN, NEW better \in BOOLEAN
  PROVE  LET linked == Linked(c, j, seen, merge, better)
         IN /\ Sound(linked.job, j, P) /\ Together(NewRow, linked.job)
            /\ Sound(linked.canonical, c, P) /\ Together(seen, linked.canonical)
<1> DEFINE linked == Linked(c, j, seen, merge, better)
<1>1. NewRow.next = None /\ NewRow.canonical = TRUE /\ c # None /\ j # None
  BY LinksAssumption DEF NewRow
<1>2. CASE merge /\ better
  <2>1. /\ linked.job = NewRow
        /\ linked.canonical.next = j /\ linked.canonical.canonical = FALSE
    BY <1>2 DEF Linked
  <2> QED
    BY <1>1, <2>1 DEF Sound, Together
<1>3. CASE merge /\ ~better
  <2>1. /\ linked.job.next = c /\ linked.job.canonical = FALSE
        /\ linked.canonical.next = seen.next /\ linked.canonical.canonical = seen.canonical
    BY <1>3 DEF Linked, NewRow, Row
  <2> QED
    BY <1>1, <2>1 DEF Sound, Together
<1>4. CASE ~merge
  <2>1. /\ linked.job = NewRow
        /\ linked.canonical.next = seen.next /\ linked.canonical.canonical = seen.canonical
    BY <1>4 DEF Linked, Row
  <2> QED
    BY <1>1, <2>1 DEF Sound, Together
<1> QED
  BY <1>2, <1>3, <1>4

\* The link is made at the end of a chain, between two clean objects.
LEMMA LinkKeeps ==
  ASSUME Inv, NEW r \in Runs, Link(r)
  PROVE  Kept(r)' /\ \A q \in Runs \ {r} : run'[q] = run[q]
<1> DEFINE c == run[r].at
           j == run[r].job
           seen == run[r].object[c]
<1>1. /\ run[r] \in Run /\ SessionInv(r) /\ VersionInv(r) /\ LinkingInv(r)
      /\ row' = row /\ links' = links /\ run[r].phase = "linking"
      /\ seen.next \in {None, c}
  BY DEF Link, Inv, TypeOK, LinkInv, RunInv
<1>2. /\ c \in Jobs /\ j \in Jobs /\ c # j /\ seen # Absent
      /\ run[r].loaded = run[r].object
      /\ run[r].object[j] = NewRow /\ run[r].mine[j] = NewRow
  BY <1>1 DEF LinkingInv
<1>3. /\ seen \in Row /\ seen.next = None /\ seen.canonical = TRUE
      /\ c \in Present(r) /\ j \in Present(r)
  <2>1. seen \in Row /\ c \in Present(r) /\ j \in Present(r)
    BY <1>1, <1>2, NewRowType DEF Run, Versions, SessionInv, Present, View
  <2>2. seen.next = None
    BY <1>1, <1>2 DEF VersionInv, Sound
  <2> QED
    BY <1>1, <1>2, <2>1, <2>2 DEF VersionInv, Sound, Row
<1> DEFINE linkedBy(merge, better) == Linked(c, j, seen, merge, better)
           objectBy(merge, better) == [run[r].object EXCEPT ![j] = linkedBy(merge, better).job,
                                                            ![c] = linkedBy(merge, better).canonical]
           new == run[r].new \union {<<c, j>>}
<1>4. PICK merge \in BOOLEAN, better \in BOOLEAN :
        run' = [run EXCEPT ![r].object = objectBy(merge, better), ![r].new = new,
                  ![r].phase = "between", ![r].job = None, ![r].at = None,
                  ![r].passed = {}]
  BY DEF Link
<1> DEFINE linked == linkedBy(merge, better)
           object == objectBy(merge, better)
<1> HIDE DEF linkedBy, objectBy, new
<1>5. /\ run'[r] = [run[r] EXCEPT !.object = object, !.new = new, !.phase = "between",
                      !.job = None, !.at = None, !.passed = {}]
      /\ run' = [run EXCEPT ![r] = run'[r]]
      /\ \A q \in Runs \ {r} : run'[q] = run[q]
  BY <1>4 DEF Inv, TypeOK
<1>6. run[r].object \in Versions /\ new \in SUBSET (Jobs \X Jobs)
  BY <1>1, <1>2 DEF Run, new
<1>7. /\ linked.job \in Row /\ linked.canonical \in Row
      /\ Sound(linked.job, j, Present(r)) /\ Together(NewRow, linked.job)
      /\ Sound(linked.canonical, c, Present(r)) /\ Together(seen, linked.canonical)
  BY <1>2, <1>3, <1>6, LinkedType, LinkedSound DEF linkedBy
<1> HIDE DEF linked
<1>8. /\ object \in Versions
      /\ object[j] = linked.job /\ object[c] = linked.canonical
      /\ \A i \in Jobs \ {c, j} : object[i] = run[r].object[i]
  BY <1>2, <1>6, <1>7 DEF Versions, objectBy, linked
<1> HIDE DEF object
<1>9. /\ run'[r].phase = "between"
      /\ run'[r].loaded = run[r].loaded /\ run'[r].object = object
      /\ run'[r].mine = run[r].mine
      /\ run'[r] \in Run
  BY <1>1, <1>5, <1>6, <1>8 DEF Run
<1>10. TypeOK'
  BY <1>1, <1>5, <1>9 DEF Inv, TypeOK
<1>11. /\ RowInv' /\ Locks'
       /\ Present(r)' = Present(r)
       /\ \A i \in Jobs : View(r, i)' = View(r, i)
  BY <1>1, <1>5, <1>9, UnwrittenKept
<1>12. VersionInv(r)'
  <2>1. \A i \in Jobs : Sound(object[i], i, Present(r))
    BY <1>1, <1>7, <1>8 DEF VersionInv
  <2> QED
    BY <1>1, <1>9, <1>11, <2>1 DEF VersionInv
<1>13. SessionInv(r)'
  <2>1. \A i \in Jobs : /\ object[i] = Absent <=> run[r].loaded[i] = Absent
                        /\ object[i] # Absent =>
                             View(r, i) # Absent /\ Together(run[r].loaded[i], object[i])
    <3> SUFFICES ASSUME NEW i \in Jobs
                 PROVE  /\ object[i] = Absent <=> run[r].loaded[i] = Absent
                        /\ object[i] # Absent =>
                             View(r, i) # Absent /\ Together(run[r].loaded[i], object[i])
      OBVIOUS
    <3>1. CASE i = c
      BY <1>1, <1>2, <1>7, <1>8, <3>1, AbsentNotRow DEF SessionInv
    <3>2. CASE i = j
      BY <1>1, <1>2, <1>7, <1>8, <3>2, AbsentNotRow, NewRowType DEF SessionInv
    <3>3. CASE i \notin {c, j}
      BY <1>1, <1>2, <1>8, <3>3 DEF SessionInv
    <3> QED
      BY <3>1, <3>2, <3>3
  <2> QED
    BY <1>9, <1>11, <2>1 DEF SessionInv
<1>14. LinkingInv(r)'
  BY <1>9 DEF LinkingInv
<1> QED
  BY <1>5, <1>10, <1>11, <1>12, <1>13, <1>14 DEF Kept, RunInv

\* The new row is pointed to by nothing: it was absent until now.
LEMMA InsertKeeps ==
  ASSUME Inv, NEW r \in Runs, Insert(r)
  PROVE  Kept(r)'
<1> DEFINE j == run[r].job
           object == [run[r].object EXCEPT ![j] = NewRow]
           mine == [Flushed(r) EXCEPT ![j] = NewRow]
           phase == IF run[r].at = None THEN "between" ELSE "linking"
           job == IF run[r].at = None THEN None ELSE j
<1>1. /\ run[r] \in Run /\ SessionInv(r) /\ VersionInv(r) /\ LinkingInv(r)
      /\ row' = row /\ links' = links /\ run[r].phase = "read"
      /\ FlushAllowed(r) /\ View(r, j) = Absent /\ Unlocked(r, j)
  BY DEF Insert, Inv, TypeOK, LinkInv, RunInv
<1>2. /\ j \in Jobs
      /\ row[j] = Absent /\ run[r].mine[j] = Absent /\ Flushed(r)[j] = Absent
      /\ run[r].object[j] = Absent
      /\ j \notin Present(r)
  <2>1. j \in Jobs
    BY <1>1 DEF LinkingInv
  <2> QED
    BY <1>1, <2>1, FlushedSound DEF View, SessionInv, Present
<1>3. run[r].at # None =>
        /\ run[r].at \in Jobs /\ run[r].at # j
        /\ run[r].object[run[r].at] # Absent
  BY <1>1, <1>2 DEF LinkingInv, Run
<1>4. run' = [run EXCEPT ![r].mine = mine, ![r].loaded = object, ![r].object = object,
                ![r].phase = phase, ![r].job = job]
  BY DEF Insert
<1> HIDE DEF mine, object, phase, job
<1>5. /\ run'[r] = [run[r] EXCEPT !.mine = mine, !.loaded = object, !.object = object,
                      !.phase = phase, !.job = job]
      /\ run' = [run EXCEPT ![r] = run'[r]]
      /\ \A q \in Runs \ {r} : run'[q] = run[q]
  BY <1>4 DEF Inv, TypeOK
<1>6. /\ mine \in Versions /\ object \in Versions
      /\ mine[j] = NewRow /\ object[j] = NewRow
      /\ \A i \in Jobs \ {j} : mine[i] = Flushed(r)[i] /\ object[i] = run[r].object[i]
  <2>1. Flushed(r) \in Versions /\ run[r].object \in Versions
    BY <1>1, FlushedType DEF Inv, Run
  <2> QED
    BY <1>2, <2>1, NewRowType DEF Versions, mine, object
<1>7. /\ run'[r].mine = mine /\ run'[r].loaded = object /\ run'[r].object = object
      /\ run'[r].phase = phase /\ run'[r].job = job /\ run'[r].at = run[r].at
      /\ run'[r] \in Run
  <2>1. phase \in {"between", "read", "linking"} /\ job \in Jobs \union {None}
    BY <1>2 DEF phase, job
  <2> QED
    BY <1>1, <1>5, <1>6, <2>1 DEF Run
<1>8. TypeOK'
  BY <1>1, <1>5, <1>7 DEF Inv, TypeOK
<1>9. /\ Present(r)' = Present(r) \union {j}
      /\ \A i \in Jobs : View(r, i) # Absent => View(r, i)' # Absent
  <2>1. \A i \in Jobs \ {j} : View(r, i)' # Absent <=> View(r, i) # Absent
    BY <1>1, <1>6, <1>7, FlushedSound DEF View
  <2>2. \A i \in {j} : View(r, i)' # Absent
    BY <1>6, <1>7, NewRowType DEF View
  <2> QED
    BY <1>2, <2>1, <2>2 DEF Present
<1>10. \A i \in Jobs \ {j} : /\ Sound(mine[i], i, Present(r))
                             /\ Sound(object[i], i, Present(r))
  BY <1>1, <1>6, FlushedSound DEF VersionInv
<1>11. NewRow.next = None /\ NewRow.canonical = TRUE /\ j # None
  BY <1>2, LinksAssumption DEF NewRow
<1>12. VersionInv(r)'
  <2>1. \A i \in Jobs : /\ Sound(mine[i], i, Present(r)')
                        /\ Sound(object[i], i, Present(r)')
    BY <1>6, <1>9, <1>10, <1>11 DEF Sound
  <2> QED
    BY <1>7, <2>1 DEF VersionInv
<1>13. SessionInv(r)'
  <2>1. \A i \in Jobs : object[i] # Absent => View(r, i)' # Absent
    BY <1>1, <1>2, <1>6, <1>9 DEF SessionInv, Present
  <2> QED
    BY <1>7, <2>1 DEF SessionInv, Together
<1>14. RowInv' /\ Locks'
  <2>1. RowInv'
    BY <1>1 DEF Inv, LinkInv, RowInv, Committed
  <2>2. \A i \in Jobs : run'[r].mine[i] # Absent =>
                          \A q \in Runs \ {r} : run[q].mine[i] = Absent
    BY <1>1, <1>6, <1>7, FlushedSound DEF Unlocked
  <2>3. Locks'
    <3>1. Locks /\ \A q \in Runs \ {r} : run'[q] = run[q]
      BY <1>5 DEF Inv, LinkInv
    <3> QED
      BY <2>2, <3>1, LocksKept
  <2> QED
    BY <2>1, <2>3
<1>15. LinkingInv(r)'
  <2>1. CASE run[r].at = None
    <3>1. run'[r].phase = "between"
      BY <1>7, <2>1 DEF phase
    <3> QED
      BY <3>1 DEF LinkingInv
  <2>2. CASE run[r].at # None
    <3>1. /\ run'[r].phase = "linking" /\ run'[r].job = j
      BY <1>7, <2>2 DEF phase, job
    <3>2. \A i \in Jobs : /\ mine[i] # Absent => mine[i].next # j
                          /\ object[i] # Absent => object[i].next # j
      BY <1>2, <1>6, <1>10, <1>11 DEF Sound
    <3>3. object[run[r].at] # Absent
      BY <1>3, <1>6, <2>2
    <3> QED
      BY <1>1, <1>2, <1>3, <1>6, <1>7, <2>2, <3>1, <3>2, <3>3 DEF LinkingInv
  <2> QED
    BY <2>1, <2>2
<1> QED
  BY <1>8, <1>12, <1>13, <1>14, <1>15 DEF Kept, RunInv

\* A run that is linking a posting keeps its invariant while others commit, as long as they do
\* not commit that posting.
LEMMA CommitFrame ==
  ASSUME Inv, NEW q \in Runs, run'[q] = run[q],
         \A j \in Jobs : row[j] # Absent => row'[j] # Absent,
         run[q].phase = "linking" => row'[run[q].job] = Absent
  PROVE  RunInv(q)'
<1>1. RunInv(q)
  BY DEF Inv, LinkInv
<1>2. /\ Present(q) \subseteq Present(q)'
      /\ \A j \in Jobs : View(q, j) # Absent => View(q, j)' # Absent
  BY DEF Present, View
<1>3. VersionInv(q)'
  <2>1. \A j \in Jobs : /\ Sound(run[q].mine[j], j, Present(q)')
                        /\ Sound(run[q].loaded[j], j, Present(q)')
                        /\ Sound(run[q].object[j], j, Present(q)')
    BY <1>1, <1>2 DEF RunInv, VersionInv, Sound
  <2> QED
    BY <2>1 DEF VersionInv
<1>4. SessionInv(q)' /\ LinkingInv(q)'
  BY <1>1, <1>2 DEF RunInv, SessionInv, LinkingInv
<1> QED
  BY <1>3, <1>4 DEF RunInv

\* What a commit publishes is sound, and none of it is the posting another run is linking.
LEMMA CommitKeeps ==
  ASSUME Inv, NEW r \in Runs, Commit(r)
  PROVE  Kept(r)' /\ \A q \in Runs \ {r} : RunInv(q)'
<1>1. /\ run[r] \in Run /\ SessionInv(r) /\ FlushAllowed(r)
      /\ row' = [j \in Jobs |-> IF Flushed(r)[j] # Absent THEN Flushed(r)[j] ELSE row[j]]
      /\ run'[r] = Closed
      /\ run' = [run EXCEPT ![r] = Closed]
      /\ \A q \in Runs \ {r} : run'[q] = run[q]
  BY DEF Commit, Inv, TypeOK, LinkInv, RunInv
<1>2. TypeOK'
  <2>1. row' \in [Jobs -> Row \union {Absent}]
    BY <1>1, FlushedType DEF Inv, TypeOK, Versions
  <2>2. links' \subseteq Jobs \X Jobs
    BY <1>1 DEF Commit, Inv, TypeOK, Run
  <2> QED
    BY <1>1, <2>1, <2>2, ClosedType DEF Inv, TypeOK
<1>3. \A j \in Jobs : /\ row'[j] = row[j] \/ row'[j] = Flushed(r)[j]
                      /\ row[j] # Absent => row'[j] # Absent
                      /\ row'[j] # Absent <=> View(r, j) # Absent
  BY <1>1, FlushedSound DEF View
<1>4. Committed' = Present(r)
  BY <1>3 DEF Committed, Present
<1>5. RowInv'
  <2>1. Committed \subseteq Present(r)
    BY DEF Committed, Present, View
  <2>2. \A j \in Jobs : Sound(row[j], j, Present(r))
    BY <2>1 DEF Inv, LinkInv, RowInv, Sound
  <2>3. \A j \in Jobs : Sound(row'[j], j, Committed')
    BY <1>3, <1>4, <2>2, FlushedSound
  <2> QED
    BY <2>3 DEF RowInv
<1>6. /\ \A j \in Jobs : /\ run'[r].mine[j] = Absent
                         /\ run'[r].loaded[j] = Absent
                         /\ run'[r].object[j] = Absent
      /\ run'[r].phase = "between"
  BY <1>1 DEF Closed, Nothing
<1>7. RunInv(r)'
  BY <1>6 DEF RunInv, VersionInv, SessionInv, LinkingInv, Sound
<1>8. Locks'
  <2>1. Locks
    BY DEF Inv, LinkInv
  <2> QED
    BY <1>1, <1>6, <2>1, LocksKept
<1>9. ASSUME NEW q \in Runs \ {r}
      PROVE  RunInv(q)'
  <2>1. ASSUME run[q].phase = "linking"
        PROVE  row'[run[q].job] = Absent
    <3>1. /\ run[q].job \in Jobs /\ row[run[q].job] = Absent
          /\ run[q].mine[run[q].job] # Absent
      BY <2>1, NewRowType DEF Inv, LinkInv, RunInv, LinkingInv
    <3>2. Flushed(r)[run[q].job] = Absent
      BY <1>1, <3>1, FlushedSound
    <3> QED
      BY <1>3, <3>1, <3>2
  <2> QED
    BY <1>1, <1>3, <2>1, CommitFrame
<1> QED
  BY <1>2, <1>5, <1>7, <1>8, <1>9 DEF Kept

-----------------------------------------------------------------------------
(* The theorems.                                                           *)

\* The invariant holds of the empty table and every step keeps it.
LEMMA Inductive == Spec => []Inv
<1>1. Init => Inv
  <2> SUFFICES ASSUME Init
               PROVE  Inv
    OBVIOUS
  <2>1. TypeOK
    BY ClosedType DEF Init, TypeOK, Nothing
  <2>2. \A r \in Runs : /\ run[r].phase = "between"
                        /\ \A j \in Jobs : /\ run[r].mine[j] = Absent
                                           /\ run[r].loaded[j] = Absent
                                           /\ run[r].object[j] = Absent
    BY DEF Init, Closed, Nothing
  <2>3. \A r \in Runs : RunInv(r)
    BY <2>2 DEF RunInv, VersionInv, SessionInv, LinkingInv, Sound
  <2>4. RowInv /\ Locks
    BY <2>2 DEF Init, RowInv, Locks, Sound, Nothing
  <2> QED
    BY <2>1, <2>3, <2>4 DEF Inv, LinkInv
<1>2. Inv /\ [Next]_vars => Inv'
  <2> SUFFICES ASSUME Inv, [Next]_vars
               PROVE  Inv'
    OBVIOUS
  <2>1. CASE UNCHANGED vars
    <3>1. row' = row /\ links' = links /\ run' = run
      BY <2>1 DEF vars
    <3>2. \A r \in Runs : RunInv(r)'
      BY <3>1, Frame
    <3>3. TypeOK' /\ RowInv' /\ Locks'
      BY <3>1 DEF Inv, TypeOK, LinkInv, RowInv, Committed, Locks
    <3> QED
      BY <3>2, <3>3 DEF Inv, LinkInv
  <2>2. ASSUME NEW r \in Runs, RunStep(r)
        PROVE  Inv'
    <3>1. CASE Commit(r)
      BY <3>1, CommitKeeps DEF Kept, Inv, LinkInv
    <3>2. CASE ~Commit(r)
      <4>1. Kept(r)' /\ row' = row
        BY <2>2, <3>2, FlushKeeps, ReadKeeps, InsertKeeps, FollowKeeps, LinkKeeps, RollbackKeeps
        DEF RunStep, Flush, Read, Insert, Follow, Link, Rollback
      <4>2. ASSUME NEW q \in Runs \ {r}
            PROVE  run'[q] = run[q]
        <5>1. CASE Flush(r)
          BY <5>1 DEF Flush, Inv, TypeOK
        <5>2. ASSUME NEW j \in Jobs, Read(r, j)
              PROVE  run'[q] = run[q]
          BY <5>2 DEF Read, Inv, TypeOK
        <5>3. CASE Insert(r)
          BY <5>3 DEF Insert, Inv, TypeOK
        <5>4. CASE Follow(r)
          BY <5>4 DEF Follow, Inv, TypeOK
        <5>5. CASE Link(r)
          BY <5>5, LinkKeeps
        <5>6. CASE Rollback(r)
          BY <5>6 DEF Rollback, Inv, TypeOK
        <5> QED
          BY <2>2, <3>2, <5>1, <5>2, <5>3, <5>4, <5>5, <5>6 DEF RunStep
      <4>3. \A q \in Runs \ {r} : RunInv(q)'
        BY <4>1, <4>2, Frame
      <4> QED
        BY <4>1, <4>3 DEF Kept, Inv, LinkInv
    <3> QED
      BY <3>1, <3>2
  <2> QED
    BY <2>1, <2>2 DEF Next
<1> QED
  BY <1>1, <1>2, PTL DEF Spec

\* Every reachable state of the tables and of the sessions is well typed.
THEOREM LinksTypeCorrect == Spec => []TypeOK
<1>1. Inv => TypeOK
  BY DEF Inv
<1> QED
  BY <1>1, Inductive, PTL

\* Whatever the runs read, hold and overwrite, a committed row is listed exactly when it points
\* nowhere: no merged posting is listed beside the one it was merged with, and every posting
\* that is not listed leads to another (ingestion.py: _link_duplicate).
THEOREM ListedRowsAreRoots == Spec => []ListedIsRoot
<1>1. Inv => ListedIsRoot
  BY DEF Inv, LinkInv, RowInv, Sound, ListedIsRoot
<1> QED
  BY <1>1, Inductive, PTL
-----------------------------------------------------------------------------
(* Chains.  No version of the rows is left out: a row is taken to point    *)
(* wherever its committed version, or one that a session has written or    *)
(* holds, points.  A link adds one edge, at a row nothing pointed to and   *)
(* that pointed nowhere, and no other step adds any.                       *)

Points(v, k) == v # Absent /\ v.next = k

Leads(i, k) ==
  \/ Points(row[i], k)
  \/ \E r \in Runs : \/ Points(run[r].mine[i], k)
                     \/ Points(run[r].loaded[i], k)
                     \/ Points(run[r].object[i], k)

\* No set of rows is closed under these edges.
Forward == \A S \in (SUBSET Jobs) \ {{}} : \E i \in S : \A k \in S : ~Leads(i, k)

\* The rows the loop has left, each held with the pointer that led to the next one.
WalkInv(r) ==
  /\ run[r].phase # "linking" => run[r].passed = {}
  /\ \A p \in run[r].passed :
       /\ run[r].object[p] # Absent
       /\ run[r].object[p].next \in run[r].passed \union {run[r].at}

ChainInv == Forward /\ \A r \in Runs : WalkInv(r)

\* Nothing points to a posting that is being linked, and it points nowhere.
LEMMA PostingIsolated ==
  ASSUME Inv, NEW r \in Runs, run[r].phase = "linking", NEW i \in Jobs
  PROVE  ~Leads(i, run[r].job) /\ ~Leads(run[r].job, i)
<1> DEFINE j == run[r].job
<1>1. /\ j \in Jobs /\ j # None /\ i # None
      /\ row[j] = Absent /\ run[r].mine[j] = NewRow /\ run[r].object[j] = NewRow
      /\ run[r].loaded = run[r].object
      /\ run[r].mine[i] # Absent => run[r].mine[i].next # j
      /\ run[r].object[i] # Absent => run[r].object[i].next # j
  BY LinksAssumption DEF Inv, LinkInv, RunInv, LinkingInv
<1> HIDE DEF j
<1>2. \A q \in Runs \ {r} : run[q].mine[j] = Absent /\ j \notin Present(q)
  BY <1>1, NewRowType DEF Inv, LinkInv, Locks, Present, View
<1>3. \A q \in Runs \ {r} : run[q].object[j] = Absent /\ run[q].loaded[j] = Absent
  BY <1>1, <1>2 DEF Inv, LinkInv, RunInv, SessionInv, Present
<1>4. NewRow.next = None
  BY DEF NewRow
<1>5. ~Leads(j, i)
  <2>1. ~Points(row[j], i) /\ ~Points(NewRow, i) /\ ~Points(Absent, i)
    BY <1>1, <1>4 DEF Points
  <2> QED
    BY <1>1, <1>2, <1>3, <2>1 DEF Leads
<1>6. ~Leads(i, j)
  <2>1. ~Points(row[i], j)
    BY <1>1 DEF Points, Inv, LinkInv, RowInv, Sound, Committed
  <2>2. ASSUME NEW q \in Runs \ {r}
        PROVE  /\ ~Points(run[q].mine[i], j)
               /\ ~Points(run[q].loaded[i], j)
               /\ ~Points(run[q].object[i], j)
    BY <1>1, <1>2 DEF Points, Inv, LinkInv, RunInv, VersionInv, Sound
  <2> QED
    BY <1>1, <2>1, <2>2 DEF Leads, Points
<1> QED
  BY <1>5, <1>6 DEF j

\* What a run reads, and what it flushes, points where some version pointed.
LEMMA ViewLeads ==
  ASSUME NEW r \in Runs, NEW i \in Jobs, NEW k \in Jobs, Points(View(r, i), k)
  PROVE  Leads(i, k)
BY DEF View, Leads

\* The same of what it flushes: an UPDATE takes the column from one version or another.
LEMMA FlushedLeads ==
  ASSUME Inv, NEW r \in Runs, NEW i \in Jobs, NEW k \in Jobs, Points(Flushed(r)[i], k)
  PROVE  Leads(i, k)
<1>1. CASE i \in Dirty(r)
  <2> DEFINE seen == View(r, i)
             old == run[r].loaded[i]
             new == run[r].object[i]
  <2>1. Flushed(r)[i] = Update(seen, old, new)
    BY <1>1 DEF Flushed
  <2>2. new # Absent /\ seen # Absent
    BY <1>1 DEF Dirty, Inv, LinkInv, RunInv, SessionInv
  <2> HIDE DEF seen, old, new
  <2>3. seen.next = k \/ new.next = k
    BY <2>1 DEF Update, Column, Points
  <2>4. Points(seen, k) \/ Points(new, k)
    BY <2>2, <2>3 DEF Points
  <2> QED
    BY <2>4, ViewLeads DEF Leads, seen, new
<1>2. CASE i \notin Dirty(r)
  BY <1>2 DEF Flushed, Leads
<1> QED
  BY <1>1, <1>2

\* A step that adds no edge keeps every set open.
LEMMA NoEdge ==
  ASSUME Forward, \A i, k \in Jobs : Leads(i, k)' => Leads(i, k)
  PROVE  Forward'
BY DEF Forward

\* So does one that adds an edge at a row without any.
LEMMA OneEdge ==
  ASSUME Forward, NEW a \in Jobs, NEW b \in Jobs, a # b, NEW j \in {a, b},
         \A i \in Jobs : ~Leads(i, j) /\ ~Leads(j, i),
         \A i, k \in Jobs : Leads(i, k)' => Leads(i, k) \/ (i = a /\ k = b)
  PROVE  Forward'
<1> SUFFICES ASSUME NEW S \in (SUBSET Jobs) \ {{}}
             PROVE  \E i \in S : \A k \in S : ~Leads(i, k)'
  BY DEF Forward
<1>1. CASE j \in S /\ (j = b \/ S = {j})
  <2>1. \A k \in S : ~Leads(j, k)'
    BY <1>1
  <2> QED
    BY <1>1, <2>1
<1>2. CASE ~(j \in S /\ (j = b \/ S = {j}))
  <2>1. S \ {j} \in (SUBSET Jobs) \ {{}}
    BY <1>2
  <2>2. PICK i \in S \ {j} : \A k \in S \ {j} : ~Leads(i, k)
    BY <2>1 DEF Forward
  <2>3. \A k \in S : ~Leads(i, k)'
    BY <1>2, <2>2
  <2> QED
    BY <2>3
<1> QED
  BY <1>1, <1>2

\* The edges after a step in which run r alone changes are those of r's versions, or were
\* there before.
LEMMA EdgesOfRun ==
  ASSUME NEW r \in Runs, \A q \in Runs \ {r} : run'[q] = run[q],
         NEW i \in Jobs, NEW k \in Jobs, Leads(i, k)'
  PROVE  \/ Leads(i, k)
         \/ Points(row'[i], k)
         \/ Points(run'[r].mine[i], k)
         \/ Points(run'[r].loaded[i], k)
         \/ Points(run'[r].object[i], k)
BY DEF Leads, Points

\* A flush copies the versions it writes.
LEMMA FlushEdges ==
  ASSUME Inv, NEW r \in Runs, Flush(r), NEW i \in Jobs, NEW k \in Jobs, Leads(i, k)'
  PROVE  Leads(i, k)
<1>1. /\ run'[r].mine = Flushed(r) /\ run'[r].loaded = run[r].object
      /\ run'[r].object = run[r].object /\ row' = row
      /\ \A q \in Runs \ {r} : run'[q] = run[q]
  BY DEF Flush, Inv, TypeOK, Run
<1> QED
  BY <1>1, EdgesOfRun, FlushedLeads DEF Leads

\* The columns of a session that read candidates: copies of the rows, or what it held.
LEMMA ReadWrites ==
  ASSUME Inv, NEW r \in Runs, NEW j \in Jobs, Read(r, j)
  PROVE  \E loaded, object \in Versions :
           /\ run'[r].phase = "read" /\ run'[r].mine = run[r].mine /\ run'[r].new = run[r].new
           /\ run'[r].passed = run[r].passed
           /\ run'[r].loaded = loaded /\ run'[r].object = object
           /\ \A i \in Jobs : /\ loaded[i] \in {run[r].loaded[i], View(r, i), Absent}
                              /\ object[i] \in {run[r].object[i], View(r, i), Absent}
<1>1. PICK candidates \in SUBSET Candidates(r), m \in Jobs \union {None} :
        run' = [run EXCEPT ![r].phase = "read", ![r].job = j, ![r].at = m,
          ![r].loaded = [x \in Jobs |-> IF x \in Dirty(r) THEN run[r].loaded[x]
                           ELSE IF x \in candidates THEN View(r, x) ELSE Absent],
          ![r].object = [x \in Jobs |-> IF x \in Dirty(r) THEN run[r].object[x]
                           ELSE IF x \in candidates THEN View(r, x) ELSE Absent]]
  BY DEF Read
<1> DEFINE loaded == [x \in Jobs |-> IF x \in Dirty(r) THEN run[r].loaded[x]
                        ELSE IF x \in candidates THEN View(r, x) ELSE Absent]
           object == [x \in Jobs |-> IF x \in Dirty(r) THEN run[r].object[x]
                        ELSE IF x \in candidates THEN View(r, x) ELSE Absent]
<1>2. \A i \in Jobs : /\ loaded[i] \in {run[r].loaded[i], View(r, i), Absent}
                      /\ object[i] \in {run[r].object[i], View(r, i), Absent}
  OBVIOUS
<1>3. run[r] \in Run /\ loaded \in Versions /\ object \in Versions
  <2>1. run[r] \in Run
    BY DEF Inv, TypeOK
  <2>2. \A i \in Jobs : loaded[i] \in Row \union {Absent} /\ object[i] \in Row \union {Absent}
    BY <1>2, <2>1, ViewType DEF Inv, Run, Versions
  <2> QED
    BY <2>1, <2>2 DEF Versions
<1>4. run'[r] = [run[r] EXCEPT !.phase = "read", !.job = j, !.at = m,
                   !.loaded = loaded, !.object = object]
  BY <1>1 DEF Inv, TypeOK
<1> HIDE DEF loaded, object
<1>5. /\ run'[r].phase = "read" /\ run'[r].mine = run[r].mine /\ run'[r].new = run[r].new
      /\ run'[r].passed = run[r].passed
      /\ run'[r].loaded = loaded /\ run'[r].object = object
  BY <1>3, <1>4 DEF Run
<1> QED
  BY <1>2, <1>3, <1>5

\* The columns of a session that linked a posting.
LEMMA LinkWrites ==
  ASSUME Inv, NEW r \in Runs, Link(r)
  PROVE  LET c == run[r].at
             j == run[r].job
         IN \E merge, better \in BOOLEAN, object \in Versions :
              /\ run'[r].phase = "between" /\ run'[r].mine = run[r].mine
              /\ run'[r].new = run[r].new \union {<<c, j>>} /\ run'[r].passed = {}
              /\ run'[r].loaded = run[r].loaded /\ run'[r].object = object
              /\ object[j] = Linked(c, j, run[r].object[c], merge, better).job
              /\ object[c] = Linked(c, j, run[r].object[c], merge, better).canonical
              /\ \A i \in Jobs \ {c, j} : object[i] = run[r].object[i]
<1> DEFINE c == run[r].at
           j == run[r].job
           seen == run[r].object[c]
           new == run[r].new \union {<<c, j>>}
<1>1. PICK merge \in BOOLEAN, better \in BOOLEAN :
        LET linked == Linked(c, j, seen, merge, better)
        IN run' = [run EXCEPT
             ![r].object = [@ EXCEPT ![j] = linked.job, ![c] = linked.canonical],
             ![r].new    = @ \union {<<c, j>>},
             ![r].phase  = "between", ![r].job = None, ![r].at = None,
             ![r].passed = {}]
  BY DEF Link
<1> DEFINE linked == Linked(c, j, seen, merge, better)
           object == [run[r].object EXCEPT ![j] = linked.job, ![c] = linked.canonical]
<1>2. /\ run[r] \in Run /\ run[r].object \in Versions
      /\ c \in Jobs /\ j \in Jobs /\ c # j /\ seen # Absent
  BY DEF Link, Inv, TypeOK, LinkInv, RunInv, LinkingInv, Run
<1>3. linked.job \in Row /\ linked.canonical \in Row
  BY <1>2, LinkedType DEF Versions
<1> HIDE DEF linked
<1>4. /\ object \in Versions /\ object[c] = linked.canonical /\ object[j] = linked.job
      /\ \A i \in Jobs \ {c, j} : object[i] = run[r].object[i]
  BY <1>2, <1>3 DEF Versions
<1>5. run'[r] = [run[r] EXCEPT !.object = object, !.new = new, !.phase = "between",
                   !.job = None, !.at = None, !.passed = {}]
  BY <1>1 DEF Inv, TypeOK, linked
<1> HIDE DEF object, new
<1>6. /\ run'[r].phase = "between" /\ run'[r].mine = run[r].mine
      /\ run'[r].new = new /\ run'[r].passed = {}
      /\ run'[r].loaded = run[r].loaded /\ run'[r].object = object
  BY <1>2, <1>5 DEF Run
<1> QED
  BY <1>4, <1>6 DEF linked, new

\* A step of one run changes no other.
LEMMA OthersKept ==
  ASSUME Inv, NEW r \in Runs, RunStep(r), NEW q \in Runs \ {r}
  PROVE  run'[q] = run[q]
<1>0. run \in [Runs -> Run]
  BY DEF Inv, TypeOK
<1>1. CASE Flush(r)
  BY <1>0, <1>1 DEF Flush
<1>2. CASE \E j \in Jobs : Read(r, j)
  BY <1>0, <1>2 DEF Read
<1>3. CASE Insert(r)
  BY <1>0, <1>3 DEF Insert
<1>4. CASE Follow(r)
  BY <1>0, <1>4 DEF Follow
<1>5. CASE Link(r)
  BY <1>5, LinkKeeps
<1>6. CASE Commit(r) \/ Rollback(r)
  BY <1>0, <1>6 DEF Commit, Rollback
<1> QED
  BY <1>1, <1>2, <1>3, <1>4, <1>5, <1>6 DEF RunStep

\* The candidates are copies of the rows that are read.
LEMMA ReadEdges ==
  ASSUME Inv, NEW r \in Runs, NEW j \in Jobs, Read(r, j), NEW i \in Jobs, NEW k \in Jobs,
         Leads(i, k)'
  PROVE  Leads(i, k)
<1>1. PICK loaded \in Versions, object \in Versions :
        /\ run'[r].mine = run[r].mine /\ run'[r].loaded = loaded /\ run'[r].object = object
        /\ loaded[i] \in {run[r].loaded[i], View(r, i), Absent}
        /\ object[i] \in {run[r].object[i], View(r, i), Absent}
  BY ReadWrites
<1>2. row' = row /\ \A q \in Runs \ {r} : run'[q] = run[q]
  BY OthersKept DEF Read, RunStep
<1>3. Points(loaded[i], k) \/ Points(object[i], k) => Leads(i, k)
  BY <1>1, ViewLeads DEF Leads, Points
<1> QED
  BY <1>1, <1>2, <1>3, EdgesOfRun DEF Leads

\* The new row points nowhere.
LEMMA InsertEdges ==
  ASSUME Inv, NEW r \in Runs, Insert(r), NEW i \in Jobs, NEW k \in Jobs, Leads(i, k)'
  PROVE  Leads(i, k)
<1> DEFINE j == run[r].job
           mine == [Flushed(r) EXCEPT ![j] = NewRow]
           object == [run[r].object EXCEPT ![j] = NewRow]
<1>1. mine[i] \in {Flushed(r)[i], NewRow} /\ object[i] \in {run[r].object[i], NewRow}
  BY DEF Flushed, Inv, TypeOK, Run, Versions
<1> HIDE DEF mine, object
<1>2. /\ run'[r].mine = mine /\ run'[r].loaded = object /\ run'[r].object = object
      /\ row' = row /\ \A q \in Runs \ {r} : run'[q] = run[q]
  BY DEF Insert, Inv, TypeOK, Run, mine, object
<1>3. ~Points(NewRow, k)
  BY LinksAssumption DEF Points, NewRow
<1>4. Points(mine[i], k) \/ Points(object[i], k) => Leads(i, k)
  BY <1>1, <1>3, FlushedLeads DEF Leads
<1> QED
  BY <1>2, <1>4, EdgesOfRun DEF Leads

\* The next row of the loop is the session's object or a copy of the row that is read.
LEMMA FollowEdges ==
  ASSUME Inv, NEW r \in Runs, Follow(r), NEW i \in Jobs, NEW k \in Jobs, Leads(i, k)'
  PROVE  Leads(i, k)
<1> DEFINE parent == run[r].object[run[r].at].next
           loaded == Get(run[r].loaded, r, parent)
           object == Get(run[r].object, r, parent)
<1>1. /\ loaded[i] \in {run[r].loaded[i], View(r, i)}
      /\ object[i] \in {run[r].object[i], View(r, i)}
  BY DEF Get, Inv, TypeOK, Run, Versions
<1> HIDE DEF loaded, object
<1>2. /\ run'[r].mine = run[r].mine /\ run'[r].loaded = loaded /\ run'[r].object = object
      /\ row' = row /\ \A q \in Runs \ {r} : run'[q] = run[q]
  BY DEF Follow, Inv, TypeOK, Run, loaded, object
<1>3. Points(loaded[i], k) \/ Points(object[i], k) => Leads(i, k)
  BY <1>1, ViewLeads DEF Leads
<1> QED
  BY <1>2, <1>3, EdgesOfRun DEF Leads

\* The end of a transaction publishes what it flushes or forgets what it has written.
LEMMA EndEdges ==
  ASSUME Inv, NEW r \in Runs, Commit(r) \/ Rollback(r), NEW i \in Jobs, NEW k \in Jobs,
         Leads(i, k)'
  PROVE  Leads(i, k)
<1>1. /\ run'[r] = Closed /\ \A q \in Runs \ {r} : run'[q] = run[q]
      /\ row'[i] = row[i] \/ row'[i] = Flushed(r)[i]
  BY DEF Commit, Rollback, Inv, TypeOK
<1>2. /\ ~Points(run'[r].mine[i], k) /\ ~Points(run'[r].loaded[i], k)
      /\ ~Points(run'[r].object[i], k)
  BY <1>1 DEF Closed, Nothing, Points
<1>3. Points(row'[i], k) => Leads(i, k)
  BY <1>1, FlushedLeads DEF Leads
<1> QED
  BY <1>1, <1>2, <1>3, EdgesOfRun

\* A link adds at most one edge, between the posting and the row it duplicates.
LEMMA LinkEdges ==
  ASSUME Inv, NEW r \in Runs, Link(r)
  PROVE  \E a, b \in Jobs :
           /\ a # b /\ run[r].job \in {a, b}
           /\ \A i, k \in Jobs : Leads(i, k)' => Leads(i, k) \/ (i = a /\ k = b)
<1> DEFINE c == run[r].at
           j == run[r].job
           seen == run[r].object[c]
<1>1. /\ run[r] \in Run /\ VersionInv(r)
      /\ c \in Jobs /\ j \in Jobs /\ c # j /\ seen # Absent /\ seen.next \in {None, c}
  BY DEF Link, Inv, TypeOK, LinkInv, RunInv, LinkingInv
<1>2. seen \in Row /\ seen.next \notin Jobs
  <2>1. seen \in Row
    BY <1>1 DEF Run, Versions
  <2>2. seen.next # c
    BY <1>1 DEF VersionInv, Sound
  <2> QED
    BY <1>1, <2>1, <2>2, LinksAssumption
<1>3. PICK merge \in BOOLEAN, better \in BOOLEAN, object \in Versions :
        /\ run'[r].mine = run[r].mine
        /\ run'[r].loaded = run[r].loaded /\ run'[r].object = object
        /\ object[j] = Linked(c, j, seen, merge, better).job
        /\ object[c] = Linked(c, j, seen, merge, better).canonical
        /\ \A i \in Jobs \ {c, j} : object[i] = run[r].object[i]
  BY LinkWrites
<1> DEFINE linked == Linked(c, j, seen, merge, better)
<1>4. /\ object[c] = linked.canonical /\ object[j] = linked.job
      /\ \A i \in Jobs \ {c, j} : object[i] = run[r].object[i]
  BY <1>3
<1>5. /\ \A k \in Jobs : Points(linked.job, k) => merge /\ ~better /\ k = c
      /\ \A k \in Jobs : Points(linked.canonical, k) => merge /\ better /\ k = j
  <2>1. NewRow.next = None /\ [NewRow EXCEPT !.next = c, !.canonical = FALSE].next = c
    BY DEF NewRow
  <2>2. [seen EXCEPT !.count = @ + 1].next = seen.next
    BY <1>2 DEF Row
  <2> QED
    BY <1>2, <2>1, <2>2, LinksAssumption DEF Linked, Points
<1> HIDE DEF linked
<1>6. row' = row /\ \A q \in Runs \ {r} : run'[q] = run[q]
  BY OthersKept DEF Link, RunStep
<1>7. ASSUME NEW i \in Jobs, NEW k \in Jobs, Leads(i, k)', ~Leads(i, k)
      PROVE  \/ i = j /\ k = c /\ merge /\ ~better
             \/ i = c /\ k = j /\ merge /\ better
  <2>1. Points(object[i], k) /\ ~Points(run[r].object[i], k)
    BY <1>3, <1>6, <1>7, EdgesOfRun DEF Leads
  <2> QED
    BY <1>4, <1>5, <2>1
<1>8. CASE merge /\ better
  BY <1>1, <1>7, <1>8
<1>9. CASE ~(merge /\ better)
  BY <1>1, <1>7, <1>9
<1> QED
  BY <1>8, <1>9

\* The edges stay open in every set.
LEMMA ForwardStep ==
  ASSUME Inv, Forward, [Next]_vars
  PROVE  Forward'
<1>1. CASE UNCHANGED vars
  BY <1>1, NoEdge DEF vars, Leads
<1>2. ASSUME NEW r \in Runs, RunStep(r) PROVE Forward'
  <2>1. CASE Link(r)
    <3>1. PICK a \in Jobs, b \in Jobs :
            /\ a # b /\ run[r].job \in {a, b}
            /\ \A i, k \in Jobs : Leads(i, k)' => Leads(i, k) \/ (i = a /\ k = b)
      BY <2>1, LinkEdges
    <3>2. \A i \in Jobs : ~Leads(i, run[r].job) /\ ~Leads(run[r].job, i)
      BY <2>1, PostingIsolated DEF Link
    <3> QED
      BY <3>1, <3>2, OneEdge
  <2>2. CASE ~Link(r)
    <3>1. \A i, k \in Jobs : Leads(i, k)' => Leads(i, k)
      BY <1>2, <2>2, FlushEdges, ReadEdges, InsertEdges, FollowEdges, EndEdges DEF RunStep
    <3> QED
      BY <3>1, NoEdge
  <2> QED
    BY <2>1, <2>2
<1> QED
  BY <1>1, <1>2 DEF Next

\* The loop leaves a row with the pointer it followed, in an object the session keeps.
LEMMA WalkStep ==
  ASSUME Inv, NEW q \in Runs, WalkInv(q), [Next]_vars
  PROVE  WalkInv(q)'
<1>1. CASE run'[q] = run[q]
  BY <1>1 DEF WalkInv
<1>2. CASE run'[q].phase # "linking" /\ run'[q].passed = {}
  BY <1>2 DEF WalkInv
<1>3. run[q] \in Run /\ run \in [Runs -> Run]
  BY DEF Inv, TypeOK
<1>4. ASSUME Follow(q) PROVE WalkInv(q)'
  <2> DEFINE at == run[q].at
             parent == run[q].object[at].next
             passed == run[q].passed
             object == run[q].object
             held == Get(object, q, parent)
  <2>1. /\ run[q].phase = "linking" /\ at \in Jobs /\ object[at] # Absent
        /\ object \in Versions /\ passed \subseteq Jobs
    BY <1>3, <1>4 DEF Follow, Inv, LinkInv, RunInv, LinkingInv, Run
  <2>2. \A p \in Jobs : object[p] # Absent => held[p] = object[p]
    BY <2>1 DEF Get, Versions
  <2>3. \A p \in passed : object[p] # Absent /\ object[p].next \in passed \union {at}
    BY DEF WalkInv
  <2> HIDE DEF held
  <2>4. /\ run'[q].phase = "linking" /\ run'[q].at = parent
        /\ run'[q].object = held /\ run'[q].passed = passed \union {at}
    BY <1>3, <1>4, <2>1 DEF Follow, Run, held
  <2>5. ASSUME NEW p \in passed \union {at}
        PROVE  held[p] # Absent /\ held[p].next \in passed \union {at, parent}
    BY <2>1, <2>2, <2>3
  <2> QED
    BY <2>4, <2>5 DEF WalkInv
<1>5. ASSUME Insert(q) PROVE WalkInv(q)'
  <2>1. run[q].passed = {}
    BY <1>5 DEF Insert, WalkInv
  <2>2. run'[q].passed = run[q].passed
    BY <1>3, <1>5 DEF Insert, Run
  <2> QED
    BY <2>1, <2>2 DEF WalkInv
<1>6. ASSUME Flush(q) \/ \E j \in Jobs : Read(q, j)
      PROVE  run'[q].phase # "linking" /\ run'[q].passed = {}
  <2>1. run[q].phase # "linking" /\ run[q].passed = {}
    BY <1>6 DEF Flush, Read, WalkInv
  <2>2. CASE Flush(q)
    BY <1>3, <2>1, <2>2 DEF Flush, Run
  <2>3. CASE \E j \in Jobs : Read(q, j)
    <3>1. PICK j \in Jobs : Read(q, j)
      BY <2>3
    <3>2. run'[q].phase = "read" /\ run'[q].passed = run[q].passed
      BY <3>1, ReadWrites
    <3> QED
      BY <2>1, <3>2
  <2> QED
    BY <1>6, <2>2, <2>3
<1>7. ASSUME Link(q) \/ Commit(q) \/ Rollback(q)
      PROVE  run'[q].phase # "linking" /\ run'[q].passed = {}
  <2>1. CASE Link(q)
    BY <2>1, LinkWrites
  <2>2. CASE Commit(q) \/ Rollback(q)
    BY <1>3, <2>2 DEF Commit, Rollback, Closed
  <2> QED
    BY <1>7, <2>1, <2>2
<1>8. ASSUME NEW r \in Runs \ {q}, RunStep(r) PROVE run'[q] = run[q]
  BY <1>8, OthersKept
<1> QED
  BY <1>1, <1>2, <1>4, <1>5, <1>6, <1>7, <1>8 DEF Next, RunStep, vars

\* ChainInv holds of the empty table and every step keeps it.
LEMMA ChainsInductive == Spec => []ChainInv
<1>1. Init => ChainInv
  <2> SUFFICES ASSUME Init PROVE ChainInv
    OBVIOUS
  <2>1. \A i, k \in Jobs : ~Leads(i, k)
    BY DEF Init, Leads, Points, Nothing, Closed
  <2>2. Forward
    <3> SUFFICES ASSUME NEW S \in (SUBSET Jobs) \ {{}}
                 PROVE  \E i \in S : \A k \in S : ~Leads(i, k)
      BY DEF Forward
    <3>1. PICK i \in S : TRUE
      OBVIOUS
    <3> QED
      BY <2>1, <3>1
  <2>3. \A r \in Runs : WalkInv(r)
    BY DEF Init, WalkInv, Closed
  <2> QED
    BY <2>2, <2>3 DEF ChainInv
<1>2. Inv /\ ChainInv /\ [Next]_vars => ChainInv'
  BY ForwardStep, WalkStep DEF ChainInv
<1> QED
  BY <1>1, <1>2, Inductive, PTL DEF Spec

\* Every chain of committed rows ends, for any number of concurrent transactions that merge
\* the same rows from stale objects.
THEOREM ChainsAlwaysEnd == Spec => []ChainsEnd
<1>1. ChainInv => ChainsEnd
  <2> SUFFICES ASSUME ChainInv, NEW S \in (SUBSET Merged) \ {{}}
               PROVE  \E j \in S : row[j].next \notin S
    BY DEF ChainsEnd
  <2>1. S \in (SUBSET Jobs) \ {{}}
    BY DEF Merged
  <2>2. PICK j \in S : \A k \in S : ~Leads(j, k)
    BY <2>1 DEF ChainInv, Forward
  <2>3. row[j] # Absent
    BY DEF Merged
  <2> QED
    BY <2>2, <2>3 DEF Leads, Points
<1> QED
  BY <1>1, ChainsInductive, PTL

\* The loop of _link_duplicate visits no row twice, so it ends, whatever mixture of versions
\* it walks over.
THEOREM LoopNeverTurnsBack == Spec => []LoopAdvances
<1>1. Inv /\ ChainInv => LoopAdvances
  <2> SUFFICES ASSUME Inv, ChainInv, NEW r \in Runs, run[r].at \in run[r].passed
               PROVE  FALSE
    BY DEF LoopAdvances
  <2> DEFINE S == run[r].passed
  <2>1. S \in (SUBSET Jobs) \ {{}}
    <3>1. run[r] \in Run
      BY DEF Inv, TypeOK
    <3> QED
      BY <3>1 DEF Run
  <2>2. PICK p \in S : \A k \in S : ~Leads(p, k)
    BY <2>1 DEF ChainInv, Forward
  <2>3. run[r].object[p] # Absent /\ run[r].object[p].next \in S
    BY DEF ChainInv, WalkInv
  <2> QED
    BY <2>2, <2>3 DEF Leads, Points
<1> QED
  BY <1>1, Inductive, ChainsInductive, PTL
-----------------------------------------------------------------------------
(* Counts.  Each version of a row that a session holds counts links that   *)
(* are committed or that its own transaction will commit.                  *)

LinksOf(c, L) == {l \in L : l[1] = c}

Covered(v, c, L) == v # Absent => v.count <= Cardinality(LinksOf(c, L))

\* The links r would see committed if it committed now.
Known(r) == links \union run[r].new

RunCounts(r) ==
  /\ IsFiniteSet(run[r].new)
  /\ \A c \in Jobs : /\ Covered(run[r].mine[c], c, Known(r))
                     /\ Covered(run[r].loaded[c], c, Known(r))
                     /\ Covered(run[r].object[c], c, Known(r))
  /\ \A l \in run[r].new : run[r].mine[l[2]] # Absent
  /\ run[r].phase = "linking" => \A l \in run[r].new : l[2] # run[r].job

TableCounts ==
  /\ IsFiniteSet(links)
  /\ \A c \in Jobs : Covered(row[c], c, links)
  /\ \A l \in links : row[l[2]] # Absent

CountInv == TableCounts /\ \A r \in Runs : RunCounts(r)

\* The links of a row are finitely many, and more links cover it as well.
LEMMA LinksOfFinite ==
  ASSUME NEW L, IsFiniteSet(L), NEW c
  PROVE  IsFiniteSet(LinksOf(c, L)) /\ Cardinality(LinksOf(c, L)) \in Nat
<1>1. LinksOf(c, L) \in SUBSET L
  BY DEF LinksOf
<1> QED
  BY <1>1, FS_Subset, FS_CardinalityType

\* A count stays covered when there are more links.
LEMMA CoveredByMore ==
  ASSUME NEW L, NEW M, IsFiniteSet(M), L \subseteq M, NEW c, NEW v \in Row \union {Absent},
         Covered(v, c, L)
  PROVE  Covered(v, c, M)
<1> DEFINE few == LinksOf(c, L)
           more == LinksOf(c, M)
<1>1. few \in SUBSET more
  BY DEF LinksOf
<1>2. IsFiniteSet(more) /\ Cardinality(more) \in Nat
  BY LinksOfFinite
<1>3. v # Absent => v.count \in Nat /\ v.count <= Cardinality(few)
  BY DEF Covered, Row
<1> HIDE DEF few, more
<1>4. Cardinality(few) \in Nat /\ Cardinality(few) <= Cardinality(more)
  BY <1>1, <1>2, FS_Subset, FS_CardinalityType
<1>5. v # Absent => v.count <= Cardinality(more)
  BY <1>2, <1>3, <1>4
<1> QED
  BY <1>5 DEF Covered, more

\* The versions a run reads and flushes are covered too.
LEMMA FlushedCovered ==
  ASSUME Inv, CountInv, NEW r \in Runs, NEW c \in Jobs
  PROVE  /\ IsFiniteSet(Known(r))
         /\ Covered(View(r, c), c, Known(r))
         /\ Covered(Flushed(r)[c], c, Known(r))
<1>1. IsFiniteSet(Known(r))
  BY FS_Union DEF CountInv, TableCounts, RunCounts, Known
<1>2. Covered(row[c], c, Known(r))
  <2>1. row[c] \in Row \union {Absent} /\ links \subseteq Known(r) /\ Covered(row[c], c, links)
    BY DEF Inv, TypeOK, CountInv, TableCounts, Known
  <2> QED
    BY <1>1, <2>1, CoveredByMore
<1>3. /\ Covered(run[r].mine[c], c, Known(r)) /\ Covered(run[r].loaded[c], c, Known(r))
      /\ Covered(run[r].object[c], c, Known(r))
  BY DEF CountInv, RunCounts
<1>4. Covered(View(r, c), c, Known(r))
  BY <1>2, <1>3 DEF View
<1>5. CASE c \in Dirty(r)
  <2> DEFINE seen == View(r, c)
             old == run[r].loaded[c]
             new == run[r].object[c]
  <2>1. Flushed(r)[c] = Update(seen, old, new)
    BY <1>5 DEF Flushed
  <2>2. new # Absent /\ seen # Absent
    BY <1>5 DEF Dirty, Inv, LinkInv, RunInv, SessionInv
  <2>3. Update(seen, old, new).count \in {seen.count, new.count}
    BY DEF Update, Column
  <2> HIDE DEF seen, old, new
  <2>4. /\ seen.count <= Cardinality(LinksOf(c, Known(r)))
        /\ new.count <= Cardinality(LinksOf(c, Known(r)))
    BY <1>3, <1>4, <2>2 DEF Covered, seen, new
  <2> QED
    BY <1>1, <1>4, <2>1, <2>3, <2>4 DEF Covered
<1>6. CASE c \notin Dirty(r)
  BY <1>1, <1>3, <1>4, <1>6 DEF Flushed
<1> QED
  BY <1>5, <1>6

\* A new row counts nothing.
LEMMA NewCovered ==
  ASSUME NEW L, IsFiniteSet(L), NEW c
  PROVE  Covered(NewRow, c, L)
<1>1. Cardinality(LinksOf(c, L)) \in Nat /\ NewRow.count = 0
  BY LinksOfFinite DEF NewRow
<1> QED
  BY <1>1 DEF Covered

\* A run whose versions come from those it had, from what it read and from what it flushed.
LEMMA CopiesCounted ==
  ASSUME Inv, CountInv, NEW r \in Runs, links' = links, run'[r].new = run[r].new,
         \A c \in Jobs :
           LET known == {run[r].mine[c], run[r].loaded[c], run[r].object[c], View(r, c),
                         Flushed(r)[c], NewRow, Absent}
           IN run'[r].mine[c] \in known /\ run'[r].loaded[c] \in known
              /\ run'[r].object[c] \in known,
         \A c \in Jobs : run[r].mine[c] # Absent => run'[r].mine[c] # Absent,
         run'[r].phase = "linking" => \A l \in run[r].new : l[2] # run'[r].job
  PROVE  RunCounts(r)'
<1>1. Known(r)' = Known(r) /\ RunCounts(r) /\ run[r].new \subseteq Jobs \X Jobs
  BY DEF Known, CountInv, Inv, TypeOK, Run
<1>2. \A c \in Jobs : Covered(NewRow, c, Known(r)) /\ Covered(Absent, c, Known(r))
  BY FlushedCovered, NewCovered DEF Covered
<1>3. ASSUME NEW c \in Jobs,
             NEW v \in {run[r].mine[c], run[r].loaded[c], run[r].object[c], View(r, c),
                        Flushed(r)[c], NewRow, Absent}
      PROVE  Covered(v, c, Known(r))
  BY <1>1, <1>2, FlushedCovered DEF RunCounts
<1>4. \A c \in Jobs : /\ Covered(run'[r].mine[c], c, Known(r))
                      /\ Covered(run'[r].loaded[c], c, Known(r))
                      /\ Covered(run'[r].object[c], c, Known(r))
  BY <1>3
<1>5. \A l \in run[r].new : run'[r].mine[l[2]] # Absent
  BY <1>1 DEF RunCounts
<1> QED
  BY <1>1, <1>4, <1>5 DEF RunCounts

\* The link of a posting is a new one, so the row it is counted in has one more.
LEMMA LinkCounted ==
  ASSUME Inv, CountInv, NEW r \in Runs, Link(r)
  PROVE  RunCounts(r)'
<1> DEFINE c == run[r].at
           j == run[r].job
           seen == run[r].object[c]
           L == Known(r)
           M == L \union {<<c, j>>}
<1>1. PICK merge \in BOOLEAN, better \in BOOLEAN, object \in Versions :
        /\ run'[r].phase = "between" /\ run'[r].mine = run[r].mine
        /\ run'[r].new = run[r].new \union {<<c, j>>}
        /\ run'[r].loaded = run[r].loaded /\ run'[r].object = object
        /\ object[j] = Linked(c, j, seen, merge, better).job
        /\ object[c] = Linked(c, j, seen, merge, better).canonical
        /\ \A i \in Jobs \ {c, j} : object[i] = run[r].object[i]
  BY LinkWrites
<1>2. /\ run[r] \in Run /\ c \in Jobs /\ j \in Jobs /\ c # j /\ seen # Absent /\ seen \in Row
      /\ row[j] = Absent /\ run[r].mine[j] = NewRow /\ links' = links
  <2>1. /\ run[r] \in Run /\ c \in Jobs /\ j \in Jobs /\ c # j /\ seen # Absent
        /\ row[j] = Absent /\ run[r].mine[j] = NewRow /\ links' = links
    BY DEF Link, Inv, TypeOK, LinkInv, RunInv, LinkingInv
  <2>2. seen \in Row
    BY <2>1 DEF Run, Versions
  <2> QED
    BY <2>1, <2>2
<1>3. <<c, j>> \notin L
  <2>1. <<c, j>> \notin links
    BY <1>2 DEF CountInv, TableCounts
  <2>2. <<c, j>> \notin run[r].new
    BY DEF Link, CountInv, RunCounts
  <2> QED
    BY <2>1, <2>2 DEF Known
<1>4. IsFiniteSet(L) /\ IsFiniteSet(M)
  <2>1. IsFiniteSet(L)
    BY <1>2, FlushedCovered
  <2> HIDE DEF L
  <2> QED
    BY <2>1, FS_AddElement
<1>5. Known(r)' = M
  BY <1>1, <1>2 DEF Known
<1>6. Cardinality(LinksOf(c, M)) = Cardinality(LinksOf(c, L)) + 1
  <2> DEFINE few == LinksOf(c, L)
  <2>1. LinksOf(c, M) = few \union {<<c, j>>} /\ <<c, j>> \notin few
    BY <1>3 DEF LinksOf
  <2>2. IsFiniteSet(few)
    BY <1>4, LinksOfFinite
  <2> HIDE DEF few
  <2>3. Cardinality(few \union {<<c, j>>}) = Cardinality(few) + 1
    BY <2>1, <2>2, FS_AddElement
  <2> QED
    BY <2>1, <2>3 DEF few
<1> HIDE DEF L, M
<1>7. Covered(object[j], j, M)
  <2>1. object[j].count = 0
    BY <1>1 DEF Linked, NewRow
  <2>2. Cardinality(LinksOf(j, M)) \in Nat
    BY <1>4, LinksOfFinite
  <2> QED
    BY <2>1, <2>2 DEF Covered
<1>8. Covered(object[c], c, M)
  <2>1. object[c].count = seen.count + 1
    BY <1>1, <1>2 DEF Linked, Row
  <2>2. seen.count \in Nat /\ seen.count <= Cardinality(LinksOf(c, L))
    BY <1>2 DEF CountInv, RunCounts, Covered, Row, L
  <2>3. Cardinality(LinksOf(c, L)) \in Nat
    BY <1>4, LinksOfFinite
  <2> QED
    BY <1>6, <2>1, <2>2, <2>3 DEF Covered
<1>9. \A i \in Jobs : /\ Covered(run[r].mine[i], i, M) /\ Covered(run[r].loaded[i], i, M)
                      /\ Covered(run[r].object[i], i, M)
  <2> SUFFICES ASSUME NEW i \in Jobs
               PROVE  /\ Covered(run[r].mine[i], i, M) /\ Covered(run[r].loaded[i], i, M)
                      /\ Covered(run[r].object[i], i, M)
    OBVIOUS
  <2>1. /\ run[r].mine[i] \in Row \union {Absent} /\ run[r].loaded[i] \in Row \union {Absent}
        /\ run[r].object[i] \in Row \union {Absent}
    BY <1>2 DEF Run, Versions
  <2>2. /\ Covered(run[r].mine[i], i, L) /\ Covered(run[r].loaded[i], i, L)
        /\ Covered(run[r].object[i], i, L)
    BY DEF CountInv, RunCounts, L
  <2>3. L \subseteq M
    BY DEF M
  <2> QED
    BY <1>4, <2>1, <2>2, <2>3, CoveredByMore
<1>10. \A i \in Jobs : /\ Covered(run'[r].mine[i], i, M) /\ Covered(run'[r].loaded[i], i, M)
                       /\ Covered(run'[r].object[i], i, M)
  BY <1>1, <1>7, <1>8, <1>9
<1>11. IsFiniteSet(run'[r].new)
  BY <1>1, FS_AddElement DEF CountInv, RunCounts
<1>12. \A l \in run'[r].new : run'[r].mine[l[2]] # Absent
  BY <1>1, <1>2, NewRowType DEF CountInv, RunCounts
<1> QED
  BY <1>1, <1>5, <1>10, <1>11, <1>12 DEF RunCounts

\* The other steps copy versions.
LEMMA CopyCounted ==
  ASSUME Inv, CountInv, NEW r \in Runs,
         Flush(r) \/ (\E j \in Jobs : Read(r, j)) \/ Insert(r) \/ Follow(r)
  PROVE  RunCounts(r)'
<1>0. run[r] \in Run /\ links' = links
  BY DEF Flush, Read, Insert, Follow, Inv, TypeOK
<1>1. CASE Flush(r)
  <2>1. /\ run'[r].mine = Flushed(r) /\ run'[r].loaded = run[r].object
        /\ run'[r].object = run[r].object /\ run'[r].new = run[r].new
        /\ run'[r].phase = "between"
    BY <1>0, <1>1 DEF Flush, Inv, TypeOK, Run
  <2> QED
    BY <1>0, <2>1, FlushedSound, CopiesCounted
<1>2. ASSUME NEW j \in Jobs, Read(r, j) PROVE RunCounts(r)'
  <2>1. PICK loaded \in Versions, object \in Versions :
          /\ run'[r].phase = "read" /\ run'[r].mine = run[r].mine /\ run'[r].new = run[r].new
          /\ run'[r].loaded = loaded /\ run'[r].object = object
          /\ \A i \in Jobs : /\ loaded[i] \in {run[r].loaded[i], View(r, i), Absent}
                             /\ object[i] \in {run[r].object[i], View(r, i), Absent}
    BY <1>2, ReadWrites
  <2> QED
    BY <1>0, <2>1, CopiesCounted
<1>3. CASE Insert(r)
  <2> DEFINE j == run[r].job
             mine == [Flushed(r) EXCEPT ![j] = NewRow]
             object == [run[r].object EXCEPT ![j] = NewRow]
  <2>1. \A i \in Jobs : /\ mine[i] \in {Flushed(r)[i], NewRow}
                        /\ object[i] \in {run[r].object[i], NewRow}
                        /\ Flushed(r)[i] # Absent => mine[i] # Absent
    BY <1>0, NewRowType DEF Flushed, Run, Versions
  <2>2. /\ run[r].mine[j] = Absent /\ j \in Jobs /\ j # None
    BY <1>3, LinksAssumption DEF Insert, View, Inv, LinkInv, RunInv, LinkingInv
  <2> HIDE DEF mine, object
  <2>3. /\ run'[r].mine = mine /\ run'[r].loaded = object /\ run'[r].object = object
        /\ run'[r].new = run[r].new /\ run'[r].job \in {None, j}
        /\ run'[r].phase = "linking" => run'[r].job = j
    BY <1>0, <1>3 DEF Insert, Inv, TypeOK, Run, mine, object
  <2>4. \A l \in run[r].new : l[2] # j
    BY <2>2 DEF CountInv, RunCounts
  <2> QED
    BY <1>0, <2>1, <2>3, <2>4, FlushedSound, CopiesCounted
<1>4. CASE Follow(r)
  <2> DEFINE parent == run[r].object[run[r].at].next
             loaded == Get(run[r].loaded, r, parent)
             object == Get(run[r].object, r, parent)
  <2>1. \A i \in Jobs : /\ loaded[i] \in {run[r].loaded[i], View(r, i)}
                        /\ object[i] \in {run[r].object[i], View(r, i)}
    BY <1>0 DEF Get, Run, Versions
  <2> HIDE DEF loaded, object
  <2>2. /\ run'[r].mine = run[r].mine /\ run'[r].loaded = loaded /\ run'[r].object = object
        /\ run'[r].new = run[r].new /\ run'[r].job = run[r].job
    BY <1>0, <1>4 DEF Follow, Inv, TypeOK, Run, loaded, object
  <2>3. \A l \in run[r].new : l[2] # run[r].job
    BY <1>4 DEF Follow, CountInv, RunCounts
  <2> QED
    BY <1>0, <2>1, <2>2, <2>3, CopiesCounted
<1> QED
  BY <1>1, <1>2, <1>3, <1>4

\* A transaction that ends forgets its versions, and what it publishes is covered.
LEMMA EndCounted ==
  ASSUME Inv, CountInv, NEW r \in Runs, Commit(r) \/ Rollback(r)
  PROVE  TableCounts' /\ RunCounts(r)' /\ links \subseteq links'
<1>1. run'[r] = Closed
  BY DEF Commit, Rollback, Inv, TypeOK
<1>2. RunCounts(r)'
  BY <1>1, FS_EmptySet DEF RunCounts, Closed, Nothing, Covered
<1>3. CASE Rollback(r)
  <2>1. row' = row /\ links' = links
    BY <1>3 DEF Rollback
  <2> QED
    BY <1>2, <2>1 DEF CountInv, TableCounts
<1>4. CASE Commit(r)
  <2>1. /\ row' = [j \in Jobs |-> IF Flushed(r)[j] # Absent THEN Flushed(r)[j] ELSE row[j]]
        /\ links' = Known(r)
    BY <1>4 DEF Commit, Known
  <2>2. ASSUME NEW c \in Jobs PROVE Covered(row'[c], c, links')
    <3>1. Covered(row[c], c, Known(r))
      <4>1. /\ row[c] \in Row \union {Absent} /\ links \subseteq Known(r)
            /\ Covered(row[c], c, links)
        BY DEF Inv, TypeOK, CountInv, TableCounts, Known
      <4> QED
        BY <4>1, FlushedCovered, CoveredByMore
    <3>2. Covered(Flushed(r)[c], c, Known(r))
      BY FlushedCovered
    <3>3. row'[c] \in {row[c], Flushed(r)[c]}
      BY <2>1
    <3> QED
      BY <2>1, <3>1, <3>2, <3>3
  <2>3. IsFiniteSet(links') /\ links \subseteq links'
    BY <2>1, FS_Union DEF Known, CountInv, TableCounts, RunCounts
  <2>4. ASSUME NEW l \in links' PROVE row'[l[2]] # Absent
    <3>1. l[2] \in Jobs
      BY <2>1 DEF Known, Inv, TypeOK, Run
    <3>2. row[l[2]] # Absent \/ run[r].mine[l[2]] # Absent
      BY <2>1 DEF Known, CountInv, TableCounts, RunCounts
    <3> QED
      BY <2>1, <3>1, <3>2, FlushedSound
  <2> QED
    BY <1>2, <2>2, <2>3, <2>4 DEF TableCounts
<1> QED
  BY <1>3, <1>4

\* A run that does not step stays covered while others commit links.
LEMMA CountFrame ==
  ASSUME Inv, CountInv, NEW q \in Runs, run'[q] = run[q], links \subseteq links',
         IsFiniteSet(links')
  PROVE  RunCounts(q)'
<1> DEFINE K == Known(q)
           M == links' \union run[q].new
<1>1. RunCounts(q) /\ run[q] \in Run /\ Known(q)' = M /\ K \subseteq M
  BY DEF CountInv, Inv, TypeOK, Known
<1>2. IsFiniteSet(M)
  BY <1>1, FS_Union DEF RunCounts
<1> HIDE DEF K, M
<1>3. ASSUME NEW c \in Jobs,
             NEW v \in {run[q].mine[c], run[q].loaded[c], run[q].object[c]}
      PROVE  Covered(v, c, M)
  <2>1. v \in Row \union {Absent} /\ Covered(v, c, K)
    BY <1>1 DEF RunCounts, Run, Versions, K
  <2> QED
    BY <1>1, <1>2, <2>1, CoveredByMore
<1> QED
  BY <1>1, <1>3 DEF RunCounts

\* duplicate_count never passes the recorded duplicates of a row, for any number of concurrent
\* transactions that overwrite each other's count.
THEOREM CountsAreCovered == Spec => []CountCovered
<1>1. Init => CountInv
  <2> SUFFICES ASSUME Init PROVE CountInv
    OBVIOUS
  <2>1. IsFiniteSet({})
    BY FS_EmptySet
  <2> QED
    BY <2>1 DEF Init, CountInv, TableCounts, RunCounts, Nothing, Closed, Covered
<1>2. Inv /\ CountInv /\ [Next]_vars => CountInv'
  <2> SUFFICES ASSUME Inv, CountInv, [Next]_vars PROVE CountInv'
    OBVIOUS
  <2>1. CASE UNCHANGED vars
    <3>1. row' = row /\ links' = links /\ run' = run
      BY <2>1 DEF vars
    <3>2. TableCounts'
      BY <3>1 DEF CountInv, TableCounts
    <3>3. \A q \in Runs : RunCounts(q)'
      BY <3>1, CountFrame DEF CountInv, TableCounts
    <3> QED
      BY <3>2, <3>3 DEF CountInv
  <2>2. ASSUME NEW r \in Runs, RunStep(r) PROVE CountInv'
    <3>1. TableCounts' /\ RunCounts(r)' /\ links \subseteq links'
      <4>1. CASE Commit(r) \/ Rollback(r)
        BY <4>1, EndCounted
      <4>2. CASE ~(Commit(r) \/ Rollback(r))
        <5>1. RunCounts(r)'
          BY <2>2, <4>2, LinkCounted, CopyCounted DEF RunStep
        <5>2. row' = row /\ links' = links
          BY <2>2, <4>2 DEF RunStep, Flush, Read, Insert, Follow, Link
        <5> QED
          BY <5>1, <5>2 DEF CountInv, TableCounts
      <4> QED
        BY <4>1, <4>2
    <3>2. \A q \in Runs \ {r} : RunCounts(q)'
      BY <2>2, <3>1, OthersKept, CountFrame DEF TableCounts
    <3> QED
      BY <3>1, <3>2 DEF CountInv
  <2> QED
    BY <2>1, <2>2 DEF Next
<1>3. CountInv => CountCovered
  BY DEF CountInv, TableCounts, Covered, LinksOf, CountCovered
<1> QED
  BY <1>1, <1>2, <1>3, Inductive, PTL DEF Spec
-----------------------------------------------------------------------------
(* Attribution.  Every pointer of a row, in the table or in a session, has *)
(* its row in job_duplicates.  The run that refutes AllSourcesShown swaps  *)
(* the two rows of a link after it is recorded: then, and only then, the   *)
(* record names the wrong one of them as canonical.                        *)

\* The links name k as the canonical row of i; both: or i as that of k.
Named(set, i, k, both) == <<k, i>> \in set \/ (both /\ <<i, k>> \in set)

RowsNamed(both) ==
  \A i, k \in Jobs : Points(row[i], k) => Named(links, i, k, both)

SessionNamed(r, both) ==
  \A i, k \in Jobs : \A v \in {run[r].mine[i], run[r].loaded[i], run[r].object[i]} :
    Points(v, k) => Named(links \union run[r].new, i, k, both)

NamedInv(both) == RowsNamed(both) /\ \A r \in Runs : SessionNamed(r, both)

\* Whichever way they were merged.
EitherNamed == NamedInv(TRUE)

\* The row pointed to is the canonical one.
EndNamed == NamedInv(FALSE)

\* No row that a new posting duplicates is made to point to the posting.
NoSwap ==
  \A r \in Runs : Link(r) => ~Points(run'[r].object[run[r].at], run[r].job)

\* A row that a run reads is named by the links, or by those it has not committed.
LEMMA ViewNamed ==
  ASSUME NEW both \in BOOLEAN, NamedInv(both), NEW r \in Runs, NEW i \in Jobs, NEW k \in Jobs,
         Points(View(r, i), k)
  PROVE  Named(links \union run[r].new, i, k, both)
BY DEF NamedInv, RowsNamed, SessionNamed, Named, View

\* And so is a row it flushes.
LEMMA FlushedNamed ==
  ASSUME Inv, NEW both \in BOOLEAN, NamedInv(both), NEW r \in Runs, NEW i \in Jobs,
         NEW k \in Jobs, Points(Flushed(r)[i], k)
  PROVE  Named(links \union run[r].new, i, k, both)
<1>1. CASE i \in Dirty(r)
  <2> DEFINE seen == View(r, i)
             old == run[r].loaded[i]
             new == run[r].object[i]
  <2>1. Flushed(r)[i] = Update(seen, old, new)
    BY <1>1 DEF Flushed
  <2>2. new # Absent /\ seen # Absent
    BY <1>1 DEF Dirty, Inv, LinkInv, RunInv, SessionInv
  <2> HIDE DEF seen, old, new
  <2>3. seen.next = k \/ new.next = k
    BY <2>1 DEF Update, Column, Points
  <2>4. Points(seen, k) \/ Points(new, k)
    BY <2>2, <2>3 DEF Points
  <2> QED
    BY <2>4, ViewNamed DEF NamedInv, SessionNamed, seen, new
<1>2. CASE i \notin Dirty(r)
  BY <1>2 DEF Flushed, NamedInv, SessionNamed
<1> QED
  BY <1>1, <1>2

\* A step of one run keeps the invariant if what the run holds and commits is named.
LEMMA NamedFrame ==
  ASSUME NEW both \in BOOLEAN, NamedInv(both), NEW r \in Runs,
         \A q \in Runs \ {r} : run'[q] = run[q], links \subseteq links',
         RowsNamed(both)', SessionNamed(r, both)'
  PROVE  NamedInv(both)'
<1>1. ASSUME NEW q \in Runs \ {r} PROVE SessionNamed(q, both)'
  BY DEF NamedInv, SessionNamed, Named
<1> QED
  BY <1>1 DEF NamedInv

\* What a run copies from the rows it reads, holds or flushes is named.
LEMMA CopiesNamed ==
  ASSUME Inv, NEW both \in BOOLEAN, NamedInv(both), NEW r \in Runs,
         links' = links, run'[r].new = run[r].new,
         \A i \in Jobs :
           LET sources == {run[r].mine[i], run[r].loaded[i], run[r].object[i], View(r, i),
                           Flushed(r)[i], NewRow, Absent}
           IN run'[r].mine[i] \in sources /\ run'[r].loaded[i] \in sources
              /\ run'[r].object[i] \in sources
  PROVE  SessionNamed(r, both)'
<1> SUFFICES ASSUME NEW i \in Jobs, NEW k \in Jobs,
                    \/ Points(run'[r].mine[i], k)
                    \/ Points(run'[r].loaded[i], k)
                    \/ Points(run'[r].object[i], k)
             PROVE  Named(links \union run[r].new, i, k, both)
  BY DEF SessionNamed
<1>1. PICK v \in {run[r].mine[i], run[r].loaded[i], run[r].object[i], View(r, i),
                  Flushed(r)[i], NewRow, Absent} : Points(v, k)
  OBVIOUS
<1>2. ~Points(NewRow, k) /\ ~Points(Absent, k)
  BY LinksAssumption DEF Points, NewRow
<1> QED
  BY <1>1, <1>2, ViewNamed, FlushedNamed DEF NamedInv, SessionNamed

\* A link is recorded with the row it duplicates as the canonical one, and points one of the
\* two rows to the other.
LEMMA LinkNamed ==
  ASSUME Inv, NEW both \in BOOLEAN, NamedInv(both), NEW r \in Runs, Link(r),
         both \/ ~Points(run'[r].object[run[r].at], run[r].job)
  PROVE  SessionNamed(r, both)'
<1> DEFINE c == run[r].at
           j == run[r].job
           seen == run[r].object[c]
<1>1. /\ run[r] \in Run /\ VersionInv(r)
      /\ c \in Jobs /\ j \in Jobs /\ c # j /\ seen # Absent /\ seen.next \in {None, c}
  BY DEF Link, Inv, TypeOK, LinkInv, RunInv, LinkingInv
<1>2. seen \in Row /\ seen.next \notin Jobs
  <2>1. seen \in Row
    BY <1>1 DEF Run, Versions
  <2>2. seen.next # c
    BY <1>1 DEF VersionInv, Sound
  <2> QED
    BY <1>1, <2>1, <2>2, LinksAssumption
<1>3. PICK merge \in BOOLEAN, better \in BOOLEAN, object \in Versions :
        /\ run'[r].mine = run[r].mine /\ run'[r].new = run[r].new \union {<<c, j>>}
        /\ run'[r].loaded = run[r].loaded /\ run'[r].object = object
        /\ object[j] = Linked(c, j, seen, merge, better).job
        /\ object[c] = Linked(c, j, seen, merge, better).canonical
        /\ \A i \in Jobs \ {c, j} : object[i] = run[r].object[i]
  BY LinkWrites
<1> DEFINE linked == Linked(c, j, seen, merge, better)
<1>4. /\ object[c] = linked.canonical /\ object[j] = linked.job
      /\ \A i \in Jobs \ {c, j} : object[i] = run[r].object[i]
  BY <1>3
<1>5. /\ \A k \in Jobs : Points(linked.job, k) => k = c
      /\ \A k \in Jobs : Points(linked.canonical, k) => k = j
  <2>1. NewRow.next = None /\ [NewRow EXCEPT !.next = c, !.canonical = FALSE].next = c
    BY DEF NewRow
  <2>2. [seen EXCEPT !.count = @ + 1].next = seen.next
    BY <1>2 DEF Row
  <2> QED
    BY <1>2, <2>1, <2>2, LinksAssumption DEF Linked, Points
<1> HIDE DEF linked
<1>6. links' = links
  BY DEF Link
<1>7. ASSUME NEW i \in Jobs, NEW k \in Jobs, Points(object[i], k), ~Points(run[r].object[i], k)
      PROVE  Named(run'[r].new, i, k, both)
  <2>1. \/ i = j /\ k = c
        \/ i = c /\ k = j /\ both
    <3>1. CASE i = j
      BY <1>4, <1>5, <1>7, <3>1
    <3>2. CASE i = c
      <4>1. k = j
        BY <1>4, <1>5, <1>7, <3>2
      <4> QED
        BY <1>3, <1>7, <3>2, <4>1
    <3>3. CASE i \notin {c, j}
      BY <1>4, <1>7, <3>3
    <3> QED
      BY <3>1, <3>2, <3>3
  <2>2. <<c, j>> \in run'[r].new
    BY <1>3
  <2> QED
    BY <2>1, <2>2 DEF Named
<1>8. ASSUME NEW i \in Jobs, NEW k \in Jobs,
             \/ Points(run[r].mine[i], k)
             \/ Points(run[r].loaded[i], k)
             \/ Points(run[r].object[i], k)
      PROVE  Named(links' \union run'[r].new, i, k, both)
  BY <1>3, <1>6, <1>8 DEF NamedInv, SessionNamed, Named
<1> HIDE DEF c, j, seen
<1> QED
  BY <1>3, <1>6, <1>7, <1>8 DEF SessionNamed, Named

\* Every step keeps the links complete; those that swap nothing keep their direction.
LEMMA NamedStep ==
  ASSUME Inv, NEW both \in BOOLEAN, NamedInv(both), [Next]_vars, both \/ NoSwap
  PROVE  NamedInv(both)'
<1>1. CASE UNCHANGED vars
  BY <1>1 DEF vars, NamedInv, RowsNamed, SessionNamed
<1>2. ASSUME NEW r \in Runs, RunStep(r) PROVE NamedInv(both)'
  <2>0. \A q \in Runs \ {r} : run'[q] = run[q]
    BY <1>2, OthersKept
  <2>1. CASE row' = row /\ links' = links /\ SessionNamed(r, both)'
    <3>1. RowsNamed(both)'
      BY <2>1 DEF NamedInv, RowsNamed
    <3> QED
      BY <2>0, <2>1, <3>1, NamedFrame
  <2>2. CASE Flush(r)
    <3>1. /\ run'[r].mine = Flushed(r) /\ run'[r].loaded = run[r].object
          /\ run'[r].object = run[r].object /\ run'[r].new = run[r].new
          /\ row' = row /\ links' = links
      BY <2>2 DEF Flush, Inv, TypeOK, Run
    <3> QED
      BY <2>1, <3>1, CopiesNamed
  <2>3. CASE \E j \in Jobs : Read(r, j)
    <3>1. PICK j \in Jobs : Read(r, j)
      BY <2>3
    <3>2. PICK loaded \in Versions, object \in Versions :
            /\ run'[r].mine = run[r].mine /\ run'[r].new = run[r].new
            /\ run'[r].loaded = loaded /\ run'[r].object = object
            /\ \A i \in Jobs : /\ loaded[i] \in {run[r].loaded[i], View(r, i), Absent}
                               /\ object[i] \in {run[r].object[i], View(r, i), Absent}
      BY <3>1, ReadWrites
    <3>3. row' = row /\ links' = links
      BY <3>1 DEF Read
    <3> QED
      BY <2>1, <3>2, <3>3, CopiesNamed
  <2>4. CASE Insert(r)
    <3> DEFINE j == run[r].job
               mine == [Flushed(r) EXCEPT ![j] = NewRow]
               object == [run[r].object EXCEPT ![j] = NewRow]
    <3>1. \A i \in Jobs : /\ mine[i] \in {Flushed(r)[i], NewRow}
                          /\ object[i] \in {run[r].object[i], NewRow}
      BY DEF Flushed, Inv, TypeOK, Run, Versions
    <3> HIDE DEF mine, object
    <3>2. /\ run'[r].mine = mine /\ run'[r].loaded = object /\ run'[r].object = object
          /\ run'[r].new = run[r].new /\ row' = row /\ links' = links
      BY <2>4 DEF Insert, Inv, TypeOK, Run, mine, object
    <3> QED
      BY <2>1, <3>1, <3>2, CopiesNamed
  <2>5. CASE Follow(r)
    <3> DEFINE parent == run[r].object[run[r].at].next
               loaded == Get(run[r].loaded, r, parent)
               object == Get(run[r].object, r, parent)
    <3>1. \A i \in Jobs : /\ loaded[i] \in {run[r].loaded[i], View(r, i)}
                          /\ object[i] \in {run[r].object[i], View(r, i)}
      BY DEF Get, Inv, TypeOK, Run, Versions
    <3> HIDE DEF loaded, object
    <3>2. /\ run'[r].mine = run[r].mine /\ run'[r].loaded = loaded /\ run'[r].object = object
          /\ run'[r].new = run[r].new /\ row' = row /\ links' = links
      BY <2>5 DEF Follow, Inv, TypeOK, Run, loaded, object
    <3> QED
      BY <2>1, <3>1, <3>2, CopiesNamed
  <2>6. CASE Link(r)
    <3>1. row' = row /\ links' = links
      BY <2>6 DEF Link
    <3>2. both \/ ~Points(run'[r].object[run[r].at], run[r].job)
      BY <2>6 DEF NoSwap
    <3> QED
      BY <2>1, <2>6, <3>1, <3>2, LinkNamed
  <2>7. CASE Commit(r) \/ Rollback(r)
    <3>1. run'[r] = Closed /\ links \subseteq links'
      BY <2>7 DEF Commit, Rollback, Inv, TypeOK
    <3>2. SessionNamed(r, both)'
      BY <3>1 DEF SessionNamed, Closed, Nothing, Points
    <3>3. RowsNamed(both)'
      <4> SUFFICES ASSUME NEW i \in Jobs, NEW k \in Jobs, Points(row'[i], k)
                   PROVE  Named(links', i, k, both)
        BY DEF RowsNamed
      <4>1. CASE Rollback(r)
        BY <4>1 DEF Rollback, NamedInv, RowsNamed
      <4>2. CASE Commit(r)
        <5>1. links' = links \union run[r].new /\ row'[i] \in {row[i], Flushed(r)[i]}
          BY <4>2 DEF Commit
        <5>2. Points(row[i], k) \/ Points(Flushed(r)[i], k)
          BY <5>1
        <5> QED
          BY <5>1, <5>2, FlushedNamed DEF NamedInv, RowsNamed, Named
      <4> QED
        BY <2>7, <4>1, <4>2
    <3> QED
      BY <2>0, <3>1, <3>2, <3>3, NamedFrame
  <2> QED
    BY <1>2, <2>2, <2>3, <2>4, <2>5, <2>6, <2>7 DEF RunStep
<1> QED
  BY <1>1, <1>2 DEF Next

\* No merged posting is without its row in job_duplicates: a link between it and the row it
\* points to is committed with the pointer, though perhaps the wrong way round.
MergesRecorded ==
  \A j \in Merged : <<row[j].next, j>> \in links \/ <<j, row[j].next>> \in links

\* The links start empty, as the table does.
LEMMA NamedInit ==
  ASSUME Init, NEW both \in BOOLEAN
  PROVE  NamedInv(both)
BY DEF Init, NamedInv, RowsNamed, SessionNamed, Points, Nothing, Closed

\* For any number of jobs and of transactions that merge the same rows from stale objects.
THEOREM EveryMergeRecorded == Spec => []MergesRecorded
<1>1. Init => EitherNamed
  BY NamedInit DEF EitherNamed
<1>2. Inv /\ EitherNamed /\ [Next]_vars => EitherNamed'
  BY NamedStep DEF EitherNamed
<1>3. Inv /\ EitherNamed => MergesRecorded
  <2> SUFFICES ASSUME Inv, EitherNamed, NEW j \in Merged
               PROVE  <<row[j].next, j>> \in links \/ <<j, row[j].next>> \in links
    BY DEF MergesRecorded
  <2>1. j \in Jobs /\ row[j] # Absent /\ row[j].next \in Jobs
    BY DEF Merged, Inv, TypeOK, Row
  <2> QED
    BY <2>1 DEF EitherNamed, NamedInv, RowsNamed, Points, Named
<1> QED
  BY <1>1, <1>2, <1>3, Inductive, PTL DEF Spec

\* The detail page of the row a posting was merged into names the posting's source in every
\* behaviour that swaps no rows: the swap of the run's counterexample is the only way a source
\* is lost.
THEOREM SourcesShownWithoutSwap == Spec /\ [][NoSwap]_vars => []AllSourcesShown
<1>1. Init => EndNamed
  BY NamedInit DEF EndNamed
<1>2. Inv /\ EndNamed /\ [Next]_vars /\ [NoSwap]_vars => EndNamed'
  <2>1. EndNamed /\ UNCHANGED vars => EndNamed'
    BY DEF EndNamed, vars, NamedInv, RowsNamed, SessionNamed
  <2> QED
    BY <2>1, NamedStep DEF EndNamed
<1>3. Inv /\ EndNamed => AllSourcesShown
  <2> SUFFICES ASSUME Inv, EndNamed, NEW j \in Merged
               PROVE  j \in SourcesShown(row[j].next)
    BY DEF AllSourcesShown
  <2>1. j \in Jobs /\ row[j] # Absent /\ row[j].next \in Jobs
    BY DEF Merged, Inv, TypeOK, Row
  <2> QED
    BY <2>1 DEF EndNamed, NamedInv, RowsNamed, Points, Named, SourcesShown
<1> QED
  BY <1>1, <1>2, <1>3, Inductive, PTL DEF Spec
===============================================================================
