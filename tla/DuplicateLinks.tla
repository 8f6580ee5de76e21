--------------------------- MODULE DuplicateLinks ---------------------------
(***************************************************************************)
(* How ingestion links a new job to the row it duplicates.  A run inserts  *)
(* a posting, compares it with candidate rows, follows canonical_job_id    *)
(* from the row it matched to the canonical one, and records the link; a   *)
(* confident match merges the two rows: one of them stays canonical and is *)
(* listed, the other points to it.  Runs of several sources do this in     *)
(* concurrent transactions that commit many postings at once.              *)
(*                                                                         *)
(* Which rows a posting matches, how confidently, and which of the two is  *)
(* better is left open.  Every job of an instance is of its own source.    *)
(***************************************************************************)
EXTENDS Naturals, FiniteSets, UnitOfWork

CONSTANTS
  Jobs,   \* (source_id, source_job_id) pairs
  Runs,   \* ingestion transactions that can be open together
  None    \* canonical_job_id IS NULL

ASSUME LinksAssumption == None \notin Jobs

VARIABLES
  row,    \* row[j]: the committed row of job j
  links,  \* committed rows of job_duplicates: <<canonical_job_id, duplicate_job_id>>
  run     \* run[r]: the open transaction of ingestion run r

vars == <<row, links, run>>

-----------------------------------------------------------------------------
\* next is canonical_job_id, count duplicate_count.
Row    == [next : Jobs \union {None}, canonical : BOOLEAN, count : Nat]
Absent == [absent |-> TRUE]

Versions == [Jobs -> Row \union {Absent}]
Nothing  == [j \in Jobs |-> Absent]

\* Mutant: the column has no default.
NewRowUncounted == [next |-> None, canonical |-> TRUE, count |-> None]

NewRow == [next |-> None, canonical |-> TRUE, count |-> 0]

\* mine: the rows the transaction has written, which stay locked until it ends.  The session
\* holds object, with the attributes as loaded when the row was last read or flushed.
\* new: the links; job: the posting; at: the row of the loop; passed: those it has left (history).
Run == [phase : {"between", "read", "linking"}, mine : Versions, loaded : Versions,
        object : Versions, new : SUBSET (Jobs \X Jobs), job : Jobs \union {None},
        at : Jobs \union {None}, passed : SUBSET Jobs]

Closed == [phase |-> "between", mine |-> Nothing, loaded |-> Nothing, object |-> Nothing,
           new |-> {}, job |-> None, at |-> None, passed |-> {}]

\* A row as run r reads it from the database: its own version, or the committed one.
View(r, j) == IF run[r].mine[j] # Absent THEN run[r].mine[j] ELSE row[j]

\* session.get: an object the session holds is not read again.
Get(held, r, j) == IF held[j] # Absent THEN held ELSE [held EXCEPT ![j] = View(r, j)]

Dirty(r) == {j \in Jobs : run[r].object[j] # run[r].loaded[j]}

\* A write of row j waits for another transaction that has written it.
Unlocked(r, j) == \A q \in Runs \ {r} : run[q].mine[j] = Absent

\* The UPDATE of a row.
Update(current, old, new) ==
  [next      |-> Column(current.next, old.next, new.next),
   canonical |-> Column(current.canonical, old.canonical, new.canonical),
   count     |-> Column(current.count, old.count, new.count)]

\* What r has written once its dirty objects are flushed.
Flushed(r) ==
  [j \in Jobs |-> IF j \in Dirty(r)
                 THEN Update(View(r, j), run[r].loaded[j], run[r].object[j])
                 ELSE run[r].mine[j]]

FlushAllowed(r) == \A j \in Dirty(r) : Unlocked(r, j)

Init ==
  /\ row = Nothing
  /\ links = {}
  /\ run = [r \in Runs |-> Closed]

-----------------------------------------------------------------------------
\* A posting that has its row, or a new company, flushes what the last posting left.
Flush(r) ==
  /\ run[r].phase = "between" /\ Dirty(r) # {}
  /\ FlushAllowed(r)
  /\ run' = [run EXCEPT ![r].mine = Flushed(r), ![r].loaded = run[r].object]
  /\ UNCHANGED <<row, links>>

\* The rows the pre-filter may return to r: which of them is left open.
Candidates(r) == {j \in Jobs : View(r, j) # Absent}

\* A posting without a row: the candidates are read, and one of them is matched or none.
\* The session holds its dirty objects, with the attributes they have; any other is only held
\* while _persist of one posting refers to it, and read again for the next.
Read(r, j) ==
  /\ run[r].phase = "between"
  /\ View(r, j) = Absent
  /\ \E candidates \in SUBSET Candidates(r), m \in Jobs \union {None} :
       /\ m \in candidates \/ m = None
       /\ LET Session(held) ==
                [i \in Jobs |-> IF i \in Dirty(r) THEN held[i]
                               ELSE IF i \in candidates THEN View(r, i) ELSE Absent]
          IN run' = [run EXCEPT ![r].phase = "read", ![r].job = j, ![r].at = m,
                       ![r].loaded = Session(@), ![r].object = Session(@)]
  /\ UNCHANGED <<row, links>>

\* The new row is flushed, and what the last posting left with it; the unique key of a row
\* that another transaction has inserted fails it.
Insert(r) ==
  /\ run[r].phase = "read"
  /\ FlushAllowed(r)
  /\ LET j == run[r].job
         object == [run[r].object EXCEPT ![j] = NewRow]
     IN /\ View(r, j) = Absent /\ Unlocked(r, j)
        /\ run' = [run EXCEPT
             ![r].mine   = [Flushed(r) EXCEPT ![j] = NewRow],
             ![r].loaded = object,
             ![r].object = object,
             ![r].phase  = IF run[r].at = None THEN "between" ELSE "linking",
             ![r].job    = IF run[r].at = None THEN None ELSE j]
  /\ UNCHANGED <<row, links>>

\* One turn of the loop over canonical_job_id.
Follow(r) ==
  /\ run[r].phase = "linking"
  /\ LET at     == run[r].at
         parent == run[r].object[at].next
     IN /\ parent \notin {None, at}
        /\ run' = [run EXCEPT
             ![r].at     = parent,
             ![r].loaded = Get(@, r, parent),
             ![r].object = Get(@, r, parent),
             ![r].passed = @ \union {at}]
  /\ UNCHANGED <<row, links>>

\* Mutant: the new canonical row keeps its pointer to the old one.
BothWays(c, j, seen, merge, better) ==
  [job       |-> IF merge THEN [NewRow EXCEPT !.next = c, !.canonical = better] ELSE NewRow,
   canonical |-> IF merge /\ better
                 THEN [next |-> j, canonical |-> FALSE, count |-> seen.count + 1]
                 ELSE [seen EXCEPT !.count = @ + 1]]

\* Mutant: the old canonical row stays listed.
BothListed(c, j, seen, merge, better) ==
  [job       |-> IF merge /\ ~better THEN [NewRow EXCEPT !.next = c, !.canonical = FALSE]
                                     ELSE NewRow,
   canonical |-> IF merge /\ better
                 THEN [next |-> j, canonical |-> TRUE, count |-> seen.count + 1]
                 ELSE [seen EXCEPT !.count = @ + 1]]

\* Mutant: a merge is counted twice.
CountedTwice(c, j, seen, merge, better) ==
  [job       |-> IF merge /\ ~better THEN [NewRow EXCEPT !.next = c, !.canonical = FALSE]
                                     ELSE NewRow,
   canonical |-> IF merge /\ better
                 THEN [next |-> j, canonical |-> FALSE, count |-> seen.count + 2]
                 ELSE [seen EXCEPT !.count = @ + 1]]

\* The new row j and the canonical row c as the link leaves them: the better one is canonical.
Linked(c, j, seen, merge, better) ==
  [job       |-> IF merge /\ ~better THEN [NewRow EXCEPT !.next = c, !.canonical = FALSE]
                                     ELSE NewRow,
   canonical |-> IF merge /\ better
                 THEN [next |-> j, canonical |-> FALSE, count |-> seen.count + 1]
                 ELSE [seen EXCEPT !.count = @ + 1]]

\* The end of the chain: the objects change, the UPDATEs wait for the next flush.  merge: the
\* match was confident enough to merge the rows.
Link(r) ==
  /\ run[r].phase = "linking"
  /\ LET c == run[r].at
         j == run[r].job
     IN /\ run[r].object[c].next \in {None, c}
        /\ \E merge, better \in BOOLEAN :
             LET linked == Linked(c, j, run[r].object[c], merge, better)
             IN run' = [run EXCEPT
                  ![r].object = [@ EXCEPT ![j] = linked.job, ![c] = linked.canonical],
                  ![r].new    = @ \union {<<c, j>>},
                  ![r].phase  = "between", ![r].job = None, ![r].at = None,
                  ![r].passed = {}]
  /\ UNCHANGED <<row, links>>

\* The last flush and the end of the transaction.
Commit(r) ==
  /\ run[r].phase = "between" /\ run[r] # Closed
  /\ FlushAllowed(r)
  /\ row' = [j \in Jobs |-> IF Flushed(r)[j] # Absent THEN Flushed(r)[j] ELSE row[j]]
  /\ links' = links \union run[r].new
  /\ run' = [run EXCEPT ![r] = Closed]

\* A persist error, also one that ends two transactions waiting for each other, or a crash.
\* After an error the run goes on with the next posting in an empty session.
Rollback(r) ==
  /\ run[r] # Closed
  /\ run' = [run EXCEPT ![r] = Closed]
  /\ UNCHANGED <<row, links>>

RunStep(r) ==
  \/ Flush(r)
  \/ \E j \in Jobs : Read(r, j)
  \/ Insert(r) \/ Follow(r) \/ Link(r) \/ Commit(r) \/ Rollback(r)

Next == \E r \in Runs : RunStep(r)

Spec == Init /\ [][Next]_vars

-----------------------------------------------------------------------------
(* Properties.                                                             *)

\* Every variable stays within its type.
TypeOK ==
  /\ row \in [Jobs -> Row \union {Absent}]
  /\ links \subseteq Jobs \X Jobs
  /\ run \in [Runs -> Run]

Merged == {j \in Jobs : row[j] # Absent /\ row[j].next # None}

\* No set of merged rows is closed under canonical_job_id: every chain ends, though two
\* transactions that read the same canonical row may both replace it.
ChainsEnd == \A S \in (SUBSET Merged) \ {{}} : \E j \in S : row[j].next \notin S

\* The loop of _link_duplicate never comes back to a row it has left, whatever mixture of
\* older and newer versions of the rows it walks over (ingestion.py: follow the chain).
LoopAdvances ==
  \A r \in Runs : run[r].phase = "linking" => run[r].at \notin run[r].passed

\* A row is listed exactly when it is the end of its chain, so every merged row leads to a
\* listed one and the listings show none that leads elsewhere.
ListedIsRoot ==
  \A j \in Jobs : row[j] # Absent => (row[j].canonical <=> row[j].next = None)

\* duplicate_count never exceeds the recorded duplicates of a row: concurrent links may lose
\* an increment, none is counted twice.
CountCovered ==
  \A c \in Jobs : row[c] # Absent => row[c].count <= Cardinality({l \in links : l[1] = c})

\* The sources a detail page names: the job's own and those of the links it is canonical in.
SourcesShown(c) == {c} \union {j \in Jobs : <<c, j>> \in links}

\* When duplicates merge, all contributing sources are shown on the detail page (SOURCES.md,
\* LEGAL.md), at least on that of the row the merged one points to.
AllSourcesShown == \A j \in Merged : j \in SourcesShown(row[j].next)
=============================================================================
