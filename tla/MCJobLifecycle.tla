--------------------------- MODULE MCJobLifecycle ---------------------------
(* Values of JobLifecycle's constants that a .cfg cannot write.            *)
EXTENDS JobLifecycle, TLC

\* An open-ended posting, one whose deadline lies ahead, and one flagged for review
\* whose deadline passes.
MCPostings == {[deadline |-> NoDeadline, review |-> FALSE],
               [deadline |-> 2, review |-> FALSE],
               [deadline |-> 0, review |-> TRUE]}

\* Enough for liveness: an open-ended posting and one whose deadline passes.
MCLivePostings == {[deadline |-> NoDeadline, review |-> FALSE],
                   [deadline |-> 0, review |-> FALSE]}

MCOpenPosting == {[deadline |-> NoDeadline, review |-> FALSE]}
=============================================================================
