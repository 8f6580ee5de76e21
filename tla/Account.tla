------------------------------- MODULE Account -------------------------------
(***************************************************************************)
(* What auth_service.py promises of one account, each operation at once:   *)
(* a session is opened, exchanged or closed, never reopened; a new         *)
(* password ends every session; only an administrator ends a suspension.   *)
(***************************************************************************)
EXTENDS Naturals

VARIABLES status, version, open, closed   \* open and closed are sets of refresh tokens

accountVars == <<status, version, open, closed>>

Init == status = "absent" /\ version = 0 /\ open = {} /\ closed = {}

\* Close the sessions that are not kept and open those that are new.
Sessions(kept, new) ==
  /\ kept \subseteq open /\ new \intersect (open \union closed) = {}
  /\ open' = kept \union new
  /\ closed' = closed \union (open \ kept)

\* A pending account becomes active when its address turns out to be verified.
Verified == status' = status \/ (status = "pending" /\ status' = "active")

SignUp(t) ==
  /\ status = "absent" /\ status' \in {"pending", "active"}
  /\ Sessions({}, {t})
  /\ UNCHANGED version

\* Signing in may close older sessions (at most so many are kept).
SignIn(t) ==
  /\ status \in {"pending", "active"} /\ Verified
  /\ \E kept \in SUBSET open : Sessions(kept, {t})
  /\ UNCHANGED version

\* A refresh token is exchanged for a new one, once.
Rotate(s, t) ==
  /\ status \in {"pending", "active"}
  /\ s \in open
  /\ \E kept \in SUBSET (open \ {s}) : Sessions(kept, {t})
  /\ UNCHANGED <<status, version>>

SignOut(s) ==
  /\ s \in open /\ Sessions(open \ {s}, {})
  /\ UNCHANGED <<status, version>>

VerifyEmail == status = "pending" /\ status' = "active" /\ UNCHANGED <<version, open, closed>>

\* A new password: no session survives, and no access token of an older version is valid.
NewPassword == Verified /\ version' = version + 1 /\ Sessions({}, {})

Suspend == status # "absent" /\ status' = "suspended" /\ version' = version + 1
           /\ UNCHANGED <<open, closed>>

Restore == status # "absent" /\ status' = "active" /\ UNCHANGED <<version, open, closed>>

Step(Tokens) ==
  \/ \E t \in Tokens : SignUp(t) \/ SignIn(t) \/ SignOut(t)
  \/ \E s, t \in Tokens : Rotate(s, t)
  \/ VerifyEmail \/ NewPassword \/ Suspend \/ Restore
===============================================================================
