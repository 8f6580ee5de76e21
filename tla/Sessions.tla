------------------------------- MODULE Sessions -------------------------------
(***************************************************************************)
(* The sessions of one account: apps/api/app/services/auth_service.py, its *)
(* router auth.py, core/deps.py and the suspension of routers/admin.py.    *)
(*                                                                         *)
(* Every request is a transaction at READ COMMITTED: it reads the account  *)
(* and the token it was given, later the sessions it is going to close,    *)
(* and writes at its commit.  Requests of one account interleave.          *)
(*                                                                         *)
(* Nothing happens when a token or a link expires: its row stays and is    *)
(* counted, and it is one that nobody presents any more.                   *)
(***************************************************************************)
EXTENDS Integers, FiniteSets, UnitOfWork

CONSTANTS
  Requests,      \* request slots: how many are in flight at once
  Tokens,        \* refresh tokens that may be issued
  Links,         \* verification and reset links that may be issued
  MaxSessions,   \* MAX_ACTIVE_SESSIONS
  MaxVersion,    \* bound on token_version
  NoRequest, NoLink, NoToken

ASSUME SessionsAssumption ==
  /\ MaxSessions \in Nat /\ MaxVersion \in Nat
  /\ NoToken \notin Tokens /\ NoLink \notin Links
  /\ IsFiniteSet(Tokens) /\ IsFiniteSet(Requests)

VARIABLES
  user,      \* the row of users
  token,     \* refresh_tokens: "unissued", "live", "outlawed" or "revoked"
  link,      \* verification_tokens: "unissued", what they are for, or "void"
  access,    \* token_version of the access tokens given out
  request    \* the requests in flight

sessionVars == <<user, token, link, access, request>>

OpensSession == {"register", "login", "google", "refresh"}
EndsSessions == {"reset_password", "change_password"}
RequestOp == OpensSession \union EndsSessions \union {"verify_email", "suspend", "restore"}

\* "outlawed" is history: a live token of an account that has been suspended since.
Live == {"live", "outlawed"}
Unrevoked == {t \in Tokens : token[t] \in Live}

NoUser == [status |-> "absent", version |-> 0, verified |-> FALSE, password |-> FALSE]

SessionInit ==
  /\ user = NoUser
  /\ token = [t \in Tokens |-> "unissued"]
  /\ link = [l \in Links |-> "unissued"]
  /\ access = {}
  /\ request = [r \in Requests |-> NoRequest]

-----------------------------------------------------------------------------
(* Reading: who is let in.                                                 *)

\* A request that was admitted: what it read, and the session or link it presented.
Read(r, op, t, l) ==
  /\ request[r] = NoRequest
  /\ request' = [request EXCEPT ![r] =
       [op |-> op, old |-> user, token |-> t, link |-> l,
        closing |-> {}, ready |-> op \notin OpensSession \union EndsSessions, stale |-> FALSE]]
  /\ UNCHANGED <<user, token, link, access>>

\* _load_user: an access token of the current token_version, of an account in use.
Authenticated == user.version \in access /\ user.status \in {"pending", "active"}

\* Bounds: a version is left to count to, a token is left for every request in flight.
MayBump == user.version < MaxVersion
MayOpen ==
  Cardinality({r \in Requests : request[r] # NoRequest /\ request[r].op \in OpensSession})
    < Cardinality({t \in Tokens : token[t] = "unissued"})

BeginRegister(r) == user.status = "absent" /\ MayOpen /\ Read(r, "register", NoToken, NoLink)

\* authenticate: the password is right, and the account neither suspended nor deleted.
BeginLogin(r) ==
  /\ user.password /\ user.status \in {"pending", "active"} /\ MayOpen
  /\ Read(r, "login", NoToken, NoLink)

BeginGoogle(r) == user.status # "suspended" /\ MayOpen /\ Read(r, "google", NoToken, NoLink)

\* Mutant: revoked_at is not looked at.
BeginRefreshSpent(r, t) ==
  /\ token[t] \in Live \union {"revoked"} /\ user.status \in {"pending", "active"} /\ MayOpen
  /\ Read(r, "refresh", t, NoLink)

BeginRefresh(r, t) ==
  /\ token[t] \in Live /\ user.status \in {"pending", "active"} /\ MayOpen
  /\ Read(r, "refresh", t, NoLink)

BeginVerifyEmail(r, l) == link[l] = "email_verify" /\ Read(r, "verify_email", NoToken, l)

BeginResetPassword(r, l) ==
  link[l] = "password_reset" /\ MayBump /\ Read(r, "reset_password", NoToken, l)

\* change_password needs the current password: an account of Google alone has none.
BeginChangePassword(r) ==
  Authenticated /\ user.password /\ MayBump /\ Read(r, "change_password", NoToken, NoLink)

BeginSuspend(r) == user.status # "absent" /\ MayBump /\ Read(r, "suspend", NoToken, NoLink)

BeginRestore(r) == user.status # "absent" /\ Read(r, "restore", NoToken, NoLink)

Begin(r) ==
  \/ BeginRegister(r) \/ BeginLogin(r) \/ BeginGoogle(r)
  \/ \E t \in Tokens : BeginRefresh(r, t)
  \/ \E l \in Links : BeginVerifyEmail(r, l) \/ BeginResetPassword(r, l)
  \/ BeginChangePassword(r) \/ BeginSuspend(r) \/ BeginRestore(r)

-----------------------------------------------------------------------------
(* The sessions a request closes are read in a statement of their own.     *)

\* Mutant: sessions are only counted, none is closed.
Unpruned(S) == S = {}

\* _prune_sessions: all but MaxSessions of the rows read.  Which ones is open: created_at,
\* the order, has the quoted literal 'now()' as its default, the time its table was made.
Pruned(S) ==
  /\ S \subseteq Unrevoked
  /\ IF Cardinality(Unrevoked) > MaxSessions
     THEN Cardinality(S) = Cardinality(Unrevoked) - MaxSessions
     ELSE S = {}

PruneSessions(r) ==
  /\ request[r] # NoRequest /\ request[r].op \in OpensSession /\ ~request[r].ready
  /\ \E S \in SUBSET Unrevoked :
       /\ Pruned(S)
       /\ request' = [request EXCEPT ![r].closing = S, ![r].ready = TRUE]
  /\ UNCHANGED <<user, token, link, access>>

RevokeAll(r) ==
  /\ request[r] # NoRequest /\ request[r].op \in EndsSessions /\ ~request[r].ready
  /\ request' = [request EXCEPT ![r].closing = Unrevoked, ![r].ready = TRUE]
  /\ UNCHANGED <<user, token, link, access>>

-----------------------------------------------------------------------------
(* Writing.  Only the columns a request changed are written.               *)

\* The row of users after the commit of r, which leaves the account it read as new.
Flushed(r, new) ==
  [status   |-> Column(user.status, request[r].old.status, new.status),
   version  |-> Column(user.version, request[r].old.version, new.version),
   verified |-> Column(user.verified, request[r].old.verified, new.verified),
   password |-> Column(user.password, request[r].old.password, new.password)]

\* r is over; the requests still in flight have read an account that is no more.
Done(r) ==
  request' = [x \in Requests |->
    IF x = r \/ request[x] = NoRequest THEN NoRequest ELSE [request[x] EXCEPT !.stale = TRUE]]

Ready(r, op) == request[r] # NoRequest /\ request[r].op = op /\ request[r].ready

\* The new session t, with its access token; the presented and the pruned ones are revoked.
OpenSession(r, t) ==
  /\ token[t] = "unissued"
  /\ token' = [x \in Tokens |->
       CASE x = t                                            -> "live"
         [] x \in request[r].closing \union {request[r].token} -> "revoked"
         [] OTHER                                            -> token[x]]
  /\ access' = access \union {request[r].old.version}

SendLink(l, purpose) == link[l] = "unissued" /\ link' = [link EXCEPT ![l] = purpose]

\* The unique key on the address fails the slower of two that create the account.
Lost(r, op) ==
  /\ Ready(r, op) /\ request[r].old.status = "absent" /\ user.status # "absent"
  /\ request' = [request EXCEPT ![r] = NoRequest]
  /\ UNCHANGED <<user, token, link, access>>

Register(r) ==
  /\ Ready(r, "register") /\ user.status = "absent"
  /\ user' = [status |-> "pending", version |-> 0, verified |-> FALSE, password |-> TRUE]
  /\ \E t \in Tokens : OpenSession(r, t)
  /\ \E l \in Links : SendLink(l, "email_verify")
  /\ Done(r)

Login(r) ==
  /\ Ready(r, "login")
  /\ \E t \in Tokens : OpenSession(r, t)
  /\ Done(r)
  /\ UNCHANGED <<user, link>>

\* Google has verified the address: the account becomes, or is created, active.
GoogleAccount(old) ==
  [old EXCEPT !.verified = TRUE,
              !.status = IF old.status \in {"absent", "pending"} THEN "active" ELSE @]

Google(r) ==
  /\ Ready(r, "google") /\ (request[r].old.status = "absent" => user.status = "absent")
  /\ user' = Flushed(r, GoogleAccount(request[r].old))
  /\ \E t \in Tokens : OpenSession(r, t)
  /\ Done(r)
  /\ UNCHANGED <<link>>

\* Mutant: the presented token stays valid.
RefreshKept(r) ==
  /\ Ready(r, "refresh")
  /\ \E t \in Tokens :
       /\ token[t] = "unissued"
       /\ token' = [x \in Tokens |-> CASE x = t -> "live"
                                       [] x \in request[r].closing -> "revoked"
                                       [] OTHER -> token[x]]
  /\ access' = access \union {request[r].old.version}
  /\ Done(r)
  /\ UNCHANGED <<user, link>>

Refresh(r) ==
  /\ Ready(r, "refresh")
  /\ \E t \in Tokens : OpenSession(r, t)
  /\ Done(r)
  /\ UNCHANGED <<user, link>>

\* logout reads nothing: one UPDATE of the row that is not revoked yet.
Logout(t) ==
  /\ t \in Unrevoked
  /\ token' = [token EXCEPT ![t] = "revoked"]
  /\ request' = [x \in Requests |->
       IF request[x] = NoRequest THEN NoRequest ELSE [request[x] EXCEPT !.stale = TRUE]]
  /\ UNCHANGED <<user, link, access>>

UseLink(r) == link' = [link EXCEPT ![request[r].link] = "void"]

\* Mutant: an account becomes active before its address is verified.
ActiveUnverified(old) ==
  [old EXCEPT !.status = IF old.status = "pending" THEN "active" ELSE @]

VerifiedAccount(old) ==
  [old EXCEPT !.verified = TRUE, !.status = IF old.status = "pending" THEN "active" ELSE @]

VerifyEmail(r) ==
  /\ Ready(r, "verify_email")
  /\ user' = Flushed(r, VerifiedAccount(request[r].old))
  /\ UseLink(r)
  /\ Done(r)
  /\ UNCHANGED <<token, access>>

CloseSessions(r) ==
  token' = [x \in Tokens |-> IF x \in request[r].closing THEN "revoked" ELSE token[x]]

\* Mutant: the version is set back.
ResetBackwards(old) == [old EXCEPT !.password = TRUE, !.version = @ - 1]

\* A reset proves the address of a pending account as well.
ResetAccount(old) ==
  [old EXCEPT !.password = TRUE, !.version = @ + 1,
              !.verified = @ \/ old.status = "pending",
              !.status = IF old.status = "pending" THEN "active" ELSE @]

ResetPassword(r) ==
  /\ Ready(r, "reset_password")
  /\ user' = Flushed(r, ResetAccount(request[r].old))
  /\ UseLink(r) /\ CloseSessions(r)
  /\ Done(r)
  /\ UNCHANGED <<access>>

ChangePassword(r) ==
  /\ Ready(r, "change_password")
  /\ user' = Flushed(r, [request[r].old EXCEPT !.version = @ + 1])
  /\ CloseSessions(r)
  /\ Done(r)
  /\ UNCHANGED <<link, access>>

\* Requests that only issue a link write nothing that another request reads to write.
Resend ==
  /\ Authenticated /\ ~user.verified
  /\ \E l \in Links : SendLink(l, "email_verify")
  /\ UNCHANGED <<user, token, access, request>>

\* forgot_password answers alike for an unknown address, and does nothing then.
Forgot ==
  /\ user.status # "absent"
  /\ \E l \in Links : SendLink(l, "password_reset")
  /\ UNCHANGED <<user, token, access, request>>

\* token_version ends the access tokens; refresh_tokens is not touched.
Suspend(r) ==
  /\ Ready(r, "suspend")
  /\ user' = Flushed(r, [request[r].old EXCEPT !.status = "suspended", !.version = @ + 1])
  /\ token' = [t \in Tokens |-> IF token[t] = "live" THEN "outlawed" ELSE token[t]]
  /\ Done(r)
  /\ UNCHANGED <<link, access>>

Restore(r) ==
  /\ Ready(r, "restore")
  /\ user' = Flushed(r, [request[r].old EXCEPT !.status = "active"])
  /\ Done(r)
  /\ UNCHANGED <<token, link, access>>

\* A refused password, a failed exchange with Google, a lost connection: nothing is kept.
Abort(r) ==
  /\ request[r] # NoRequest
  /\ request' = [request EXCEPT ![r] = NoRequest]
  /\ UNCHANGED <<user, token, link, access>>

Commit(r) ==
  \/ Register(r) \/ Login(r) \/ Google(r) \/ Refresh(r) \/ VerifyEmail(r)
  \/ ResetPassword(r) \/ ChangePassword(r) \/ Suspend(r) \/ Restore(r)

SessionNext ==
  \/ Resend \/ Forgot
  \/ \E t \in Tokens : Logout(t)
  \/ \E r \in Requests :
       \/ Begin(r)
       \/ PruneSessions(r) \/ RevokeAll(r)
       \/ Commit(r)
       \/ \E op \in {"register", "google"} : Lost(r, op)
       \/ Abort(r)

SessionSpec == SessionInit /\ [][SessionNext]_sessionVars

-----------------------------------------------------------------------------
(* Properties.                                                             *)

UserRow == [status: {"absent", "pending", "active", "suspended"},
            version: Nat, verified: BOOLEAN, password: BOOLEAN]

RequestRow == [op: RequestOp, old: UserRow, token: Tokens \union {NoToken},
               link: Links \union {NoLink}, closing: SUBSET Tokens,
               ready: BOOLEAN, stale: BOOLEAN]

ASSUME RequestAssumption == NoRequest \notin RequestRow

\* Every variable stays within its type.
SessionTypeOK ==
  /\ user \in UserRow
  /\ token \in [Tokens -> {"unissued", "live", "outlawed", "revoked"}]
  /\ link \in [Links -> {"unissued", "email_verify", "password_reset", "void"}]
  /\ access \subseteq Nat
  /\ request \in [Requests -> RequestRow \union {NoRequest}]

\* A request that no commit has overtaken remembers the account and the tokens as they are.
Current(r) ==
  /\ request[r].old = user
  /\ request[r].token \in Tokens => request[r].token \in Unrevoked
  /\ request[r].closing \subseteq Unrevoked
  /\ request[r].op \in EndsSessions /\ request[r].ready => request[r].closing = Unrevoked

\* Why a lone request does what Account says of it: nothing that it read has changed.
FreshReads == \A r \in Requests : request[r] # NoRequest /\ ~request[r].stale => Current(r)

Promise == INSTANCE Account WITH
  status <- user.status, version <- user.version,
  open <- Unrevoked, closed <- {t \in Tokens : token[t] = "revoked"}

\* A request commits that another one has overtaken.
Overtaken == \E r \in Requests :
  request[r] # NoRequest /\ request[r].stale /\ request'[r] = NoRequest

\* A refresh exchanges the token that was presented.
Exchanged == \A r \in Requests :
  Ready(r, "refresh") /\ token' # token /\ request'[r] = NoRequest =>
    \E t \in Tokens : Promise!Rotate(request[r].token, t)

\* A request that opens a session, and that no other has overtaken, leaves at most one
\* session more than MAX_ACTIVE_SESSIONS, since it prunes before its own row is there; the
\* presented token of a rotation is counted as well (auth_service.py: so the table cannot
\* grow without bound).
SessionsBounded ==
  [][Unrevoked' \subseteq Unrevoked \/ Cardinality(Unrevoked') <= MaxSessions + 1 \/ Overtaken]_token

\* Every commit of a request that no other has overtaken keeps the promises of Account: a
\* refresh token is exchanged once, a revoked session never comes back, a new password ends
\* every session, and only an administrator ends a suspension (auth_service.py, docstring).
KeepsPromises ==
  [][Overtaken \/ (Promise!Step(Tokens) /\ Exchanged)]_(Promise!accountVars)

\* An account becomes active only with a verified address, or by an administrator, whichever
\* requests write its columns meanwhile.
ActiveIsVerified ==
  [][user.status # "active" /\ user'.status = "active" =>
       user'.verified \/ \E r \in Requests : Ready(r, "restore") /\ request'[r] = NoRequest]_sessionVars

\* "User suspended and signed out of all sessions" (admin.py): no session that was live then
\* is continued later.
SignedOut ==
  [][\A r \in Requests :
       Ready(r, "refresh") /\ token' # token /\ request'[r] = NoRequest =>
         token[request[r].token] # "outlawed"]_sessionVars
===============================================================================
