---------------------------- MODULE Account_proofs ----------------------------
(***************************************************************************)
(* Proofs about what belongs to an account.  First Sessions, for every set *)
(* of requests, tokens and links; then PersonalData: saved jobs, reports,  *)
(* alerts and the profile, for every set of users, jobs, calls and bodies  *)
(* of an update.                                                           *)
(***************************************************************************)
EXTENDS Sessions, PersonalData, FiniteSetTheorems, TLAPS

USE SessionsAssumption, RequestAssumption
USE DEF RequestOp, OpensSession, EndsSessions, Live

-----------------------------------------------------------------------------
(* Types.                                                                  *)

\* A row of users has the four columns the module gives it.
LEMMA UserColumns ==
  ASSUME NEW u \in UserRow
  PROVE  /\ u = [status |-> u.status, version |-> u.version,
                 verified |-> u.verified, password |-> u.password]
         /\ u.status \in {"absent", "pending", "active", "suspended"}
         /\ u.version \in Nat /\ u.verified \in BOOLEAN /\ u.password \in BOOLEAN
  BY DEF UserRow

\* Writing one column leaves a row of users.
LEMMA ColumnSet ==
  ASSUME NEW u \in UserRow
  PROVE  /\ \A x \in {"absent", "pending", "active", "suspended"} : [u EXCEPT !.status = x] \in UserRow
         /\ \A x \in Nat : [u EXCEPT !.version = x] \in UserRow
         /\ \A x \in BOOLEAN : [u EXCEPT !.verified = x] \in UserRow
         /\ [u EXCEPT !.password = TRUE] \in UserRow
  BY UserColumns DEF UserRow

\* What the handlers make of an account they have read is an account.
LEMMA AccountsTyped ==
  ASSUME NEW u \in UserRow
  PROVE  /\ GoogleAccount(u) \in UserRow
         /\ VerifiedAccount(u) \in UserRow
         /\ ResetAccount(u) \in UserRow
         /\ [u EXCEPT !.version = @ + 1] \in UserRow
         /\ [u EXCEPT !.status = "suspended", !.version = @ + 1] \in UserRow
         /\ [u EXCEPT !.status = "active"] \in UserRow
<1>1. GoogleAccount(u) \in UserRow /\ VerifiedAccount(u) \in UserRow
  BY UserColumns DEF UserRow, GoogleAccount, VerifiedAccount
<1>2. u.version + 1 \in Nat /\ (u.verified \/ u.status = "pending") \in BOOLEAN
  BY UserColumns
<1>3. [u EXCEPT !.version = u.version + 1] \in UserRow
  BY <1>2, ColumnSet
<1>4. [u EXCEPT !.status = "active"] \in UserRow
  BY ColumnSet
<1>5. [u EXCEPT !.status = "suspended", !.version = u.version + 1] \in UserRow
  <2> DEFINE w == [u EXCEPT !.status = "suspended"]
  <2>1. w \in UserRow
    BY ColumnSet
  <2>2. [w EXCEPT !.version = u.version + 1] \in UserRow
    BY <2>1, <1>2, ColumnSet
  <2> QED
    BY <2>2
<1>6. ResetAccount(u) \in UserRow
  <2> DEFINE w1 == [u EXCEPT !.password = TRUE]
             w2 == [w1 EXCEPT !.version = u.version + 1]
             w3 == [w2 EXCEPT !.verified = u.verified \/ u.status = "pending"]
             w4 == [w3 EXCEPT !.status = IF u.status = "pending" THEN "active" ELSE u.status]
  <2>1. w1 \in UserRow
    BY ColumnSet
  <2>2. w2 \in UserRow
    BY <2>1, <1>2, ColumnSet
  <2>3. w3 \in UserRow
    BY <2>2, <1>2, ColumnSet
  <2>4. (IF u.status = "pending" THEN "active" ELSE u.status)
          \in {"absent", "pending", "active", "suspended"}
    BY UserColumns
  <2>5. w4 \in UserRow
    BY <2>3, <2>4, ColumnSet
  <2> QED
    BY <2>5, Zenon DEF ResetAccount
<1> QED
  BY <1>1, <1>3, <1>4, <1>5, <1>6

\* A commit leaves a row of users.
LEMMA FlushedTyped ==
  ASSUME SessionTypeOK, NEW r \in Requests, request[r] # NoRequest, NEW new \in UserRow
  PROVE  Flushed(r, new) \in UserRow
<1>1. request[r].old \in UserRow /\ user \in UserRow
  BY DEF SessionTypeOK, RequestRow
<1> QED
  BY <1>1, UserColumns DEF Flushed, Column, UserRow

\* A request in flight stays one when it is overtaken or has read its sessions.
LEMMA RequestsTyped ==
  ASSUME NEW q \in RequestRow, NEW S \in SUBSET Tokens
  PROVE  /\ [q EXCEPT !.stale = TRUE] \in RequestRow
         /\ [q EXCEPT !.closing = S, !.ready = TRUE] \in RequestRow
         /\ [q EXCEPT !.ready = TRUE] \in RequestRow
  BY DEF RequestRow

\* The requests a commit leaves in flight are requests.
LEMMA DoneTyped ==
  ASSUME SessionTypeOK, NEW r \in Requests, Done(r)
  PROVE  request' \in [Requests -> RequestRow \union {NoRequest}]
<1>1. ASSUME NEW x \in Requests, request[x] # NoRequest
      PROVE  [request[x] EXCEPT !.stale = TRUE] \in RequestRow
  BY <1>1, RequestsTyped DEF SessionTypeOK
<1> QED
  BY <1>1 DEF Done

\* A request that begins is one.
LEMMA ReadTyped ==
  ASSUME SessionTypeOK, NEW r \in Requests, NEW op \in RequestOp,
         NEW t \in Tokens \union {NoToken}, NEW l \in Links \union {NoLink}, Read(r, op, t, l)
  PROVE  SessionTypeOK'
<1>1. [op |-> op, old |-> user, token |-> t, link |-> l, closing |-> {},
       ready |-> op \notin OpensSession \union EndsSessions, stale |-> FALSE] \in RequestRow
  BY DEF RequestRow, SessionTypeOK
<1> QED
  BY <1>1 DEF Read, SessionTypeOK

\* An opened session leaves tokens and versions.
LEMMA OpenTyped ==
  ASSUME SessionTypeOK, NEW r \in Requests, request[r] # NoRequest,
         NEW t \in Tokens, OpenSession(r, t)
  PROVE  /\ token' \in [Tokens -> {"unissued", "live", "outlawed", "revoked"}]
         /\ access' \subseteq Nat
<1>1. request[r].old.version \in Nat
  BY DEF SessionTypeOK, RequestRow, UserRow
<1> QED
  BY <1>1 DEF OpenSession, SessionTypeOK

\* Every variable stays within its type, whatever requests interleave.
THEOREM SessionsTyped == SessionSpec => []SessionTypeOK
<1>1. SessionInit => SessionTypeOK
  BY DEF SessionInit, SessionTypeOK, NoUser, UserRow
<1>2. SessionTypeOK /\ [SessionNext]_sessionVars => SessionTypeOK'
  <2> SUFFICES ASSUME SessionTypeOK, [SessionNext]_sessionVars PROVE SessionTypeOK'
    OBVIOUS
  <2>1. CASE UNCHANGED sessionVars
    BY <2>1 DEF sessionVars, SessionTypeOK
  <2>2. CASE Resend \/ Forgot
    BY <2>2 DEF Resend, Forgot, SendLink, SessionTypeOK
  <2>3. ASSUME NEW t \in Tokens, Logout(t) PROVE SessionTypeOK'
    <3>1. \A x \in Requests : request[x] # NoRequest =>
            [request[x] EXCEPT !.stale = TRUE] \in RequestRow
      BY RequestsTyped DEF SessionTypeOK
    <3> QED
      BY <2>3, <3>1 DEF Logout, SessionTypeOK
  <2>4. ASSUME NEW r \in Requests, Begin(r) PROVE SessionTypeOK'
    BY <2>4, ReadTyped DEF Begin, BeginRegister, BeginLogin, BeginGoogle, BeginRefresh, BeginVerifyEmail,
       BeginResetPassword, BeginChangePassword, BeginSuspend, BeginRestore
  <2>5. ASSUME NEW r \in Requests, PruneSessions(r) \/ RevokeAll(r) PROVE SessionTypeOK'
    <3>1. request[r] \in RequestRow
      BY <2>5 DEF PruneSessions, RevokeAll, SessionTypeOK
    <3>2. \A S \in SUBSET Tokens : [request[r] EXCEPT !.closing = S, !.ready = TRUE] \in RequestRow
      BY <3>1, RequestsTyped
    <3>3. Unrevoked \in SUBSET Tokens
      BY DEF Unrevoked
    <3>4. PICK S \in SUBSET Tokens :
            request' = [request EXCEPT ![r] = [request[r] EXCEPT !.closing = S, !.ready = TRUE]]
      <4>1. CASE PruneSessions(r)
        <5>1. PICK S \in SUBSET Unrevoked :
                request' = [request EXCEPT ![r].closing = S, ![r].ready = TRUE]
          BY <4>1 DEF PruneSessions
        <5>2. request' = [request EXCEPT ![r] = [request[r] EXCEPT !.closing = S, !.ready = TRUE]]
          BY <5>1, <3>1 DEF SessionTypeOK, RequestRow
        <5> QED
          BY <5>2, <3>3
      <4>2. CASE RevokeAll(r)
        <5>1. request' = [request EXCEPT ![r] = [request[r] EXCEPT !.closing = Unrevoked, !.ready = TRUE]]
          BY <4>2, <3>1 DEF RevokeAll, SessionTypeOK, RequestRow
        <5> QED
          BY <5>1, <3>3
      <4> QED
        BY <2>5, <4>1, <4>2
    <3>5. request' \in [Requests -> RequestRow \union {NoRequest}]
      BY <3>2, <3>4 DEF SessionTypeOK
    <3>6. UNCHANGED <<user, token, link, access>>
      BY <2>5 DEF PruneSessions, RevokeAll
    <3> QED
      BY <3>5, <3>6 DEF SessionTypeOK
  <2>6. ASSUME NEW r \in Requests, Commit(r) PROVE SessionTypeOK'
    <3>1. request[r] # NoRequest /\ request[r] \in RequestRow /\ request[r].old \in UserRow
      BY <2>6 DEF Commit, Register, Login, Google, Refresh, VerifyEmail, ResetPassword, ChangePassword,
         Suspend, Restore, Ready, SessionTypeOK, RequestRow
    <3>2. Done(r)
      BY <2>6 DEF Commit, Register, Login, Google, Refresh, VerifyEmail, ResetPassword, ChangePassword,
         Suspend, Restore
    <3>3. request' \in [Requests -> RequestRow \union {NoRequest}]
      BY <3>2, DoneTyped
    <3>4. user' \in UserRow
      <4>1. \A new \in UserRow : Flushed(r, new) \in UserRow
        BY <3>1, FlushedTyped
      <4>2. CASE Register(r)
        BY <4>2 DEF Register, UserRow
      <4>3. CASE Login(r) \/ Refresh(r)
        BY <4>3 DEF Login, Refresh, SessionTypeOK
      <4>4. CASE Google(r)
        BY <4>4, <4>1, <3>1, AccountsTyped DEF Google
      <4>5. CASE VerifyEmail(r)
        BY <4>5, <4>1, <3>1, AccountsTyped DEF VerifyEmail
      <4>6. CASE ResetPassword(r)
        BY <4>6, <4>1, <3>1, AccountsTyped DEF ResetPassword
      <4>7. CASE ChangePassword(r)
        BY <4>7, <4>1, <3>1, AccountsTyped DEF ChangePassword
      <4>8. CASE Suspend(r)
        BY <4>8, <4>1, <3>1, AccountsTyped DEF Suspend
      <4>9. CASE Restore(r)
        BY <4>9, <4>1, <3>1, AccountsTyped DEF Restore
      <4> QED
        BY <2>6, <4>2, <4>3, <4>4, <4>5, <4>6, <4>7, <4>8, <4>9 DEF Commit
    <3>5. /\ token' \in [Tokens -> {"unissued", "live", "outlawed", "revoked"}]
          /\ access' \subseteq Nat
      <4>1. CASE Register(r) \/ Login(r) \/ Google(r) \/ Refresh(r)
        BY <4>1, <3>1, OpenTyped DEF Register, Login, Google, Refresh
      <4>2. CASE VerifyEmail(r) \/ Restore(r)
        BY <4>2 DEF VerifyEmail, Restore, SessionTypeOK
      <4>3. CASE ResetPassword(r) \/ ChangePassword(r)
        BY <4>3 DEF ResetPassword, ChangePassword, CloseSessions, SessionTypeOK
      <4>4. CASE Suspend(r)
        BY <4>4 DEF Suspend, SessionTypeOK
      <4> QED
        BY <2>6, <4>1, <4>2, <4>3, <4>4 DEF Commit
    <3>6. link' \in [Links -> {"unissued", "email_verify", "password_reset", "void"}]
      BY <2>6 DEF Commit, Register, Login, Google, Refresh, VerifyEmail, ResetPassword, ChangePassword,
         Suspend, Restore, SendLink, UseLink, SessionTypeOK
    <3> QED
      BY <3>3, <3>4, <3>5, <3>6 DEF SessionTypeOK
  <2>7. ASSUME NEW r \in Requests, Abort(r) \/ \E op \in {"register", "google"} : Lost(r, op)
        PROVE SessionTypeOK'
    BY <2>7 DEF Abort, Lost, SessionTypeOK
  <2> QED
    BY <2>1, <2>2, <2>3, <2>4, <2>5, <2>6, <2>7 DEF SessionNext
<1> QED
  BY <1>1, <1>2, PTL DEF SessionSpec

-----------------------------------------------------------------------------
(* The invariant: what a request in flight has read.                       *)

\* What admitted a request holds of the account it read, and it presents a token if it is to
\* exchange one.  An account does not vanish, and a verified address stays verified.
Admitted(r) ==
  /\ request[r].op \in {"login", "refresh"} => request[r].old.status \in {"pending", "active"}
  /\ request[r].op = "google" => request[r].old.status # "suspended"
  /\ request[r].op = "register" => request[r].old.status = "absent"
  /\ request[r].op \notin {"register", "google"} => request[r].old.status # "absent"
  /\ request[r].token \in Tokens <=> request[r].op = "refresh"
  /\ request[r].old.status # "absent" => user.status # "absent"
  /\ request[r].old.verified => user.verified

InFlight == \A r \in Requests : request[r] # NoRequest => Admitted(r)

\* Without an account there are neither sessions nor links, and no version has been counted.
Unused ==
  user.status = "absent" =>
    Unrevoked = {} /\ ~user.verified /\ user.version = 0 /\ \A l \in Links : link[l] = "unissued"

\* The sessions to be closed leave no more than MaxSessions of those that were read.
Pruning(r) ==
  request[r].op \in OpensSession /\ request[r].ready =>
    Cardinality(Unrevoked) <= MaxSessions + Cardinality(request[r].closing)

\* Nothing a request read has changed, unless another one has overtaken it.
Fresh == \A r \in Requests : request[r] # NoRequest /\ ~request[r].stale => Current(r) /\ Pruning(r)

SessionInv == Unused /\ InFlight /\ Fresh

\* What the handlers make of an account, column by column.
LEMMA GoogleColumns ==
  ASSUME NEW u \in UserRow
  PROVE  /\ GoogleAccount(u).verified = TRUE
         /\ GoogleAccount(u).version = u.version /\ GoogleAccount(u).password = u.password
         /\ u.status \in {"absent", "pending"} => GoogleAccount(u).status = "active"
         /\ u.status \notin {"absent", "pending"} => GoogleAccount(u).status = u.status
  BY DEF GoogleAccount, UserRow

\* The account with its address verified, column by column.
LEMMA VerifiedColumns ==
  ASSUME NEW u \in UserRow
  PROVE  /\ VerifiedAccount(u).verified = TRUE
         /\ VerifiedAccount(u).version = u.version /\ VerifiedAccount(u).password = u.password
         /\ u.status = "pending" => VerifiedAccount(u).status = "active"
         /\ u.status # "pending" => VerifiedAccount(u).status = u.status
  BY DEF VerifiedAccount, UserRow

\* The account with a new password, column by column.
LEMMA ResetColumns ==
  ASSUME NEW u \in UserRow
  PROVE  /\ ResetAccount(u).verified <=> u.verified \/ u.status = "pending"
         /\ ResetAccount(u).version = u.version + 1
         /\ u.status = "pending" => ResetAccount(u).status = "active"
         /\ u.status # "pending" => ResetAccount(u).status = u.status
<1>1. u = [status |-> u.status, version |-> u.version,
           verified |-> u.verified, password |-> u.password]
  BY UserColumns
<1>2. ResetAccount(u).verified = (u.verified \/ u.status = "pending")
  BY <1>1 DEF ResetAccount
<1>3. /\ ResetAccount(u).version = u.version + 1
      /\ u.status = "pending" => ResetAccount(u).status = "active"
      /\ u.status # "pending" => ResetAccount(u).status = u.status
  BY <1>1 DEF ResetAccount
<1> QED
  BY <1>2, <1>3

\* The account a commit of r writes, if it writes one.
Written(r) ==
  CASE request[r].op = "google"          -> GoogleAccount(request[r].old)
    [] request[r].op = "verify_email"    -> VerifiedAccount(request[r].old)
    [] request[r].op = "reset_password"  -> ResetAccount(request[r].old)
    [] request[r].op = "change_password" -> [request[r].old EXCEPT !.version = @ + 1]
    [] request[r].op = "suspend"         -> [request[r].old EXCEPT !.status = "suspended", !.version = @ + 1]
    [] request[r].op = "restore"         -> [request[r].old EXCEPT !.status = "active"]

\* What every commit has in common, and the row of users each writes.
LEMMA Writes ==
  ASSUME SessionTypeOK, NEW r \in Requests, Commit(r)
  PROVE  /\ request[r] # NoRequest /\ request[r].ready /\ Done(r)
         /\ request[r].op \notin {"register", "login", "refresh"} => user' = Flushed(r, Written(r))
         /\ request[r].op \in {"login", "refresh"} => user' = user
         /\ request[r].op = "register" =>
              user' = [status |-> "pending", version |-> 0, verified |-> FALSE, password |-> TRUE]
              /\ user.status = "absent"
  BY DEF Commit, Register, Login, Google, Refresh, VerifyEmail, ResetPassword, ChangePassword,
     Suspend, Restore, Ready, Written
\* What the written account has of the one that was read.
LEMMA WrittenKeeps ==
  ASSUME SessionTypeOK, NEW r \in Requests, request[r] # NoRequest, Admitted(r),
         request[r].op \notin {"register", "login", "refresh"}
  PROVE  /\ request[r].old \in UserRow
         /\ request[r].old.verified => Written(r).verified
         /\ Written(r).status # "absent"
         /\ Written(r).verified \in BOOLEAN
         /\ Written(r).status # request[r].old.status /\ Written(r).status = "active" =>
              Written(r).verified \/ request[r].op = "restore"
<1> DEFINE u == request[r].old
<1>1. u \in UserRow /\ request[r].op \in RequestOp
  BY DEF SessionTypeOK, RequestRow
<1>2. /\ u.status \in {"absent", "pending", "active", "suspended"} /\ u.verified \in BOOLEAN
      /\ u = [status |-> u.status, version |-> u.version,
              verified |-> u.verified, password |-> u.password]
  BY <1>1, UserColumns
<1>3. CASE request[r].op = "google"
  BY <1>1, <1>2, <1>3, GoogleColumns DEF Written, Admitted
<1>4. CASE request[r].op = "verify_email"
  BY <1>1, <1>2, <1>4, VerifiedColumns DEF Written, Admitted
<1>5. CASE request[r].op = "reset_password"
  <2>1. Written(r) = ResetAccount(u)
    BY <1>5 DEF Written
  <2>2. ResetAccount(u) \in UserRow
    BY <1>1, AccountsTyped
  <2>3. ResetAccount(u).verified \in BOOLEAN
    BY <2>2, UserColumns
  <2>4. u.status # "absent"
    BY <1>5 DEF Admitted
  <2> QED
    BY <1>1, <1>2, <2>1, <2>3, <2>4, ResetColumns
<1>6. CASE request[r].op = "change_password"
  <2>1. Written(r) = [u EXCEPT !.version = u.version + 1]
    BY <1>6 DEF Written
  <2>2. Written(r).status = u.status /\ Written(r).verified = u.verified
    BY <2>1, <1>2
  <2> QED
    BY <1>1, <1>2, <1>6, <2>2 DEF Admitted
<1>7. CASE request[r].op = "suspend"
  <2>1. Written(r) = [u EXCEPT !.status = "suspended", !.version = u.version + 1]
    BY <1>7 DEF Written
  <2>2. Written(r).status = "suspended" /\ Written(r).verified = u.verified
    BY <2>1, <1>2
  <2> QED
    BY <1>1, <1>2, <2>2
<1>8. CASE request[r].op = "restore"
  <2>1. Written(r) = [u EXCEPT !.status = "active"]
    BY <1>8 DEF Written
  <2>2. Written(r).status = "active" /\ Written(r).verified = u.verified
    BY <2>1, <1>2
  <2> QED
    BY <1>1, <1>2, <1>8, <2>2
<1> QED
  BY <1>1, <1>3, <1>4, <1>5, <1>6, <1>7, <1>8

\* After a commit there is an account, and an address that was verified still is.
LEMMA CommitKeeps ==
  ASSUME SessionTypeOK, SessionInv, NEW r \in Requests, Commit(r)
  PROVE  user'.status # "absent" /\ (user.verified => user'.verified)
<1>1. request[r] # NoRequest /\ Admitted(r)
  BY Writes DEF SessionInv, InFlight
<1>2. CASE request[r].op = "register"
  BY <1>2, Writes DEF SessionInv, Unused
<1>3. CASE request[r].op \in {"login", "refresh"}
  BY <1>1, <1>3, Writes DEF Admitted
<1>4. CASE request[r].op \notin {"register", "login", "refresh"}
  <2>1. /\ user' = Flushed(r, Written(r))
        /\ request[r].old \in UserRow
        /\ request[r].old.verified => Written(r).verified
        /\ Written(r).status # "absent"
        /\ Written(r).verified \in BOOLEAN
    BY <1>1, <1>4, Writes, WrittenKeeps
  <2>2. /\ user'.status = Column(user.status, request[r].old.status, Written(r).status)
        /\ user'.verified = Column(user.verified, request[r].old.verified, Written(r).verified)
    BY <2>1 DEF Flushed
  <2>3. request[r].old.verified \in BOOLEAN /\ user.verified \in BOOLEAN
    BY <2>1, UserColumns DEF SessionTypeOK
  <2>4. user'.status # "absent"
    BY <1>1, <2>1, <2>2 DEF Column, Admitted
  <2>5. user.verified => user'.verified
    BY <2>1, <2>2, <2>3 DEF Column
  <2> QED
    BY <2>4, <2>5
<1> QED
  BY <1>2, <1>3, <1>4

\* Those in flight after a commit or a logout hold what they held, as overtaken.
LEMMA OthersKeep ==
  ASSUME SessionTypeOK, SessionInv,
         \A x \in Requests : request'[x] # NoRequest =>
           request[x] # NoRequest /\ request'[x] = [request[x] EXCEPT !.stale = TRUE],
         user.status # "absent" => user'.status # "absent", user.verified => user'.verified
  PROVE  InFlight' /\ Fresh'
<1>1. SUFFICES ASSUME NEW x \in Requests, request'[x] # NoRequest
               PROVE  request'[x].stale /\ Admitted(x)'
  BY DEF InFlight, Fresh
<1>2. request[x] # NoRequest /\ request'[x] = [request[x] EXCEPT !.stale = TRUE]
  BY <1>1
<1>3. request[x] \in RequestRow /\ Admitted(x)
  BY <1>2 DEF SessionTypeOK, SessionInv, InFlight
<1>4. /\ request'[x].stale /\ request'[x].op = request[x].op /\ request'[x].old = request[x].old
      /\ request'[x].token = request[x].token
  BY <1>2, <1>3 DEF RequestRow
<1> QED
  BY <1>3, <1>4 DEF Admitted

\* There are finitely many sessions.
LEMMA UnrevokedFinite ==
  IsFiniteSet(Unrevoked) /\ Cardinality(Unrevoked) \in Nat
<1>1. Unrevoked \in SUBSET Tokens
  BY DEF Unrevoked
<1> QED
  BY <1>1, FS_Subset, FS_CardinalityType

\* A request that begins has read the account as it is.
LEMMA BeginKeeps ==
  ASSUME SessionTypeOK, SessionInv, NEW r \in Requests, Begin(r)
  PROVE  SessionInv'
<1>1. PICK op \in RequestOp, t \in Tokens \union {NoToken}, l \in Links \union {NoLink} :
        /\ Read(r, op, t, l)
        /\ op \in {"login", "refresh"} => user.status \in {"pending", "active"}
        /\ op = "google" => user.status # "suspended"
        /\ op = "register" => user.status = "absent"
        /\ op \notin {"register", "google"} => user.status # "absent"
        /\ t \in Tokens <=> op = "refresh"
        /\ t \in Tokens => t \in Unrevoked
  <2>1. \A l \in Links : link[l] # "unissued" => user.status # "absent"
    BY DEF SessionInv, Unused
  <2>2. CASE BeginRegister(r) \/ BeginLogin(r) \/ BeginGoogle(r)
    BY <2>2 DEF BeginRegister, BeginLogin, BeginGoogle
  <2>3. ASSUME NEW t \in Tokens, BeginRefresh(r, t)
        PROVE  Read(r, "refresh", t, NoLink) /\ t \in Unrevoked /\ user.status \in {"pending", "active"}
    BY <2>3 DEF BeginRefresh, Unrevoked
  <2>4. ASSUME NEW l \in Links, BeginVerifyEmail(r, l) \/ BeginResetPassword(r, l)
        PROVE  /\ Read(r, "verify_email", NoToken, l) \/ Read(r, "reset_password", NoToken, l)
               /\ user.status # "absent"
    BY <2>1, <2>4 DEF BeginVerifyEmail, BeginResetPassword
  <2>5. CASE BeginChangePassword(r) \/ BeginSuspend(r) \/ BeginRestore(r)
    BY <2>5 DEF BeginChangePassword, BeginSuspend, BeginRestore, Authenticated
  <2> QED
    BY <2>2, <2>3, <2>4, <2>5 DEF Begin
<1>2. /\ request[r] = NoRequest
      /\ request' = [request EXCEPT ![r] =
           [op |-> op, old |-> user, token |-> t, link |-> l, closing |-> {},
            ready |-> op \notin OpensSession \union EndsSessions, stale |-> FALSE]]
      /\ UNCHANGED <<user, token, link, access>>
  BY <1>1 DEF Read
<1>3. /\ request'[r].op = op /\ request'[r].old = user /\ request'[r].token = t
      /\ request'[r].closing = {} /\ ~request'[r].stale
      /\ request'[r].ready <=> op \notin OpensSession \union EndsSessions
  BY <1>2 DEF SessionTypeOK
<1>4. \A x \in Requests \ {r} : request'[x] = request[x]
  BY <1>2 DEF SessionTypeOK
<1>5. Unrevoked' = Unrevoked
  BY <1>2 DEF Unrevoked
<1>6. Unused'
  BY <1>2, <1>5 DEF Unused, SessionInv
<1>7. InFlight'
  <2>1. Admitted(r)'
    BY <1>1, <1>2, <1>3 DEF Admitted
  <2>2. \A x \in Requests \ {r} : request'[x] # NoRequest => Admitted(x)'
    BY <1>2, <1>4 DEF SessionInv, InFlight, Admitted
  <2> QED
    BY <2>1, <2>2 DEF InFlight
<1>8. Fresh'
  <2>1. Current(r)' /\ Pruning(r)'
    BY <1>1, <1>2, <1>3, <1>5 DEF Current, Pruning
  <2>2. \A x \in Requests \ {r} : request'[x] # NoRequest /\ ~request'[x].stale => Current(x)' /\ Pruning(x)'
    BY <1>2, <1>4, <1>5 DEF SessionInv, Fresh, Current, Pruning
  <2> QED
    BY <2>1, <2>2 DEF Fresh
<1> QED
  BY <1>6, <1>7, <1>8 DEF SessionInv

\* A request that reads the sessions it closes has read them as they are.
LEMMA ClosingKeeps ==
  ASSUME SessionTypeOK, SessionInv, NEW r \in Requests, PruneSessions(r) \/ RevokeAll(r)
  PROVE  SessionInv'
<1>1. /\ request[r] \in RequestRow /\ request[r] # NoRequest
      /\ UNCHANGED <<user, token, link, access>>
  BY DEF PruneSessions, RevokeAll, SessionTypeOK
<1>2. PICK S \in SUBSET Unrevoked :
        /\ request' = [request EXCEPT ![r] = [request[r] EXCEPT !.closing = S, !.ready = TRUE]]
        /\ request[r].op \in OpensSession => Pruned(S)
        /\ request[r].op \in EndsSessions => S = Unrevoked
  <2>1. CASE PruneSessions(r)
    <3>1. PICK S \in SUBSET Unrevoked :
            Pruned(S) /\ request' = [request EXCEPT ![r].closing = S, ![r].ready = TRUE]
      BY <2>1 DEF PruneSessions
    <3>2. request' = [request EXCEPT ![r] = [request[r] EXCEPT !.closing = S, !.ready = TRUE]]
      BY <3>1, <1>1 DEF SessionTypeOK, RequestRow
    <3> QED
      BY <2>1, <3>1, <3>2 DEF PruneSessions
  <2>2. CASE RevokeAll(r)
    <3>1. request' = [request EXCEPT ![r] = [request[r] EXCEPT !.closing = Unrevoked, !.ready = TRUE]]
      BY <2>2, <1>1 DEF RevokeAll, SessionTypeOK, RequestRow
    <3> QED
      BY <2>2, <3>1 DEF RevokeAll
  <2> QED
    BY <2>1, <2>2
<1>3. /\ request'[r].op = request[r].op /\ request'[r].old = request[r].old
      /\ request'[r].token = request[r].token /\ request'[r].stale = request[r].stale
      /\ request'[r].closing = S
  BY <1>1, <1>2 DEF SessionTypeOK, RequestRow
<1>4. \A x \in Requests \ {r} : request'[x] = request[x]
  BY <1>2 DEF SessionTypeOK
<1>5. Unrevoked' = Unrevoked
  BY <1>1 DEF Unrevoked
<1>6. Unused'
  BY <1>1, <1>5 DEF Unused, SessionInv
<1>7. InFlight'
  BY <1>1, <1>3, <1>4 DEF SessionInv, InFlight, Admitted
<1>8. Fresh'
  <2>1. Pruned(S) => Cardinality(Unrevoked) <= MaxSessions + Cardinality(S)
    <3>1. IsFiniteSet(S) /\ Cardinality(S) \in Nat
      BY UnrevokedFinite, FS_Subset, FS_CardinalityType
    <3> QED
      BY <3>1, UnrevokedFinite DEF Pruned
  <2>2. ASSUME ~request'[r].stale PROVE Current(r)' /\ Pruning(r)'
    <3>1. Current(r) /\ Pruning(r)
      BY <1>1, <1>3, <2>2 DEF SessionInv, Fresh
    <3>2. Current(r)'
      BY <3>1, <1>1, <1>2, <1>3, <1>5 DEF Current
    <3>3. Pruning(r)'
      BY <1>2, <1>3, <1>5, <2>1 DEF Pruning
    <3> QED
      BY <3>2, <3>3
  <2>3. \A x \in Requests \ {r} : request'[x] # NoRequest /\ ~request'[x].stale => Current(x)' /\ Pruning(x)'
    BY <1>1, <1>4, <1>5 DEF SessionInv, Fresh, Current, Pruning
  <2> QED
    BY <2>2, <2>3 DEF Fresh
<1> QED
  BY <1>6, <1>7, <1>8 DEF SessionInv

\* SessionInv is inductive.
LEMMA SessionInvStep ==
  ASSUME SessionTypeOK, SessionInv, [SessionNext]_sessionVars
  PROVE  SessionInv'
<1>1. CASE UNCHANGED sessionVars
  BY <1>1 DEF sessionVars, SessionInv, Unused, InFlight, Fresh, Admitted, Current, Pruning, Unrevoked
<1>2. CASE Resend \/ Forgot
  <2>1. user.status # "absent" /\ UNCHANGED <<user, token, access, request>>
    BY <1>2 DEF Resend, Forgot, Authenticated
  <2> QED
    BY <2>1 DEF SessionInv, Unused, InFlight, Fresh, Admitted, Current, Pruning, Unrevoked
<1>3. ASSUME NEW t \in Tokens, Logout(t) PROVE SessionInv'
  <2>1. /\ UNCHANGED <<user, link, access>> /\ token' = [token EXCEPT ![t] = "revoked"]
        /\ \A x \in Requests : request'[x] # NoRequest =>
             request[x] # NoRequest /\ request'[x] = [request[x] EXCEPT !.stale = TRUE]
    BY <1>3 DEF Logout
  <2>2. InFlight' /\ Fresh'
    BY <2>1, OthersKeep
  <2>3. Unrevoked' \subseteq Unrevoked
    BY <2>1 DEF Unrevoked, SessionTypeOK
  <2> QED
    BY <2>1, <2>2, <2>3 DEF SessionInv, Unused
<1>4. ASSUME NEW r \in Requests, Begin(r) PROVE SessionInv'
  BY <1>4, BeginKeeps
<1>5. ASSUME NEW r \in Requests, PruneSessions(r) \/ RevokeAll(r) PROVE SessionInv'
  BY <1>5, ClosingKeeps
<1>6. ASSUME NEW r \in Requests, Commit(r) PROVE SessionInv'
  <2>1. user'.status # "absent" /\ (user.verified => user'.verified) /\ Done(r)
    BY <1>6, CommitKeeps, Writes
  <2>2. \A x \in Requests : request'[x] # NoRequest =>
          request[x] # NoRequest /\ request'[x] = [request[x] EXCEPT !.stale = TRUE]
    BY <2>1 DEF Done
  <2>3. InFlight' /\ Fresh'
    BY <2>1, <2>2, OthersKeep
  <2> QED
    BY <2>1, <2>3 DEF SessionInv, Unused
<1>7. ASSUME NEW r \in Requests, Abort(r) \/ \E op \in {"register", "google"} : Lost(r, op)
      PROVE  SessionInv'
  <2>1. request' = [request EXCEPT ![r] = NoRequest] /\ UNCHANGED <<user, token, link, access>>
    BY <1>7 DEF Abort, Lost
  <2>2. \A x \in Requests : request'[x] # NoRequest => request'[x] = request[x]
    BY <2>1 DEF SessionTypeOK
  <2>3. Unrevoked' = Unrevoked
    BY <2>1 DEF Unrevoked
  <2>4. Unused'
    BY <2>1, <2>3 DEF SessionInv, Unused
  <2>5. InFlight'
    BY <2>1, <2>2 DEF SessionInv, InFlight, Admitted
  <2>6. Fresh'
    BY <2>1, <2>2, <2>3 DEF SessionInv, Fresh, Current, Pruning
  <2> QED
    BY <2>4, <2>5, <2>6 DEF SessionInv
<1> QED
  BY <1>1, <1>2, <1>3, <1>4, <1>5, <1>6, <1>7 DEF SessionNext

\* SessionInv holds in every state.
LEMMA SessionInvariant == SessionSpec => [](SessionTypeOK /\ SessionInv)
<1>1. SessionInit => SessionInv
  BY DEF SessionInit, NoUser, SessionInv, Unused, InFlight, Fresh, Unrevoked
<1>2. SessionTypeOK /\ SessionInv /\ [SessionNext]_sessionVars => SessionInv'
  BY SessionInvStep
<1> QED
  BY <1>1, <1>2, SessionsTyped, PTL DEF SessionSpec

\* A request that no commit has overtaken remembers the account and the sessions as they are,
\* for any number of requests in flight.
THEOREM ReadsAreFresh == SessionSpec => []FreshReads
<1>1. SessionInv => FreshReads
  BY DEF SessionInv, Fresh, FreshReads
<1> QED
  BY <1>1, SessionInvariant, PTL
-----------------------------------------------------------------------------
(* What a commit writes.                                                   *)

\* A request that does not write the row of users leaves the whole of it alone.
LEMMA ChangesUser ==
  ASSUME SessionTypeOK, SessionInv, [SessionNext]_sessionVars, user' # user
  PROVE  \E r \in Requests : Commit(r)
  BY DEF SessionNext, sessionVars, Resend, Forgot, Logout, Begin, BeginRegister, BeginLogin, BeginGoogle,
     BeginRefresh, BeginVerifyEmail, BeginResetPassword, BeginChangePassword, BeginSuspend, BeginRestore,
     Read, PruneSessions, RevokeAll, Lost, Abort

\* An account that becomes active has a verified address, or an administrator has restored it,
\* whichever requests write its columns meanwhile.
THEOREM ActiveMeansVerified == SessionSpec => ActiveIsVerified
<1>1. ASSUME SessionTypeOK, SessionInv, [SessionNext]_sessionVars,
             user.status # "active", user'.status = "active"
      PROVE  user'.verified \/ \E r \in Requests : Ready(r, "restore") /\ request'[r] = NoRequest
  <2>1. PICK r \in Requests : Commit(r)
    BY <1>1, ChangesUser
  <2>2. request[r] # NoRequest /\ Admitted(r) /\ request[r].ready /\ Done(r)
    BY <1>1, <2>1, Writes DEF SessionInv, InFlight
  <2>3. request[r].op \notin {"register", "login", "refresh"} /\ user' = Flushed(r, Written(r))
    BY <1>1, <2>1, Writes
  <2>4. /\ user'.status = Column(user.status, request[r].old.status, Written(r).status)
        /\ user'.verified = Column(user.verified, request[r].old.verified, Written(r).verified)
    BY <2>3 DEF Flushed
  <2>5. Written(r).status # request[r].old.status /\ Written(r).status = "active"
    BY <1>1, <2>4 DEF Column
  <2>6. CASE request[r].op = "restore"
    BY <2>2, <2>6 DEF Ready, Done
  <2>7. CASE request[r].op # "restore"
    <3>1. Written(r).verified
      BY <1>1, <2>2, <2>3, <2>5, <2>7, WrittenKeeps
    <3>2. request[r].old.verified => user.verified
      BY <2>2 DEF Admitted
    <3>3. request[r].old.verified \in BOOLEAN /\ Written(r).verified \in BOOLEAN
      BY <1>1, <2>2, <2>3, WrittenKeeps, UserColumns
    <3>4. user'.verified = (IF Written(r).verified # request[r].old.verified
                            THEN Written(r).verified ELSE user.verified)
      BY <2>4 DEF Column
    <3> QED
      BY <3>1, <3>2, <3>3, <3>4
  <2> QED
    BY <2>6, <2>7
<1>2. SessionTypeOK /\ SessionInv /\ [SessionNext]_sessionVars =>
        [user.status # "active" /\ user'.status = "active" =>
           user'.verified \/ \E r \in Requests : Ready(r, "restore") /\ request'[r] = NoRequest]_sessionVars
  BY <1>1
<1> QED
  BY <1>2, SessionInvariant, PTL DEF SessionSpec, ActiveIsVerified

-----------------------------------------------------------------------------
(* What a commit leaves of the sessions.                                   *)

Closed == {t \in Tokens : token[t] = "revoked"}

\* Opening a session adds one that was never issued, and closes what the request had read.
LEMMA OpenedSessions ==
  ASSUME SessionTypeOK, NEW r \in Requests, request[r] # NoRequest, Current(r),
         NEW t \in Tokens, OpenSession(r, t)
  PROVE  LET kept == Unrevoked \ (request[r].closing \union {request[r].token})
         IN  /\ t \notin Unrevoked \union Closed
             /\ Unrevoked' = kept \union {t}
             /\ Closed' = Closed \union (Unrevoked \ kept)
<1>1. \A x \in Tokens : token'[x] = CASE x = t -> "live"
                                       [] x \in request[r].closing \union {request[r].token} -> "revoked"
                                       [] OTHER -> token[x]
  BY DEF OpenSession
<1>2. token[t] = "unissued"
  BY DEF OpenSession
<1>3. \A x \in Tokens : x \in request[r].closing \union {request[r].token} => x \in Unrevoked
  BY DEF Current
<1> QED
  BY <1>1, <1>2, <1>3 DEF Unrevoked, Closed

\* The requests a commit ends: it alone.
LEMMA OnlyOneEnds ==
  ASSUME SessionTypeOK, NEW r \in Requests, Done(r), NEW x \in Requests,
         request[x] # NoRequest, request'[x] = NoRequest
  PROVE  x = r
<1>1. SUFFICES ASSUME x # r PROVE FALSE
  OBVIOUS
<1>2. request'[x] = [request[x] EXCEPT !.stale = TRUE]
  BY <1>1 DEF Done
<1>3. request[x] \in RequestRow
  BY DEF SessionTypeOK
<1>4. [request[x] EXCEPT !.stale = TRUE] \in RequestRow
  BY <1>3, RequestsTyped
<1> QED
  BY <1>2, <1>4

\* A lone commit writes what the handler made of the account.
LEMMA LoneFlush ==
  ASSUME NEW r \in Requests, NEW new \in UserRow, request[r].old = user
  PROVE  Flushed(r, new) = new
<1>1. Flushed(r, new) = [status |-> new.status, version |-> new.version,
                         verified |-> new.verified, password |-> new.password]
  BY DEF Flushed, Column
<1> QED
  BY <1>1, UserColumns
\* The sessions a lone commit leaves open: one more than MaxSessions when it opens one.
LEMMA LoneOpening ==
  ASSUME SessionTypeOK, SessionInv, NEW r \in Requests, request[r] # NoRequest,
         ~request[r].stale, request[r].ready, request[r].op \in OpensSession,
         NEW t \in Tokens, OpenSession(r, t)
  PROVE  Cardinality(Unrevoked') <= MaxSessions + 1
<1> DEFINE C == request[r].closing
           kept == Unrevoked \ (C \union {request[r].token})
<1>1. Current(r) /\ Pruning(r)
  BY DEF SessionInv, Fresh
<1>2. C \subseteq Unrevoked /\ Cardinality(Unrevoked) <= MaxSessions + Cardinality(C)
  BY <1>1 DEF Current, Pruning
<1>3. /\ IsFiniteSet(Unrevoked) /\ Cardinality(Unrevoked) \in Nat
      /\ IsFiniteSet(C) /\ Cardinality(C) \in Nat
  BY <1>2, UnrevokedFinite, FS_Subset, FS_CardinalityType
<1>4. /\ IsFiniteSet(Unrevoked \ C)
      /\ Cardinality(Unrevoked \ C) = Cardinality(Unrevoked) - Cardinality(Unrevoked \intersect C)
  BY <1>3, FS_Difference
<1>5. Unrevoked \intersect C = C
  BY <1>2
<1>6. Cardinality(Unrevoked \ C) <= MaxSessions
  <2>1. Cardinality(Unrevoked \ C) = Cardinality(Unrevoked) - Cardinality(C)
    BY <1>4, <1>5, Zenon
  <2> HIDE DEF C
  <2> QED
    BY <2>1, <1>2, <1>3
<1>7. IsFiniteSet(kept) /\ Cardinality(kept) <= Cardinality(Unrevoked \ C)
  <2>1. kept \subseteq Unrevoked \ C
    OBVIOUS
  <2> QED
    BY <2>1, <1>4, FS_Subset
<1>8. Unrevoked' = kept \union {t} /\ t \notin kept
  BY <1>1, OpenedSessions
<1>9. Cardinality(kept \union {t}) = Cardinality(kept) + 1
  BY <1>7, <1>8, FS_AddElement
<1>10. Cardinality(kept) \in Nat /\ Cardinality(Unrevoked \ C) \in Nat
  BY <1>4, <1>7, FS_CardinalityType
<1> QED
  BY <1>6, <1>7, <1>8, <1>9, <1>10

\* The commits that open a session, and what the others leave of them.
LEMMA SessionsWritten ==
  ASSUME SessionTypeOK, NEW r \in Requests, Commit(r)
  PROVE  /\ request[r].op \in OpensSession => \E t \in Tokens : OpenSession(r, t)
         /\ request[r].op \in EndsSessions => CloseSessions(r)
         /\ request[r].op \in {"verify_email", "restore"} => token' = token
         /\ request[r].op = "suspend" =>
              token' = [t \in Tokens |-> IF token[t] = "live" THEN "outlawed" ELSE token[t]]
  BY DEF Commit, Register, Login, Google, Refresh, VerifyEmail, ResetPassword, ChangePassword,
     Suspend, Restore, Ready

\* Sessions are only written by commits and by signing out.
LEMMA ChangesToken ==
  ASSUME SessionTypeOK, SessionInv, [SessionNext]_sessionVars, token' # token
  PROVE  \/ \E t \in Tokens : Logout(t)
         \/ \E r \in Requests : Commit(r)
  BY DEF SessionNext, sessionVars, Resend, Forgot, Begin, BeginRegister, BeginLogin, BeginGoogle,
     BeginRefresh, BeginVerifyEmail, BeginResetPassword, BeginChangePassword, BeginSuspend, BeginRestore,
     Read, PruneSessions, RevokeAll, Lost, Abort

\* An account has at most one session more than MAX_ACTIVE_SESSIONS once a request that no
\* other has overtaken opened one, for any number of requests in flight.
THEOREM SessionsAreBounded == SessionSpec => SessionsBounded
<1>1. ASSUME SessionTypeOK, SessionInv, [SessionNext]_sessionVars, token' # token
      PROVE  Unrevoked' \subseteq Unrevoked \/ Cardinality(Unrevoked') <= MaxSessions + 1 \/ Overtaken
  <2>1. ASSUME NEW t \in Tokens, Logout(t) PROVE Unrevoked' \subseteq Unrevoked
    BY <1>1, <2>1 DEF Logout, Unrevoked, SessionTypeOK
  <2>2. ASSUME NEW r \in Requests, Commit(r)
        PROVE  Unrevoked' \subseteq Unrevoked \/ Cardinality(Unrevoked') <= MaxSessions + 1 \/ Overtaken
    <3>1. request[r] # NoRequest /\ request[r].ready /\ Done(r) /\ request[r].op \in RequestOp
      BY <1>1, <2>2, Writes DEF SessionTypeOK, RequestRow
    <3>2. CASE request[r].stale
      BY <3>1, <3>2 DEF Overtaken, Done
    <3>3. CASE ~request[r].stale /\ request[r].op \in OpensSession
      BY <1>1, <2>2, <3>1, <3>3, SessionsWritten, LoneOpening
    <3>4. CASE request[r].op \in EndsSessions
      <4>1. CloseSessions(r)
        BY <1>1, <2>2, <3>4, SessionsWritten
      <4> QED
        BY <4>1 DEF CloseSessions, Unrevoked
    <3>5. CASE request[r].op \in {"verify_email", "restore"}
      <4>1. token' = token
        BY <1>1, <2>2, <3>5, SessionsWritten
      <4> QED
        BY <4>1 DEF Unrevoked
    <3>6. CASE request[r].op = "suspend"
      <4>1. token' = [t \in Tokens |-> IF token[t] = "live" THEN "outlawed" ELSE token[t]]
        BY <1>1, <2>2, <3>6, SessionsWritten
      <4> QED
        BY <4>1 DEF Unrevoked
    <3> QED
      BY <3>1, <3>2, <3>3, <3>4, <3>5, <3>6
  <2> QED
    BY <1>1, <2>1, <2>2, ChangesToken
<1>2. SessionTypeOK /\ SessionInv /\ [SessionNext]_sessionVars =>
        [Unrevoked' \subseteq Unrevoked \/ Cardinality(Unrevoked') <= MaxSessions + 1 \/ Overtaken]_token
  BY <1>1
<1> QED
  BY <1>2, SessionInvariant, PTL DEF SessionSpec, SessionsBounded
-----------------------------------------------------------------------------
(* The promises of Account.                                                *)

\* Signing out closes one session.
LEMMA LogoutPromised ==
  ASSUME SessionTypeOK, SessionInv, NEW t \in Tokens, Logout(t)
  PROVE  Promise!Step(Tokens) /\ Exchanged
<1>1. UNCHANGED user /\ t \in Unrevoked /\ token' = [token EXCEPT ![t] = "revoked"]
  BY DEF Logout
<1>2. /\ Unrevoked' = Unrevoked \ {t}
      /\ {x \in Tokens : token[x] = "revoked"}' = {x \in Tokens : token[x] = "revoked"} \union {t}
  BY <1>1 DEF Unrevoked, SessionTypeOK
<1>3. Promise!SignOut(t)
  BY <1>1, <1>2 DEF Promise!SignOut, Promise!Sessions
<1>4. \A x \in Requests : request[x] # NoRequest => request'[x] # NoRequest
  <2>1. ASSUME NEW x \in Requests, request[x] # NoRequest PROVE request'[x] # NoRequest
    <3>1. [request[x] EXCEPT !.stale = TRUE] \in RequestRow
      BY <2>1, RequestsTyped DEF SessionTypeOK
    <3> QED
      BY <2>1, <3>1 DEF Logout
  <2> QED
    BY <2>1
<1>5. Exchanged
  BY <1>4 DEF Exchanged, Ready
<1> QED
  BY <1>3, <1>5 DEF Promise!Step

\* A commit that opens a session signs up, signs in or exchanges a token.
LEMMA OpeningPromised ==
  ASSUME SessionTypeOK, SessionInv, NEW r \in Requests, Commit(r),
         ~request[r].stale, request[r].op \in OpensSession
  PROVE  /\ Promise!Step(Tokens)
         /\ request[r].op = "refresh" => \E t \in Tokens : Promise!Rotate(request[r].token, t)
<1> DEFINE old == request[r].old
           kept == Unrevoked \ (request[r].closing \union {request[r].token})
<1>1. request[r] # NoRequest /\ Current(r) /\ Admitted(r) /\ old = user /\ user \in UserRow
  BY Writes DEF SessionInv, InFlight, Fresh, Current, SessionTypeOK
<1>2. PICK t \in Tokens : OpenSession(r, t)
  BY SessionsWritten
<1>3. /\ t \notin Unrevoked \union Closed
      /\ Unrevoked' = kept \union {t}
      /\ Closed' = Closed \union (Unrevoked \ kept)
  BY <1>1, <1>2, OpenedSessions
<1> HIDE DEF kept
<1>4. kept \subseteq Unrevoked /\ request[r].token \notin kept
  BY DEF kept
<1>5. Promise!Sessions(kept, {t})
  BY <1>3, <1>4 DEF Promise!Sessions, Closed
<1>6. user.status = "absent" => kept = {} /\ user.version = 0
  BY <1>4 DEF SessionInv, Unused
<1>7. CASE request[r].op = "register"
  <2>1. user.status = "absent" /\ user'.status = "pending" /\ user'.version = user.version
    BY <1>7, <1>6, Writes
  <2>2. Promise!SignUp(t)
    BY <2>1, <1>5, <1>6 DEF Promise!SignUp
  <2> QED
    BY <1>7, <2>2 DEF Promise!Step
<1>8. CASE request[r].op = "login"
  <2>1. user' = user /\ user.status \in {"pending", "active"}
    BY <1>1, <1>8, Writes DEF Admitted
  <2>2. Promise!SignIn(t)
    BY <2>1, <1>4, <1>5 DEF Promise!SignIn, Promise!Verified
  <2> QED
    BY <1>8, <2>2 DEF Promise!Step
<1>9. CASE request[r].op = "refresh"
  <2>1. user' = user /\ user.status \in {"pending", "active"} /\ request[r].token \in Unrevoked
    BY <1>1, <1>9, Writes DEF Admitted, Current
  <2>2. Promise!Rotate(request[r].token, t)
    BY <2>1, <1>4, <1>5 DEF Promise!Rotate
  <2> QED
    BY <2>1, <2>2 DEF Promise!Step, Unrevoked
<1>10. CASE request[r].op = "google"
  <2>1. user' = GoogleAccount(user) /\ user.status # "suspended"
    BY <1>1, <1>10, Writes, LoneFlush, AccountsTyped DEF Written, Admitted
  <2>2. /\ user'.version = user.version
        /\ user.status \in {"absent", "pending"} => user'.status = "active"
        /\ user.status \notin {"absent", "pending"} => user'.status = user.status
        /\ user.status \in {"absent", "pending", "active"}
    BY <1>1, <2>1, GoogleColumns, UserColumns
  <2>3. CASE user.status = "absent"
    <3>1. Promise!SignUp(t)
      BY <2>2, <2>3, <1>5, <1>6 DEF Promise!SignUp
    <3> QED
      BY <1>10, <3>1 DEF Promise!Step
  <2>4. CASE user.status # "absent"
    <3>1. Promise!SignIn(t)
      BY <2>2, <2>4, <1>4, <1>5 DEF Promise!SignIn, Promise!Verified
    <3> QED
      BY <1>10, <3>1 DEF Promise!Step
  <2> QED
    BY <2>3, <2>4
<1> QED
  BY <1>7, <1>8, <1>9, <1>10

\* A commit that opens none verifies the address, replaces the password, suspends or restores.
LEMMA OtherPromised ==
  ASSUME SessionTypeOK, SessionInv, NEW r \in Requests, Commit(r),
         ~request[r].stale, request[r].op \in RequestOp \ OpensSession
  PROVE  Promise!Step(Tokens) \/ UNCHANGED Promise!accountVars
<1>1. /\ request[r] # NoRequest /\ request[r].ready /\ Current(r) /\ Admitted(r)
      /\ request[r].old = user /\ user \in UserRow
  BY Writes DEF SessionInv, InFlight, Fresh, Current, SessionTypeOK
<1>2. user' = Flushed(r, Written(r))
  BY Writes
<1>3. CASE request[r].op = "verify_email"
  <2>1. user' = VerifiedAccount(user)
    BY <1>1, <1>2, <1>3, LoneFlush, AccountsTyped DEF Written
  <2>2. /\ user'.version = user.version /\ token' = token
        /\ user.status = "pending" => user'.status = "active"
        /\ user.status # "pending" => user'.status = user.status
    BY <1>1, <1>3, <2>1, VerifiedColumns, SessionsWritten
  <2>3. /\ Unrevoked' = Unrevoked
        /\ {x \in Tokens : token[x] = "revoked"}' = {x \in Tokens : token[x] = "revoked"}
    BY <2>2 DEF Unrevoked
  <2> QED
    BY <2>2, <2>3 DEF Promise!Step, Promise!VerifyEmail, Promise!accountVars
<1>4. CASE request[r].op \in EndsSessions
  <2>1. /\ user'.version = user.version + 1
        /\ user'.status = user.status \/ (user.status = "pending" /\ user'.status = "active")
    <3>1. CASE request[r].op = "reset_password"
      <4>1. user' = ResetAccount(user)
        BY <1>1, <1>2, <3>1, LoneFlush, AccountsTyped DEF Written
      <4> QED
        BY <1>1, <4>1, ResetColumns
    <3>2. CASE request[r].op = "change_password"
      <4>1. user' = [user EXCEPT !.version = @ + 1]
        BY <1>1, <1>2, <3>2, LoneFlush, AccountsTyped DEF Written
      <4> QED
        BY <1>1, <4>1, UserColumns DEF UserRow
    <3> QED
      BY <1>4, <3>1, <3>2
  <2>2. token' = [x \in Tokens |-> IF x \in Unrevoked THEN "revoked" ELSE token[x]]
    BY <1>1, <1>4, SessionsWritten DEF CloseSessions, Current
  <2>3. /\ Unrevoked' = {}
        /\ {x \in Tokens : token[x] = "revoked"}' = {x \in Tokens : token[x] = "revoked"} \union Unrevoked
    BY <2>2 DEF Unrevoked
  <2>4. Promise!NewPassword
    BY <2>1, <2>3 DEF Promise!NewPassword, Promise!Verified, Promise!Sessions
  <2> QED
    BY <2>4 DEF Promise!Step
<1>5. CASE request[r].op = "suspend"
  <2>1. user' = [user EXCEPT !.status = "suspended", !.version = @ + 1]
    BY <1>1, <1>2, <1>5, LoneFlush, AccountsTyped DEF Written
  <2>2. user'.status = "suspended" /\ user'.version = user.version + 1 /\ user.status # "absent"
    BY <1>1, <1>5, <2>1 DEF UserRow, Admitted
  <2>3. token' = [t \in Tokens |-> IF token[t] = "live" THEN "outlawed" ELSE token[t]]
    BY <1>5, SessionsWritten
  <2>4. /\ Unrevoked' = Unrevoked
        /\ {x \in Tokens : token[x] = "revoked"}' = {x \in Tokens : token[x] = "revoked"}
    BY <2>3 DEF Unrevoked
  <2> QED
    BY <2>2, <2>4 DEF Promise!Step, Promise!Suspend
<1>6. CASE request[r].op = "restore"
  <2>1. user' = [user EXCEPT !.status = "active"]
    BY <1>1, <1>2, <1>6, LoneFlush, AccountsTyped DEF Written
  <2>2. /\ user'.status = "active" /\ user'.version = user.version /\ user.status # "absent"
        /\ token' = token
    BY <1>1, <1>6, <2>1, SessionsWritten DEF UserRow, Admitted
  <2>3. /\ Unrevoked' = Unrevoked
        /\ {x \in Tokens : token[x] = "revoked"}' = {x \in Tokens : token[x] = "revoked"}
    BY <2>2 DEF Unrevoked
  <2> QED
    BY <2>2, <2>3 DEF Promise!Step, Promise!Restore
<1> QED
  BY <1>3, <1>4, <1>5, <1>6

\* Every commit of a request that no other has overtaken keeps the promises of Account, for
\* any number of requests, tokens and sessions: the refinement the run checks on two.
THEOREM PromisesKept == SessionSpec => KeepsPromises
<1>1. ASSUME SessionTypeOK, SessionInv, [SessionNext]_sessionVars
      PROVE  UNCHANGED Promise!accountVars \/ Overtaken \/ (Promise!Step(Tokens) /\ Exchanged)
  <2>1. CASE user' = user /\ token' = token
    BY <2>1 DEF Promise!accountVars, Unrevoked
  <2>2. ASSUME NEW t \in Tokens, Logout(t) PROVE Promise!Step(Tokens) /\ Exchanged
    BY <1>1, <2>2, LogoutPromised
  <2>3. ASSUME NEW r \in Requests, Commit(r), ~Overtaken
        PROVE  UNCHANGED Promise!accountVars \/ (Promise!Step(Tokens) /\ Exchanged)
    <3>1. request[r] # NoRequest /\ Done(r) /\ request[r].op \in RequestOp
      BY <1>1, <2>3, Writes DEF SessionTypeOK, RequestRow
    <3>2. ~request[r].stale
      BY <2>3, <3>1 DEF Overtaken, Done
    <3>3. \A x \in Requests : request[x] # NoRequest /\ request'[x] = NoRequest => x = r
      BY <1>1, <3>1, OnlyOneEnds
    <3>4. CASE request[r].op \in OpensSession
      <4>1. /\ Promise!Step(Tokens)
            /\ request[r].op = "refresh" => \E t \in Tokens : Promise!Rotate(request[r].token, t)
        BY <1>1, <2>3, <3>2, <3>4, OpeningPromised
      <4>2. Exchanged
        BY <3>3, <4>1 DEF Exchanged, Ready
      <4> QED
        BY <4>1, <4>2
    <3>5. CASE request[r].op \notin OpensSession
      <4>1. Promise!Step(Tokens) \/ UNCHANGED Promise!accountVars
        BY <1>1, <2>3, <3>1, <3>2, <3>5, OtherPromised
      <4>2. Exchanged
        BY <3>3, <3>5 DEF Exchanged, Ready
      <4> QED
        BY <4>1, <4>2
    <3> QED
      BY <3>4, <3>5
  <2> QED
    BY <1>1, <2>1, <2>2, <2>3, ChangesUser, ChangesToken
<1>2. SessionTypeOK /\ SessionInv /\ [SessionNext]_sessionVars =>
        [Overtaken \/ (Promise!Step(Tokens) /\ Exchanged)]_(Promise!accountVars)
  BY <1>1
<1> QED
  BY <1>2, SessionInvariant, PTL DEF SessionSpec, KeepsPromises
-----------------------------------------------------------------------------
(* Signing out.                                                            *)

\* What keeps sessions of before a suspension from being continued, if nothing of this
\* happens: an administrator restores the account, or a request commits that another has
\* overtaken.
Undisturbed == \A r \in Requests : ~Restore(r) /\ ~(Commit(r) /\ request[r].stale)

\* While there is a session of before a suspension, the account is suspended.
OutlawInv == \A t \in Tokens : token[t] = "outlawed" => user.status = "suspended"

\* A commit that no other has overtaken, and that restores nothing, leaves the suspended
\* account suspended, and opens no session of one.
LEMMA SuspensionKept ==
  ASSUME SessionTypeOK, SessionInv, NEW r \in Requests, Commit(r), ~request[r].stale, ~Restore(r),
         user.status = "suspended"
  PROVE  user'.status = "suspended" /\ request[r].op \notin OpensSession
<1>1. request[r] # NoRequest /\ request[r].ready /\ Admitted(r) /\ Current(r)
  BY Writes DEF SessionInv, InFlight, Fresh
<1>2. request[r].old = user /\ request[r].op \in RequestOp /\ user \in UserRow
  BY <1>1 DEF Current, SessionTypeOK, RequestRow
<1>3. request[r].op \notin OpensSession
  BY <1>1, <1>2 DEF Admitted
<1>4. request[r].op # "restore"
  BY DEF Commit, Register, Login, Google, Refresh, VerifyEmail, ResetPassword, ChangePassword,
     Suspend, Ready
<1>5. Written(r).status = "suspended"
  <2>1. CASE request[r].op = "verify_email"
    BY <1>2, <2>1, VerifiedColumns DEF Written
  <2>2. CASE request[r].op = "reset_password"
    BY <1>2, <2>2, ResetColumns DEF Written
  <2>3. CASE request[r].op = "change_password"
    <3>1. Written(r) = [user EXCEPT !.version = user.version + 1]
      BY <1>2, <2>3 DEF Written
    <3> QED
      BY <1>2, <3>1, UserColumns
  <2>4. CASE request[r].op = "suspend"
    <3>1. Written(r) = [user EXCEPT !.status = "suspended", !.version = user.version + 1]
      BY <1>2, <2>4 DEF Written
    <3> QED
      BY <1>2, <3>1, UserColumns
  <2> QED
    BY <1>2, <1>3, <1>4, <2>1, <2>2, <2>3, <2>4
<1>6. user' = Flushed(r, Written(r))
  BY <1>3, Writes
<1> QED
  BY <1>2, <1>3, <1>5, <1>6 DEF Flushed, Column

\* A suspension is the only commit that outlaws a session, and the account is suspended then.
LEMMA OutlawStep ==
  ASSUME SessionTypeOK, SessionInv, OutlawInv, [SessionNext]_sessionVars, [Undisturbed]_sessionVars
  PROVE  OutlawInv'
<1>1. CASE UNCHANGED <<user, token>>
  BY <1>1 DEF OutlawInv
<1>2. ASSUME NEW t \in Tokens, Logout(t) PROVE OutlawInv'
  BY <1>2 DEF Logout, OutlawInv, SessionTypeOK
<1>3. ASSUME NEW r \in Requests, Commit(r) PROVE OutlawInv'
  <2>1. /\ request[r] # NoRequest /\ request[r] \in RequestRow /\ request[r].op \in RequestOp
        /\ Done(r)
    BY <1>3, Writes DEF SessionTypeOK, RequestRow
  <2>2. request' # request
    BY <2>1 DEF Done
  <2>3. ~request[r].stale /\ ~Restore(r)
    BY <1>3, <2>2 DEF Undisturbed, sessionVars
  <2>4. CASE \E t \in Tokens : token[t] = "outlawed"
    <3>1. user.status = "suspended"
      BY <2>4 DEF OutlawInv
    <3> QED
      BY <1>3, <2>3, <3>1, SuspensionKept DEF OutlawInv
  <2>5. CASE ~(\E t \in Tokens : token[t] = "outlawed") /\ request[r].op # "suspend"
    <3>1. \A t \in Tokens : token'[t] # "outlawed"
      BY <1>3, <2>1, <2>5, SessionsWritten DEF OpenSession, CloseSessions
    <3> QED
      BY <3>1 DEF OutlawInv
  <2>6. CASE request[r].op = "suspend"
    <3>1. request[r].old = user /\ user \in UserRow
      BY <2>1, <2>3 DEF SessionInv, Fresh, Current, SessionTypeOK
    <3>2. Written(r) = [user EXCEPT !.status = "suspended", !.version = user.version + 1]
      BY <2>6, <3>1 DEF Written
    <3>3. Written(r).status = "suspended"
      BY <3>1, <3>2, UserColumns
    <3>4. user' = Flushed(r, Written(r))
      BY <1>3, <2>6, Writes
    <3>5. user'.status = "suspended"
      BY <3>1, <3>3, <3>4 DEF Flushed, Column
    <3> QED
      BY <3>5 DEF OutlawInv
  <2> QED
    BY <2>4, <2>5, <2>6
<1> QED
  BY <1>1, <1>2, <1>3, ChangesUser, ChangesToken

\* A session of before a suspension is continued only if an administrator restores the account
\* or a request commits that another has overtaken, for any number of requests.
THEOREM SignedOutUnlessDisturbed ==
  SessionSpec /\ [][Undisturbed]_sessionVars => SignedOut
<1>1. SessionInit => OutlawInv
  BY DEF SessionInit, OutlawInv
<1>2. SessionTypeOK /\ SessionInv /\ OutlawInv /\ [SessionNext]_sessionVars /\ [Undisturbed]_sessionVars
        => OutlawInv'
  BY OutlawStep
<1>3. ASSUME SessionTypeOK, SessionInv, OutlawInv, [SessionNext]_sessionVars, [Undisturbed]_sessionVars,
             NEW r \in Requests, Ready(r, "refresh"), token' # token, request'[r] = NoRequest
      PROVE  token[request[r].token] # "outlawed"
  <2>1. PICK x \in Requests : Commit(x)
    <3>1. ASSUME NEW t \in Tokens, Logout(t) PROVE FALSE
      <4>1. request[r] # NoRequest /\ request[r] \in RequestRow
        BY <1>3 DEF Ready, SessionTypeOK
      <4>2. request'[r] = [request[r] EXCEPT !.stale = TRUE]
        BY <3>1, <4>1 DEF Logout
      <4> QED
        BY <1>3, <4>1, <4>2, RequestsTyped
    <3> QED
      BY <1>3, <3>1, ChangesToken
  <2>2. x = r
    BY <1>3, <2>1, Writes, OnlyOneEnds DEF Ready
  <2>3. request[r].op = "refresh" /\ request[r] # NoRequest
    BY <1>3 DEF Ready
  <2>4. ~request[r].stale
    BY <1>3, <2>1, <2>2 DEF Undisturbed, sessionVars
  <2>5. request[r].token \in Tokens /\ user.status \in {"pending", "active"}
    BY <1>3, <2>3, <2>4 DEF SessionInv, InFlight, Fresh, Admitted, Current
  <2> QED
    BY <1>3, <2>5 DEF OutlawInv
<1>4. SessionTypeOK /\ SessionInv /\ OutlawInv /\ [SessionNext]_sessionVars /\ [Undisturbed]_sessionVars =>
        [\A r \in Requests :
           Ready(r, "refresh") /\ token' # token /\ request'[r] = NoRequest =>
             token[request[r].token] # "outlawed"]_sessionVars
  BY <1>3
<1> QED
  BY <1>1, <1>2, <1>4, SessionInvariant, PTL DEF SessionSpec, SignedOut

HIDE DEF RequestOp, OpensSession, EndsSessions, Live

-----------------------------------------------------------------------------
(* PersonalData.                                                           *)

USE PersonalAssumption

-----------------------------------------------------------------------------
(* The calls in flight.                                                    *)

\* What a call is known to be, whatever a profile holds.
Known(x) ==
  \/ x = NoCall
  \/ \E u \in Users, j \in Jobs : x = [op |-> "save", user |-> u, job |-> j]
  \/ \E u \in Users : x = [op |-> "alert", user |-> u]
  \/ x = [f \in DOMAIN x |-> x[f]] /\ "op" \in DOMAIN x /\ x.op = "profile"

CallsKnown == call = [c \in Calls |-> call[c]] /\ \A c \in Calls : Known(call[c])

\* A commit ends one call, and leaves the others what they are for.
LEMMA FinishedKeeps ==
  ASSUME CallsKnown, NEW c \in Calls, NEW touched \in BOOLEAN, Finished(c, touched)
  PROVE  /\ CallsKnown'
         /\ call'[c] = NoCall
         /\ \A x \in Calls \ {c} : call'[x] = call[x] \/ (call[x].op = "profile" /\ call'[x].op = "profile")
<1>1. call'[c] = NoCall /\ call' = [x \in Calls |-> call'[x]]
  BY DEF Finished
<1>2. ASSUME NEW x \in Calls \ {c}
      PROVE  /\ Known(call'[x])
             /\ call'[x] = call[x] \/ (call[x].op = "profile" /\ call'[x].op = "profile")
  <2>1. CASE call'[x] = call[x]
    BY <2>1 DEF CallsKnown
  <2>2. CASE call'[x] # call[x]
    <3>1. ~Idle(x) /\ call[x].op = "profile" /\ call'[x] = [call[x] EXCEPT !.stale = TRUE]
      BY <2>2 DEF Finished
    <3>2. Known(call'[x]) /\ call'[x].op = "profile"
      <4> DEFINE old == call[x]
      <4>1. old = [f \in DOMAIN old |-> old[f]] /\ "op" \in DOMAIN old /\ old.op = "profile"
        BY <3>1 DEF CallsKnown, Known, Idle
      <4>2. call'[x] = [old EXCEPT !.stale = TRUE]
        BY <3>1
      <4> HIDE DEF old
      <4>3. call'[x] = [f \in DOMAIN old |-> IF f = "stale" THEN TRUE ELSE old[f]]
        BY <4>1, <4>2
      <4>4. "op" \in DOMAIN call'[x] /\ call'[x].op = "profile" /\ DOMAIN call'[x] = DOMAIN old
        BY <4>1, <4>3
      <4>5. call'[x] = [f \in DOMAIN call'[x] |-> call'[x][f]]
        BY <4>3
      <4> QED
        BY <4>4, <4>5 DEF Known
    <3> QED
      BY <3>1, <3>2
  <2> QED
    BY <2>1, <2>2
<1> QED
  BY <1>1, <1>2 DEF CallsKnown, Known

\* Every call is one that the handlers make.
LEMMA CallsAreKnown == PersonalSpec => []CallsKnown
<1>1. PersonalInit => CallsKnown
  BY DEF PersonalInit, CallsKnown, Known
<1>2. CallsKnown /\ [PersonalNext]_personalVars => CallsKnown'
  <2> SUFFICES ASSUME CallsKnown, [PersonalNext]_personalVars PROVE CallsKnown'
    OBVIOUS
  <2>1. CASE call' = call
    BY <2>1 DEF CallsKnown, Known
  <2>2. ASSUME NEW c \in Calls, NEW x, Known(x), call' = [call EXCEPT ![c] = x] PROVE CallsKnown'
    <3>1. \A y \in Calls : call'[y] = IF y = c THEN x ELSE call[y]
      BY <2>2 DEF CallsKnown
    <3>2. call' = [y \in Calls |-> call'[y]]
      BY <2>2 DEF CallsKnown
    <3>3. \A y \in Calls : Known(call'[y])
      <4> HIDE DEF Known
      <4> QED
        BY <2>2, <3>1 DEF CallsKnown
    <3> QED
      BY <3>2, <3>3 DEF CallsKnown
  <2>3. ASSUME NEW c \in Calls, NEW u \in Users, NEW j \in Jobs, BeginSave(c, u, j) PROVE CallsKnown'
    <3>1. Known([op |-> "save", user |-> u, job |-> j])
      BY DEF Known
    <3> QED
      BY <2>2, <2>3, <3>1 DEF BeginSave
  <2>4. ASSUME NEW c \in Calls, NEW u \in Users, BeginAlert(c, u) PROVE CallsKnown'
    <3>1. Known([op |-> "alert", user |-> u])
      BY DEF Known
    <3> QED
      BY <2>2, <2>4, <3>1 DEF BeginAlert
  <2>5. ASSUME NEW c \in Calls, NEW p \in Payloads, BeginProfile(c, p) PROVE CallsKnown'
    <3>1. Known([op |-> "profile", old |-> profile, payload |-> p, stale |-> FALSE])
      BY DEF Known
    <3> QED
      BY <2>2, <2>5, <3>1 DEF BeginProfile
  <2>6. ASSUME NEW c \in Calls, Save(c) \/ CreateAlert(c) \/ UpdateProfile(c) PROVE CallsKnown'
    BY <2>6, FinishedKeeps DEF Save, CreateAlert, UpdateProfile
  <2>7. CASE \/ \E u \in Users, j \in Jobs : Unsave(u, j)
             \/ \E u \in Users : DeleteAlert(u)
             \/ \E j \in Jobs : Report(j)
    BY <2>1, <2>7 DEF Unsave, DeleteAlert, Report
  <2> QED
    BY <2>1, <2>3, <2>4, <2>5, <2>6, <2>7
       DEF PersonalNext, ProfileNext, ListsNext, personalVars
<1> QED
  BY <1>1, <1>2, PTL DEF PersonalSpec

-----------------------------------------------------------------------------
(* The counters of a job.                                                  *)

Saves(j) == {u \in Users : <<u, j>> \in saved}

\* The rows counted are rows of users, and the counters are numbers.
CountersTyped ==
  /\ counter \in [Jobs -> [saves: Nat, reports: Nat]]
  /\ reports \in [Jobs -> Nat]
  /\ CallsKnown

\* The saves of a job are finitely many.
LEMMA SavesFinite ==
  ASSUME NEW j \in Jobs
  PROVE  IsFiniteSet(Saves(j)) /\ Cardinality(Saves(j)) \in Nat
<1>1. Saves(j) \in SUBSET Users
  BY DEF Saves
<1> QED
  BY <1>1, FS_Subset, FS_CardinalityType

\* A row more or less, and a count more or less, of one job alone.
LEMMA OneMore ==
  ASSUME CountersTyped, CountersExact, NEW u \in Users, NEW j \in Jobs, <<u, j>> \notin saved,
         saved' = saved \union {<<u, j>>},
         counter' = [counter EXCEPT ![j].saves = @ + 1], reports' = reports
  PROVE  CountersExact'
<1>1. counter[j] \in [saves: Nat, reports: Nat]
  BY DEF CountersTyped
<1>2. counter'[j].saves = counter[j].saves + 1 /\ counter'[j].reports = counter[j].reports
  BY <1>1 DEF CountersTyped
<1>3. \A k \in Jobs \ {j} : counter'[k] = counter[k]
  BY DEF CountersTyped
<1>4. Saves(j)' = Saves(j) \union {u} /\ u \notin Saves(j)
  BY DEF Saves
<1>5. \A k \in Jobs \ {j} : Saves(k)' = Saves(k)
  BY DEF Saves
<1>6. Cardinality(Saves(j)') = Cardinality(Saves(j)) + 1
  BY <1>4, SavesFinite, FS_AddElement
<1>7. \A k \in Jobs : counter[k].saves = Cardinality(Saves(k)) /\ counter[k].reports = reports[k]
  BY DEF CountersExact, Saves
<1>8. \A k \in Jobs : counter'[k].saves = Cardinality(Saves(k)') /\ counter'[k].reports = reports'[k]
  <2> SUFFICES ASSUME NEW k \in Jobs
               PROVE  counter'[k].saves = Cardinality(Saves(k)') /\ counter'[k].reports = reports'[k]
    OBVIOUS
  <2>1. CASE k = j
    BY <2>1, <1>2, <1>6, <1>7
  <2>2. CASE k # j
    BY <2>2, <1>3, <1>5, <1>7
  <2> QED
    BY <2>1, <2>2
<1> QED
  BY <1>8 DEF CountersExact, Saves

\* The same when a row is deleted: it was counted, so the counter is not zero.
LEMMA OneLess ==
  ASSUME CountersTyped, CountersExact, NEW u \in Users, NEW j \in Jobs, <<u, j>> \in saved,
         saved' = saved \ {<<u, j>>},
         counter' = [counter EXCEPT ![j].saves = IF @ > 0 THEN @ - 1 ELSE @], reports' = reports
  PROVE  CountersExact' /\ counter' \in [Jobs -> [saves: Nat, reports: Nat]]
<1>1. counter[j] \in [saves: Nat, reports: Nat]
  BY DEF CountersTyped
<1>2. \A k \in Jobs : counter[k].saves = Cardinality(Saves(k)) /\ counter[k].reports = reports[k]
  BY DEF CountersExact, Saves
<1>3. Saves(j)' = Saves(j) \ {u} /\ u \in Saves(j)
  BY DEF Saves
<1>4. Cardinality(Saves(j)') = Cardinality(Saves(j)) - 1 /\ Cardinality(Saves(j)) \in Nat
  BY <1>3, SavesFinite, FS_RemoveElement
<1>5. Cardinality(Saves(j)) # 0
  BY <1>3, SavesFinite, FS_EmptySet
<1>6. counter[j].saves > 0
  BY <1>2, <1>4, <1>5
<1>7. counter' = [counter EXCEPT ![j].saves = counter[j].saves - 1]
  BY <1>1, <1>6 DEF CountersTyped
<1>8. counter'[j].saves = counter[j].saves - 1 /\ counter'[j].reports = counter[j].reports
  BY <1>1, <1>7 DEF CountersTyped
<1>9. \A k \in Jobs \ {j} : counter'[k] = counter[k]
  BY <1>7 DEF CountersTyped
<1>10. \A k \in Jobs \ {j} : Saves(k)' = Saves(k)
  BY DEF Saves
<1>11. \A k \in Jobs : counter'[k].saves = Cardinality(Saves(k)') /\ counter'[k].reports = reports'[k]
  <2> SUFFICES ASSUME NEW k \in Jobs
               PROVE  counter'[k].saves = Cardinality(Saves(k)') /\ counter'[k].reports = reports'[k]
    OBVIOUS
  <2>1. CASE k = j
    BY <2>1, <1>2, <1>4, <1>8
  <2>2. CASE k # j
    BY <2>2, <1>2, <1>9, <1>10
  <2> QED
    BY <2>1, <2>2
<1>12. counter' \in [Jobs -> [saves: Nat, reports: Nat]]
  BY <1>1, <1>6, <1>7 DEF CountersTyped
<1> QED
  BY <1>11, <1>12 DEF CountersExact, Saves
\* The counters of every job are the rows they count, for any number of users and of calls in
\* flight: what the unique key and the relative updates are for.
THEOREM CountersAreExact == PersonalSpec => []CountersExact
<1> DEFINE Inv == CountersTyped /\ CountersExact
<1>1. PersonalInit => Inv
  <2> SUFFICES ASSUME PersonalInit PROVE Inv
    OBVIOUS
  <2>1. CountersTyped
    BY DEF PersonalInit, CountersTyped, CallsKnown, Known
  <2>2. \A j \in Jobs : Saves(j) = {}
    BY DEF PersonalInit, Saves
  <2>3. CountersExact
    BY <2>2, FS_EmptySet DEF PersonalInit, CountersExact, Saves
  <2> QED
    BY <2>1, <2>3
<1>2. Inv /\ CallsKnown' /\ [PersonalNext]_personalVars => Inv'
  <2> SUFFICES ASSUME Inv, CallsKnown', [PersonalNext]_personalVars PROVE Inv'
    OBVIOUS
  <2>1. CASE UNCHANGED <<saved, counter, reports>>
    BY <2>1 DEF CountersTyped, CountersExact
  <2>2. ASSUME NEW c \in Calls, Save(c) PROVE Inv'
    <3>1. PICK u \in Users, j \in Jobs : call[c] = [op |-> "save", user |-> u, job |-> j]
      BY <2>2 DEF Save, Idle, CountersTyped, CallsKnown, Known
    <3>2. CASE <<u, j>> \in saved
      BY <2>1, <2>2, <3>1, <3>2 DEF Save
    <3>3. CASE <<u, j>> \notin saved
      <4>1. /\ saved' = saved \union {<<u, j>>} /\ reports' = reports
            /\ counter' = [counter EXCEPT ![j].saves = @ + 1]
        BY <2>2, <3>1, <3>3 DEF Save
      <4>2. CountersExact'
        BY <3>3, <4>1, OneMore
      <4>3. CountersTyped'
        BY <4>1 DEF CountersTyped
      <4> QED
        BY <4>2, <4>3
    <3> QED
      BY <3>2, <3>3
  <2>3. ASSUME NEW u \in Users, NEW j \in Jobs, Unsave(u, j) PROVE Inv'
    <3>1. CountersExact' /\ counter' \in [Jobs -> [saves: Nat, reports: Nat]]
      BY <2>3, OneLess DEF Unsave
    <3> QED
      BY <2>3, <3>1 DEF Unsave, CountersTyped
  <2>4. ASSUME NEW j \in Jobs, Report(j) PROVE Inv'
    <3>1. /\ counter[j] \in [saves: Nat, reports: Nat] /\ reports[j] \in Nat
          /\ counter[j].reports = reports[j]
      BY DEF CountersTyped, CountersExact
    <3>2. counter' = [counter EXCEPT ![j].reports = counter[j].reports + 1]
      BY <2>4 DEF Report
    <3>3. counter'[j].saves = counter[j].saves /\ counter'[j].reports = counter[j].reports + 1
      BY <3>1, <3>2 DEF CountersTyped
    <3>4. \A k \in Jobs \ {j} : counter'[k] = counter[k] /\ reports'[k] = reports[k]
      BY <2>4, <3>2 DEF CountersTyped, Report
    <3>5. reports'[j] = reports[j] + 1 /\ saved' = saved
      BY <2>4 DEF CountersTyped, Report
    <3>6. CountersExact'
      BY <3>1, <3>3, <3>4, <3>5 DEF CountersExact
    <3>7. CountersTyped'
      BY <2>4, <3>1, <3>2 DEF CountersTyped, Report
    <3> QED
      BY <3>6, <3>7
  <2>5. CASE \/ \E c \in Calls : UpdateProfile(c) \/ CreateAlert(c)
             \/ \E c \in Calls, p \in Payloads : BeginProfile(c, p)
             \/ \E c \in Calls, u \in Users, j \in Jobs : BeginSave(c, u, j)
             \/ \E c \in Calls, u \in Users : BeginAlert(c, u)
             \/ \E u \in Users : DeleteAlert(u)
    BY <2>1, <2>5 DEF UpdateProfile, CreateAlert, BeginProfile, BeginSave, BeginAlert, DeleteAlert
  <2> QED
    BY <2>1, <2>2, <2>3, <2>4, <2>5 DEF PersonalNext, ProfileNext, ListsNext, personalVars
<1>3. Inv => CountersExact
  OBVIOUS
<1> QED
  BY <1>1, <1>2, <1>3, CallsAreKnown, PTL DEF PersonalSpec

-----------------------------------------------------------------------------
(* The limit on alerts.                                                    *)

AlertsTyped == alerts \in [Users -> Nat]

\* A call that is about to insert is one of the calls.
LEMMA InsertingFinite ==
  ASSUME NEW u \in Users
  PROVE  /\ IsFiniteSet(Inserting(u)) /\ Cardinality(Inserting(u)) \in Nat
         /\ Cardinality(Inserting(u)) <= Cardinality(Calls) /\ Cardinality(Calls) \in Nat
<1>1. Inserting(u) \in SUBSET Calls
  BY DEF Inserting
<1> QED
  BY <1>1, FS_Subset, FS_CardinalityType

\* A commit takes no call into those that are about to insert, and an insert takes one out.
LEMMA FinishedInserts ==
  ASSUME CallsKnown, NEW c \in Calls, NEW touched \in BOOLEAN, Finished(c, touched), NEW u \in Users
  PROVE  Inserting(u)' = Inserting(u) \ {c}
<1>1. call'[c] = NoCall
  BY FinishedKeeps
<1>2. \A x \in Calls \ {c} : call'[x] = call[x] \/ (call[x].op = "profile" /\ call'[x].op = "profile")
  BY FinishedKeeps
<1> QED
  BY <1>1, <1>2 DEF Inserting, Idle

\* The limit on alerts is passed by fewer than the calls that can be in flight, however many
\* those are: the ones that counted before another inserted.
THEOREM AlertsAreBounded == PersonalSpec => []AlertsBounded
<1> DEFINE Inv == AlertsTyped /\ AlertsBounded
<1>1. PersonalInit => Inv
  <2> SUFFICES ASSUME PersonalInit PROVE Inv
    OBVIOUS
  <2>1. \A u \in Users : Inserting(u) = {}
    BY DEF PersonalInit, Inserting, Idle
  <2>2. \A u \in Users : Cardinality(Inserting(u)) = 0
    BY <2>1, FS_EmptySet
  <2>3. Cardinality(Calls) \in Nat
    BY FS_CardinalityType
  <2> QED
    BY <2>2, <2>3 DEF PersonalInit, AlertsTyped, AlertsBounded
<1>2. Inv /\ CallsKnown /\ [PersonalNext]_personalVars => Inv'
  <2> SUFFICES ASSUME Inv, CallsKnown, [PersonalNext]_personalVars PROVE Inv'
    OBVIOUS
  <2>1. \A u \in Users : /\ alerts[u] \in Nat
                         /\ Cardinality(Inserting(u)) \in Nat /\ Cardinality(Calls) \in Nat
                         /\ alerts[u] + Cardinality(Inserting(u)) <= MaxAlerts - 1 + Cardinality(Calls)
    BY InsertingFinite DEF AlertsTyped, AlertsBounded
  \* No alert is inserted, and no call begins to.
  <2>2. ASSUME alerts' = alerts, \A u \in Users : Inserting(u)' \subseteq Inserting(u) PROVE Inv'
    <3>1. ASSUME NEW u \in Users
          PROVE  Cardinality(Inserting(u)') <= Cardinality(Inserting(u)) /\ Cardinality(Inserting(u)') \in Nat
      BY <2>2, InsertingFinite, FS_Subset, FS_CardinalityType
    <3> QED
      BY <2>1, <2>2, <3>1 DEF AlertsTyped, AlertsBounded
  <2>3. CASE call' = call /\ alerts' = alerts
    BY <2>2, <2>3 DEF Inserting, Idle
  <2>4. ASSUME NEW c \in Calls, NEW u \in Users, NEW j \in Jobs, BeginSave(c, u, j) PROVE Inv'
    <3>1. \A v \in Users : Inserting(v)' \subseteq Inserting(v)
      BY <2>4 DEF BeginSave, Inserting, Idle, CallsKnown
    <3> QED
      BY <2>2, <2>4, <3>1 DEF BeginSave
  <2>5. ASSUME NEW c \in Calls, NEW p \in Payloads, BeginProfile(c, p) PROVE Inv'
    <3>1. \A v \in Users : Inserting(v)' \subseteq Inserting(v)
      BY <2>5 DEF BeginProfile, Inserting, Idle, CallsKnown
    <3> QED
      BY <2>2, <2>5, <3>1 DEF BeginProfile
  <2>6. ASSUME NEW c \in Calls, Save(c) \/ UpdateProfile(c) PROVE Inv'
    <3>1. alerts' = alerts /\ \E touched \in BOOLEAN : Finished(c, touched)
      BY <2>6 DEF Save, UpdateProfile
    <3> QED
      BY <2>2, <3>1, FinishedInserts
  <2>7. ASSUME NEW c \in Calls, NEW u \in Users, BeginAlert(c, u) PROVE Inv'
    <3>1. alerts' = alerts /\ alerts[u] < MaxAlerts
      BY <2>7 DEF BeginAlert
    <3>2. \A v \in Users \ {u} : Inserting(v)' \subseteq Inserting(v)
      BY <2>7 DEF BeginAlert, Inserting, Idle, CallsKnown
    <3>3. ASSUME NEW v \in Users
          PROVE  alerts'[v] + Cardinality(Inserting(v)') <= MaxAlerts - 1 + Cardinality(Calls)
      <4>1. CASE v = u
        <5>1. Inserting(v)' \in SUBSET Calls
          BY DEF Inserting
        <5>2. /\ Cardinality(Inserting(v)') <= Cardinality(Calls)
              /\ Cardinality(Inserting(v)') \in Nat
          BY <5>1, FS_Subset, FS_CardinalityType
        <5> QED
          BY <2>1, <3>1, <4>1, <5>2
      <4>2. CASE v # u
        <5>1. /\ Cardinality(Inserting(v)') <= Cardinality(Inserting(v))
              /\ Cardinality(Inserting(v)') \in Nat
          BY <3>2, <4>2, InsertingFinite, FS_Subset, FS_CardinalityType
        <5> QED
          BY <2>1, <3>1, <5>1
      <4> QED
        BY <4>1, <4>2
    <3> QED
      BY <3>1, <3>3 DEF AlertsTyped, AlertsBounded
  <2>8. ASSUME NEW c \in Calls, CreateAlert(c) PROVE Inv'
    <3>1. PICK u \in Users : call[c] = [op |-> "alert", user |-> u]
      BY <2>8 DEF CreateAlert, Idle, CallsKnown, Known
    <3>2. /\ alerts' = [alerts EXCEPT ![u] = @ + 1] /\ Finished(c, FALSE)
          /\ call[c] # NoCall
      <4>1. call[c].user = u
        BY <3>1
      <4>2. alerts' = [alerts EXCEPT ![call[c].user] = @ + 1] /\ Finished(c, FALSE) /\ call[c] # NoCall
        BY <2>8 DEF CreateAlert, Idle
      <4> QED
        BY <4>1, <4>2
    <3>3. \A v \in Users : Inserting(v)' = Inserting(v) \ {c}
      BY <3>2, FinishedInserts
    <3>4. c \in Inserting(u) /\ \A v \in Users \ {u} : c \notin Inserting(v)
      BY <3>1, <3>2 DEF Inserting, Idle
    <3>5. Cardinality(Inserting(u)') = Cardinality(Inserting(u)) - 1
      BY <3>3, <3>4, InsertingFinite, FS_RemoveElement
    <3>6. \A v \in Users \ {u} : Inserting(v)' = Inserting(v)
      BY <3>3, <3>4
    <3>7. ASSUME NEW v \in Users
          PROVE  alerts'[v] + Cardinality(Inserting(v)') <= MaxAlerts - 1 + Cardinality(Calls)
      <4>1. CASE v = u
        BY <2>1, <3>2, <3>5, <4>1 DEF AlertsTyped
      <4>2. CASE v # u
        <5>1. alerts'[v] = alerts[v] /\ Cardinality(Inserting(v)') = Cardinality(Inserting(v))
          BY <3>2, <3>6, <4>2 DEF AlertsTyped
        <5> QED
          BY <2>1, <5>1
      <4> QED
        BY <4>1, <4>2
    <3>8. AlertsTyped'
      BY <3>2 DEF AlertsTyped
    <3> QED
      BY <3>7, <3>8 DEF AlertsBounded
  <2>9. ASSUME NEW u \in Users, DeleteAlert(u) PROVE Inv'
    <3>1. /\ alerts' = [alerts EXCEPT ![u] = @ - 1] /\ alerts[u] > 0
          /\ \A v \in Users : Inserting(v)' = Inserting(v)
      BY <2>9 DEF DeleteAlert, Inserting, Idle
    <3>2. \A v \in Users : alerts'[v] \in Nat /\ alerts'[v] <= alerts[v]
      BY <2>1, <3>1 DEF AlertsTyped
    <3>3. AlertsTyped'
      BY <2>1, <3>1 DEF AlertsTyped
    <3>4. \A v \in Users : Cardinality(Inserting(v)') = Cardinality(Inserting(v))
      BY <3>1
    <3> QED
      BY <2>1, <3>2, <3>3, <3>4 DEF AlertsBounded
  <2>10. CASE \/ \E u \in Users, j \in Jobs : Unsave(u, j)
              \/ \E j \in Jobs : Report(j)
    BY <2>3, <2>10 DEF Unsave, Report
  <2>11. CASE UNCHANGED personalVars
    BY <2>3, <2>11 DEF personalVars
  <2> QED
    BY <2>4, <2>5, <2>6, <2>7, <2>8, <2>9, <2>10, <2>11 DEF PersonalNext, ProfileNext, ListsNext
<1>3. Inv => AlertsBounded
  OBVIOUS
<1> QED
  BY <1>1, <1>2, <1>3, CallsAreKnown, PTL DEF PersonalSpec
-----------------------------------------------------------------------------
(* The profile.                                                            *)

\* A column adds its whole weight to the score, or less and is listed as missing.
LEMMA ShareBounds ==
  ASSUME NEW row \in [ProfileColumns -> Nat], NEW f \in DOMAIN Weight
  PROVE  /\ Share(row, f) \in Nat /\ Share(row, f) <= Weight[f]
         /\ Share(row, f) = Weight[f] <=> f \notin MissingFields(row)
<1>1. row[f] \in Nat
  BY DEF ProfileColumns
<1>2. Weight[f] \in Nat /\ Weight[f] > 0
  BY DEF Weight
<1>3. Weight["skills"] = 18 /\ Weight["skills"] \div 2 = 9
  BY DEF Weight
<1>4. f \in MissingFields(row) <=> row[f] = 0 \/ (f = "skills" /\ row[f] < 3)
  BY DEF MissingFields
<1> HIDE DEF Weight
<1> QED
  BY <1>1, <1>2, <1>3, <1>4 DEF Share

\* The score is 100 exactly when nothing is missing: the weights add up to 100.
LEMMA FullScore ==
  ASSUME NEW row \in [ProfileColumns -> Nat]
  PROVE  /\ Completion(row) \in Nat
         /\ Completion(row) = 100 <=> MissingFields(row) = {}
<1> DEFINE S(f) == Share(row, f)
<1>1. \A f \in DOMAIN Weight : S(f) \in Nat /\ S(f) <= Weight[f] /\ (S(f) = Weight[f] <=> f \notin MissingFields(row))
  BY ShareBounds
<1>2. DOMAIN Weight = {"full_name", "city", "education_level", "degree", "years_of_experience", "experience_level",
    "skills", "preferred_categories", "preferred_locations", "preferred_job_types", "expected_salary_min", "remote_preference"}
  BY DEF Weight
<1>3. /\ Weight["full_name"] = 12 /\ Weight["city"] = 10 /\ Weight["education_level"] = 8
      /\ Weight["degree"] = 7 /\ Weight["years_of_experience"] = 8 /\ Weight["experience_level"] = 7
      /\ Weight["skills"] = 18 /\ Weight["preferred_categories"] = 10 /\ Weight["preferred_locations"] = 8
      /\ Weight["preferred_job_types"] = 5 /\ Weight["expected_salary_min"] = 4 /\ Weight["remote_preference"] = 3
  BY DEF Weight
<1>4. MissingFields(row) = {} <=> \A f \in DOMAIN Weight : S(f) = Weight[f]
  BY <1>1 DEF MissingFields
<1>5. Completion(row) = LET score == S("full_name") + S("city") + S("education_level")
        + S("degree") + S("years_of_experience")
        + S("experience_level") + S("skills")
        + S("preferred_categories") + S("preferred_locations")
        + S("preferred_job_types") + S("expected_salary_min")
        + S("remote_preference")
  IN IF score > 100 THEN 100 ELSE score
  BY DEF Completion
<1> HIDE DEF S
<1> QED
  BY <1>1, <1>2, <1>3, <1>4, <1>5, SMTT(60)

\* The score does not depend on the stored score.
LEMMA ScoreOfRow ==
  ASSUME NEW row \in ProfileRow, NEW n \in Nat
  PROVE  /\ [row EXCEPT !["profile_completion"] = n] \in ProfileRow
         /\ [row EXCEPT !["profile_completion"] = n]["profile_completion"] = n
         /\ Completion([row EXCEPT !["profile_completion"] = n]) = Completion(row)
<1> DEFINE new == [row EXCEPT !["profile_completion"] = n]
<1>1. /\ "profile_completion" \in ProfileColumns
      /\ \A f \in DOMAIN Weight : f \in ProfileColumns /\ f # "profile_completion"
  BY DEF ProfileColumns, Weight
<1>2. new \in ProfileRow /\ new["profile_completion"] = n /\ \A f \in DOMAIN Weight : new[f] = row[f]
  BY <1>1 DEF ProfileRow
<1> HIDE DEF new
<1>3. \A f \in DOMAIN Weight : Share(new, f) = Share(row, f)
  BY <1>2 DEF Share
<1>4. {"full_name", "city", "education_level", "degree", "years_of_experience",
       "experience_level", "skills", "preferred_categories", "preferred_locations",
       "preferred_job_types", "expected_salary_min", "remote_preference"} \subseteq DOMAIN Weight
  BY DEF Weight
<1>5. Completion(new) = Completion(row)
  BY <1>3, <1>4 DEF Completion
<1> QED
  BY <1>2, <1>5 DEF new

\* The columns a body sets, whether it swaps the two ends of the range or not.
LEMMA InOrderTyped ==
  ASSUME NEW p \in Payloads
  PROVE  InOrder(p) \in [DOMAIN p -> Nat]
<1>1. p \in [DOMAIN p -> Nat]
  BY ProfileAssumption
<1> DEFINE lo == "expected_salary_min"
           hi == "expected_salary_max"
           swapped == [f \in DOMAIN p |-> CASE f = lo -> p[hi] [] f = hi -> p[lo] [] OTHER -> p[f]]
<1>2. CASE {lo, hi} \subseteq DOMAIN p
  <2>1. p[lo] \in Nat /\ p[hi] \in Nat /\ \A f \in DOMAIN p : p[f] \in Nat
    BY <1>1, <1>2
  <2>2. swapped \in [DOMAIN p -> Nat]
    BY <2>1
  <2>3. InOrder(p) = swapped \/ InOrder(p) = p
    BY DEF InOrder
  <2> QED
    BY <1>1, <2>2, <2>3
<1>3. CASE ~({lo, hi} \subseteq DOMAIN p)
  BY <1>1, <1>3 DEF InOrder
<1> QED
  BY <1>2, <1>3

\* An update leaves a typed row, which carries its own score.
LEMMA UpdatedMatches ==
  ASSUME NEW old \in ProfileRow, NEW p \in Payloads
  PROVE  /\ Updated(old, p) \in ProfileRow
         /\ Updated(old, p)["profile_completion"] = Completion(Updated(old, p))
<1> DEFINE set == [f \in ProfileColumns |-> IF f \in DOMAIN p THEN InOrder(p)[f] ELSE old[f]]
           row == WithProvince(set)
<1>1. \A f \in DOMAIN p : InOrder(p)[f] \in Nat
  BY InOrderTyped
<1>2. set \in ProfileRow
  BY <1>1 DEF ProfileRow
<1>3. Updated(old, p) = [row EXCEPT !["profile_completion"] = Completion(row)]
  BY DEF Updated
<1> HIDE DEF set
<1>4. row \in ProfileRow
  <2>1. \A x \in DOMAIN CityProvince : CityProvince[x] \in Nat
    BY ProfileAssumption
  <2> QED
    BY <1>2, <2>1 DEF WithProvince, ProfileRow
<1> HIDE DEF row
<1>5. Completion(row) \in Nat
  BY <1>4, FullScore DEF ProfileRow
<1> DEFINE new == [row EXCEPT !["profile_completion"] = Completion(row)]
<1>6. /\ new \in ProfileRow
      /\ new["profile_completion"] = Completion(row) /\ Completion(new) = Completion(row)
  BY <1>4, <1>5, ScoreOfRow
<1> HIDE DEF new
<1>7. Updated(old, p) = new
  BY <1>3 DEF new
<1> QED
  BY <1>6, <1>7

\* Every reachable state of the lists, the profile and the calls is well typed.
THEOREM PersonalTyped == PersonalSpec => []PersonalTypeOK
<1> USE DEF ProfileRow
<1>1. PersonalInit => PersonalTypeOK
  BY DEF PersonalInit, PersonalTypeOK
<1>2. PersonalTypeOK /\ [PersonalNext]_personalVars => PersonalTypeOK'
  <2> SUFFICES ASSUME PersonalTypeOK, [PersonalNext]_personalVars PROVE PersonalTypeOK'
    OBVIOUS
  <2> USE DEF PersonalTypeOK
  <2> HIDE DEF ProfileRow
  <2>1. ASSUME NEW c \in Calls, NEW touched \in BOOLEAN, Finished(c, touched)
        PROVE  call' \in [Calls -> CallRow \union {NoCall}]
    <3>1. ASSUME NEW x \in Calls, ~Idle(x), call[x].op = "profile"
          PROVE  [call[x] EXCEPT !.stale = TRUE] \in CallRow
      BY <3>1 DEF CallRow, Idle
    <3>2. \A x \in Calls : call'[x] \in CallRow \union {NoCall}
      BY <2>1, <3>1, Zenon DEF Finished, Idle
    <3> QED
      BY <2>1, <3>2 DEF Finished
  <2>2. ASSUME NEW c \in Calls, NEW u \in Users, NEW j \in Jobs, BeginSave(c, u, j) PROVE PersonalTypeOK'
    BY <2>2 DEF BeginSave, CallRow
  <2>3. ASSUME NEW c \in Calls, Save(c) PROVE PersonalTypeOK'
    <3>1. call[c].user \in Users /\ call[c].job \in Jobs
      BY <2>3 DEF Save, Idle, CallRow
    <3>2. counter' \in [Jobs -> [saves: Nat, reports: Nat]]
      BY <2>3, <3>1 DEF Save
    <3> QED
      <4>1. call' \in [Calls -> CallRow \union {NoCall}]
        BY <2>1, <2>3 DEF Save
      <4>2. saved' \subseteq Users \X Jobs
        BY <2>3, <3>1 DEF Save
      <4> QED
        BY <2>3, <3>2, <4>1, <4>2 DEF Save
  <2>4. ASSUME NEW u \in Users, NEW j \in Jobs, Unsave(u, j) PROVE PersonalTypeOK'
    <3>1. counter[j].saves \in Nat
      OBVIOUS
    <3>2. (IF counter[j].saves > 0 THEN counter[j].saves - 1 ELSE counter[j].saves) \in Nat
      BY <3>1
    <3>3. counter' \in [Jobs -> [saves: Nat, reports: Nat]]
      BY <2>4, <3>2 DEF Unsave
    <3> QED
      BY <2>4, <3>3 DEF Unsave
  <2>5. ASSUME NEW j \in Jobs, Report(j) PROVE PersonalTypeOK'
    BY <2>5 DEF Report
  <2>6. ASSUME NEW c \in Calls, NEW u \in Users, BeginAlert(c, u) PROVE PersonalTypeOK'
    BY <2>6 DEF BeginAlert, CallRow
  <2>7. ASSUME NEW c \in Calls, CreateAlert(c) PROVE PersonalTypeOK'
    <3>1. call[c].user \in Users
      BY <2>7 DEF CreateAlert, Idle, CallRow
    <3> QED
      <4>1. call' \in [Calls -> CallRow \union {NoCall}]
        BY <2>1, <2>7 DEF CreateAlert
      <4> QED
        BY <2>7, <3>1, <4>1 DEF CreateAlert
  <2>8. ASSUME NEW u \in Users, DeleteAlert(u) PROVE PersonalTypeOK'
    BY <2>8 DEF DeleteAlert
  <2>9. ASSUME NEW c \in Calls, NEW p \in Payloads, BeginProfile(c, p) PROVE PersonalTypeOK'
    BY <2>9 DEF BeginProfile, CallRow
  <2>10. ASSUME NEW c \in Calls, UpdateProfile(c) PROVE PersonalTypeOK'
    <3>1. call[c].old \in ProfileRow /\ call[c].payload \in Payloads
      BY <2>10 DEF UpdateProfile, Idle, CallRow
    <3>2. Updated(call[c].old, call[c].payload) \in ProfileRow
      BY <3>1, UpdatedMatches
    <3>3. profile' \in ProfileRow
      BY <2>10, <3>1, <3>2 DEF UpdateProfile, ProfileFlushed, Column, ProfileRow
    <3> QED
      BY <2>1, <2>10, <3>3 DEF UpdateProfile
  <2>11. CASE UNCHANGED personalVars
    BY <2>11 DEF personalVars
  <2> QED
    BY <2>2, <2>3, <2>4, <2>5, <2>6, <2>7, <2>8, <2>9, <2>10, <2>11
       DEF PersonalNext, ProfileNext, ListsNext
<1> QED
  BY <1>1, <1>2, PTL DEF PersonalSpec

\* A call that no update has overtaken remembers the row as it is.
ReadIsCurrent ==
  \A c \in Calls :
    ~Idle(c) /\ call[c].op = "profile" /\ ~call[c].stale => call[c].old = profile

\* ReadIsCurrent is inductive: whoever changes the row marks the calls that have read it.
LEMMA ReadIsCurrentStep ==
  PersonalTypeOK /\ ReadIsCurrent /\ [PersonalNext]_personalVars => ReadIsCurrent'
<1> SUFFICES ASSUME PersonalTypeOK, ReadIsCurrent, [PersonalNext]_personalVars
             PROVE  ReadIsCurrent'
  OBVIOUS
<1>0. call \in [Calls -> CallRow \union {NoCall}]
  BY DEF PersonalTypeOK
<1>1. ASSUME profile' = profile, NEW c \in Calls,
             \A x \in Calls \ {c} : call'[x] = call[x],
             call'[c] = NoCall \/ call'[c].op # "profile" \/ call'[c].old = profile
      PROVE  ReadIsCurrent'
  BY <1>1 DEF ReadIsCurrent, Idle
<1>2. CASE profile' = profile /\ call' = call
  BY <1>2 DEF ReadIsCurrent, Idle
<1>3. ASSUME NEW c \in Calls, NEW u \in Users, NEW j \in Jobs, BeginSave(c, u, j)
      PROVE  ReadIsCurrent'
  BY <1>0, <1>1, <1>3 DEF BeginSave
<1>4. ASSUME NEW c \in Calls, NEW u \in Users, BeginAlert(c, u) PROVE ReadIsCurrent'
  BY <1>0, <1>1, <1>4 DEF BeginAlert
<1>5. ASSUME NEW c \in Calls, NEW p \in Payloads, BeginProfile(c, p) PROVE ReadIsCurrent'
  BY <1>0, <1>1, <1>5 DEF BeginProfile
<1>6. ASSUME NEW c \in Calls, Save(c) \/ CreateAlert(c) PROVE ReadIsCurrent'
  <2>1. profile' = profile /\ Finished(c, FALSE)
    BY <1>6 DEF Save, CreateAlert
  <2> QED
    BY <1>1, <2>1 DEF Finished
<1>7. ASSUME NEW c \in Calls, UpdateProfile(c) PROVE ReadIsCurrent'
  <2>1. Finished(c, TRUE)
    BY <1>7 DEF UpdateProfile
  <2>2. ASSUME NEW x \in Calls, call'[x] # NoCall, call'[x].op = "profile" PROVE call'[x].stale
    <3>1. CASE call'[x] = [call[x] EXCEPT !.stale = TRUE] /\ call[x].op = "profile" /\ ~Idle(x)
      BY <1>0, <3>1 DEF CallRow, Idle
    <3> QED
      BY <2>1, <2>2, <3>1 DEF Finished, Idle
  <2> QED
    BY <2>2 DEF ReadIsCurrent, Idle
<1>8. CASE \/ \E u \in Users, j \in Jobs : Unsave(u, j)
           \/ \E u \in Users : DeleteAlert(u)
           \/ \E j \in Jobs : Report(j)
  BY <1>2, <1>8 DEF Unsave, DeleteAlert, Report
<1> QED
  BY <1>2, <1>3, <1>4, <1>5, <1>6, <1>7, <1>8 DEF PersonalNext, ProfileNext, ListsNext, personalVars

\* The commit of a call that no update has overtaken writes the row it has built.
LEMMA CommitMatches ==
  ASSUME PersonalTypeOK, ReadIsCurrent, [PersonalNext]_personalVars, NEW c \in Calls,
         ~Idle(c), call[c].op = "profile", ~call[c].stale, call'[c] = NoCall
  PROVE  /\ profile'["profile_completion"] = Completion(profile')
         /\ profile'["profile_completion"] = 100 <=> MissingFields(profile') = {}
<1>0. call \in [Calls -> CallRow \union {NoCall}] /\ profile \in ProfileRow
  BY DEF PersonalTypeOK
<1>1. UpdateProfile(c)
  <2>1. ASSUME NEW x \in Calls, NEW touched \in BOOLEAN, Finished(x, touched), x # c
        PROVE  call'[c] # NoCall
    <3>1. CASE call'[c] = [call[c] EXCEPT !.stale = TRUE]
      <4>1. call'[c] \in CallRow
        BY <1>0, <3>1 DEF CallRow, Idle
      <4> QED
        BY <4>1, NoCallAssumption
    <3> QED
      BY <2>1, <3>1 DEF Finished, Idle
  <2>2. ASSUME NEW x \in Calls, Save(x) \/ CreateAlert(x) PROVE FALSE
    BY <2>1, <2>2 DEF Save, CreateAlert
  <2>3. ASSUME NEW x \in Calls, UpdateProfile(x) PROVE UpdateProfile(c)
    BY <2>1, <2>3 DEF UpdateProfile
  <2>4. ASSUME NEW x \in Calls, NEW row, Idle(x), call' = [call EXCEPT ![x] = row] PROVE FALSE
    BY <1>0, <2>4 DEF Idle
  <2>5. ASSUME NEW x \in Calls,
               \/ \E u \in Users, j \in Jobs : BeginSave(x, u, j)
               \/ \E u \in Users : BeginAlert(x, u)
               \/ \E p \in Payloads : BeginProfile(x, p)
        PROVE  FALSE
    BY <2>4, <2>5 DEF BeginSave, BeginAlert, BeginProfile
  <2>6. call' # call
    BY DEF Idle
  <2> QED
    BY <2>2, <2>3, <2>5, <2>6 DEF PersonalNext, ProfileNext, ListsNext, personalVars, Unsave,
       DeleteAlert, Report
<1> DEFINE new == Updated(profile, call[c].payload)
<1>2. call[c].payload \in Payloads /\ call[c].old = profile
  BY <1>0 DEF CallRow, Idle, ReadIsCurrent
<1>3. new \in ProfileRow /\ new["profile_completion"] = Completion(new)
  BY <1>0, <1>2, UpdatedMatches
<1>4. profile' = [f \in ProfileColumns |-> Column(profile[f], profile[f], new[f])]
  BY <1>1, <1>2 DEF UpdateProfile, ProfileFlushed
<1> HIDE DEF new
<1>5. profile' = new
  BY <1>3, <1>4 DEF Column, ProfileRow
<1>6. Completion(new) = 100 <=> MissingFields(new) = {}
  BY <1>3, FullScore DEF ProfileRow
<1> QED
  BY <1>3, <1>5, <1>6

\* The score a call stores is the score of the row it leaves, and 100 exactly when no step is
\* left to recommend, unless another update has overtaken the call.
THEOREM ScoreIsOfItsRow == PersonalSpec => CompletionMatches
<1>1. PersonalInit => ReadIsCurrent
  BY DEF PersonalInit, ReadIsCurrent, Idle
<1>2. PersonalTypeOK /\ ReadIsCurrent /\ [PersonalNext]_personalVars =>
        [\A c \in Calls :
           ~Idle(c) /\ call[c].op = "profile" /\ ~call[c].stale /\ call'[c] = NoCall =>
             /\ profile'["profile_completion"] = Completion(profile')
             /\ profile'["profile_completion"] = 100 <=> MissingFields(profile') = {}]_personalVars
  BY CommitMatches
<1> QED
  BY <1>1, <1>2, PersonalTyped, ReadIsCurrentStep, PTL DEF PersonalSpec, CompletionMatches
===============================================================================
