----------------------------- MODULE RateLimiter -----------------------------
(***************************************************************************)
(* The request limiter of apps/api/app/core/middleware.py, with the        *)
(* identity a request is charged to.                                       *)
(*                                                                         *)
(* One process: dispatch runs from the clock to the append without an      *)
(* await, so it is one step.  Time is counted in ticks, several to the     *)
(* second, because Retry-After is a whole number of seconds.               *)
(***************************************************************************)
EXTENDS Integers, Sequences, FiniteSets

CONSTANTS
  Peers,         \* addresses that connect, and that headers name
  Proxies,       \* trusted_proxies
  Cookies,       \* session cookies, and bearer tokens
  Limit,         \* rate_limit_anon_per_minute
  UserLimit,     \* rate_limit_auth_per_minute
  Second,        \* ticks in a second
  Window,        \* WINDOW_SECONDS, in ticks
  MaxBuckets,    \* the 10,000 buckets that start a cleanup
  MaxTime,       \* bound on the clock
  Nothing

ASSUME LimiterAssumption ==
  /\ Proxies \subseteq Peers /\ Nothing \notin Peers \union Cookies
  /\ {Limit, UserLimit, Second, Window} \subseteq Nat \ {0}
  /\ {MaxBuckets, MaxTime} \subseteq Nat

VARIABLES
  clock,
  bucket,     \* _buckets: the times of the admitted requests, oldest first
  served,     \* history: when requests of each identity were admitted, within the window
  told        \* history: when each identity may try again, and how often it was refused

limiterVars == <<clock, bucket, served, told>>

\* Mutant: a proxy is taken to have sent the header.
ClientIpForwarded(peer, forwarded) == IF peer \in Proxies THEN forwarded ELSE peer

\* client_ip: the header of a trusted proxy is believed, of anyone else it is not.
ClientIp(peer, forwarded) ==
  IF peer \in Proxies /\ forwarded # Nothing THEN forwarded ELSE peer

\* _identify: a token or a cookie names the client, else its address does.
Identify(peer, forwarded, cookie) ==
  IF cookie # Nothing THEN [kind |-> "session", of |-> cookie, limit |-> UserLimit]
  ELSE [kind |-> "ip", of |-> ClientIp(peer, forwarded), limit |-> Limit]

Identities ==
  [kind: {"session"}, of: Cookies, limit: {UserLimit}] \union [kind: {"ip"}, of: Peers, limit: {Limit}]

Buckets == DOMAIN bucket

\* What popleft leaves of s, from the first entry on that is not before the horizon.
Since(s, horizon) ==
  LET n == CHOOSE n \in 0..Len(s) : /\ \A k \in 1..n : s[k] < horizon
                                    /\ n < Len(s) => s[n + 1] >= horizon
  IN SubSeq(s, n + 1, Len(s))

LimiterInit ==
  /\ clock = 0 /\ bucket = <<>>
  /\ served = [i \in Identities |-> <<>>]
  /\ told = [i \in Identities |-> [at |-> 0, times |-> 0]]

Tick ==
  /\ clock < MaxTime /\ clock' = clock + 1
  /\ served' = [i \in Identities |-> Since(served[i], clock' - Window + 1)]
  /\ UNCHANGED <<bucket, told>>

\* The entries that still count.
Recent(i) == IF i \in Buckets THEN Since(bucket[i], clock - Window) ELSE <<>>

\* The deques of b that the cleanup keeps: those used within the window.
Kept(b) == {i \in DOMAIN b : b[i] # <<>> /\ clock - b[i][Len(b[i])] < Window}

\* Mutant: the table is emptied when it is full.
CleanedAll(b) == IF Cardinality(DOMAIN b) > MaxBuckets THEN <<>> ELSE b

Cleaned(b) ==
  IF Cardinality(DOMAIN b) > MaxBuckets THEN [i \in Kept(b) |-> b[i]] ELSE b

With(i, entries) == [x \in Buckets \union {i} |-> IF x = i THEN entries ELSE bucket[x]]

\* Mutant: no lower bound of one second.
RetryAfterZero(oldest) == (Window - (clock - oldest)) \div Second

\* Retry-After, in seconds: rounded down, at least one.
RetryAfter(oldest) ==
  LET seconds == (Window - (clock - oldest)) \div Second
  IN IF seconds < 1 THEN 1 ELSE seconds

Admit(i) ==
  /\ Len(Recent(i)) < i.limit
  /\ bucket' = Cleaned(With(i, Append(Recent(i), clock)))
  /\ served' = [served EXCEPT ![i] = Append(@, clock)]
  /\ told' = [told EXCEPT ![i] = [at |-> 0, times |-> 0]]
  /\ UNCHANGED clock

\* A client that comes back as told is counted; one that does not wait starts again.
Refuse(i) ==
  /\ Len(Recent(i)) >= i.limit
  /\ bucket' = With(i, Recent(i))
  /\ told' = [told EXCEPT ![i] =
       [at |-> clock + Second * RetryAfter(Head(Recent(i))),
        times |-> IF @.times > 0 /\ clock >= @.at THEN @.times + 1 ELSE 1]]
  /\ UNCHANGED <<clock, served>>

\* Requests for health checks and the documentation, and those of the web tier with its key,
\* change nothing here.
Clients ==
  {Identify(peer, forwarded, cookie) : peer \in Peers, forwarded \in Peers \union {Nothing},
                                       cookie \in Cookies \union {Nothing}}

LimiterNext == Tick \/ \E i \in Clients : Admit(i) \/ Refuse(i)

LimiterSpec == LimiterInit /\ [][LimiterNext]_limiterVars

-----------------------------------------------------------------------------
(* Properties.                                                             *)

\* Every variable stays within its type.
LimiterTypeOK ==
  /\ clock \in 0..MaxTime
  /\ Buckets \subseteq Identities
  /\ \A i \in Buckets : bucket[i] \in Seq(0..clock)
  /\ served \in [Identities -> Seq(0..clock)]
  /\ told \in [Identities -> [at: Nat, times: Nat]]

\* No client is served more often than its limit within less than a window, though the
\* cleanup forgets the deques of other clients meanwhile, and this one's when it was idle.
RateBounded == \A i \in Identities : Len(served[i]) <= i.limit

\* A client that waits as long as Retry-After says is refused at most twice in a row: once
\* more, because the seconds are rounded down.
WaitingHelps == \A i \in Identities : told[i].times <= 2
===============================================================================
