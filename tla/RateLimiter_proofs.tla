------------------------- MODULE RateLimiter_proofs --------------------------
(***************************************************************************)
(* Proofs about RateLimiter, for every set of clients and every limit: no  *)
(* client is served above its limit within a window, and one that waits as *)
(* it is told is refused at most twice in a row.                           *)
(***************************************************************************)
EXTENDS RateLimiter, FiniteSetTheorems, SequenceTheorems, WellFoundedInduction, TLAPS

USE LimiterAssumption

-----------------------------------------------------------------------------
(* Numbers and sequences.                                                  *)

\* The limits and the lengths of time are positive.
LEMMA Amounts ==
  /\ Limit \in Nat \ {0} /\ UserLimit \in Nat \ {0}
  /\ Second \in Nat \ {0} /\ Window \in Nat \ {0}
BY DEF LimiterAssumption

\* A division rounded down loses less than one divisor.
LEMMA RoundedDown ==
  ASSUME NEW x \in Nat, NEW d \in Nat \ {0}
  PROVE  x \div d \in Nat /\ d * (x \div d) > x - d /\ d * (x \div d) \in Nat
<1>1. x \div d \in Nat
  OBVIOUS
<1>2. x = (d * (x \div d)) + (x % d) /\ (x % d) \in 0..d-1
  OBVIOUS
<1> DEFINE p == d * (x \div d)
           r == x % d
<1>3. p \in Nat /\ r \in Nat
  BY <1>1, <1>2
<1>4. x = p + r /\ r < d
  BY <1>2
<1> HIDE DEF p, r
<1>5. p > x - d
  BY <1>3, <1>4
<1> QED
  BY <1>1, <1>3, <1>5 DEF p

\* A finite set of numbers that is not empty has a largest member.
LEMMA Largest ==
  ASSUME NEW S \in SUBSET Nat, IsFiniteSet(S), S # {}
  PROVE  \E m \in S : \A x \in S : x <= m
<1> DEFINE Above(c) == {x \in S : x >= c}
           T == {Above(c) : c \in S}
<1>1. T \subseteq FiniteSubsetsOf(S)
  BY FS_Subset DEF FiniteSubsetsOf
<1>2. T # {}
  OBVIOUS
<1>3. IsWellFoundedOn(StrictSubsetOrdering(S), FiniteSubsetsOf(S))
  BY FS_StrictSubsetOrderingWellFounded
<1>4. PICK U \in T : \A V \in T : <<V, U>> \notin StrictSubsetOrdering(S)
  <2> HIDE DEF T
  <2> QED BY <1>1, <1>2, <1>3, WFMin
<1>5. PICK m \in S : U = Above(m)
  BY <1>4
<1>6. ASSUME NEW x \in S, x > m PROVE FALSE
  <2>1. Above(x) \subseteq Above(m) /\ m \in Above(m) /\ m \notin Above(x)
    <3>1. x \in Nat /\ m \in Nat /\ x > m /\ \A y \in S : y \in Nat
      BY <1>6
    <3>2. m \in Above(m) /\ m \notin Above(x)
      BY <3>1
    <3>3. ASSUME NEW y \in Above(x) PROVE y \in Above(m)
      <4>1. y \in S /\ y >= x
        BY <3>3
      <4>2. y >= m
        BY <4>1, <3>1
      <4> QED
        BY <4>1, <4>2
    <3> QED
      BY <3>2, <3>3
  <2>2. <<Above(x), U>> \in StrictSubsetOrdering(S)
    BY <2>1, <1>5 DEF StrictSubsetOrdering
  <2> QED
    BY <2>2, <1>4, <1>6
<1> QED
  BY <1>6, <1>5

\* Since drops a prefix whose entries are all before the horizon, up to an entry that is not.
LEMMA SinceDrops ==
  ASSUME NEW S \in SUBSET Int, NEW s \in Seq(S), NEW h \in Int
  PROVE  \E n \in 0..Len(s) :
           /\ \A k \in 1..n : s[k] < h
           /\ n < Len(s) => s[n + 1] >= h
           /\ Since(s, h) \in Seq(S)
           /\ Len(Since(s, h)) = Len(s) - n
           /\ \A k \in 1..(Len(s) - n) : Since(s, h)[k] = s[n + k]
<1> DEFINE Good(n) == /\ \A k \in 1..n : s[k] < h
                      /\ n < Len(s) => s[n + 1] >= h
           N == {n \in 0..Len(s) : \A k \in 1..n : s[k] < h}
<1>1. Len(s) \in Nat /\ \A k \in 1..Len(s) : s[k] \in Int
  BY ElementOfSeq, LenProperties
<1>2. N \in SUBSET Nat /\ 0 \in N /\ IsFiniteSet(N)
  <2>1. IsFiniteSet(0..Len(s))
    BY <1>1, FS_Interval
  <2> QED
    BY <2>1, <1>1, FS_Subset
<1>3. PICK m \in N : \A x \in N : x <= m
  <2> HIDE DEF N
  <2> QED BY <1>2, Largest
<1>4. m \in 0..Len(s) /\ Good(m)
  <2>1. m \in 0..Len(s) /\ \A k \in 1..m : s[k] < h
    BY <1>3
  <2>2. ASSUME m < Len(s), ~(s[m + 1] >= h) PROVE FALSE
    <3>1. m + 1 \in 0..Len(s) /\ s[m + 1] < h
      BY <1>1, <2>1, <2>2
    <3>2. \A k \in 1..(m + 1) : k \in 1..m \/ k = m + 1
      BY <2>1
    <3>3. m + 1 \in N
      BY <3>1, <3>2, <2>1
    <3> QED
      BY <3>3, <1>3, <2>1
  <2> QED
    BY <2>1, <2>2
<1> DEFINE n == CHOOSE n \in 0..Len(s) : Good(n)
<1>5. n \in 0..Len(s) /\ Good(n)
  BY <1>4
<1>6. Since(s, h) = SubSeq(s, n + 1, Len(s))
  BY DEF Since
<1> HIDE DEF n
<1>7. \A k \in (n + 1)..Len(s) : s[k] \in S
  BY <1>5, <1>1, ElementOfSeq
<1>8. SubSeq(s, n + 1, Len(s)) \in Seq(S)
  BY <1>5, <1>7, <1>1
<1>9. Len(SubSeq(s, n + 1, Len(s))) = Len(s) - n
  BY <1>5, <1>1
<1>10. ASSUME NEW k \in 1..(Len(s) - n) PROVE SubSeq(s, n + 1, Len(s))[k] = s[n + k]
  BY <1>5, <1>1
<1> QED
  BY <1>5, <1>6, <1>8, <1>9, <1>10
-----------------------------------------------------------------------------
(* What a deque remembers of an identity, and what an identity was told.   *)

\* The deque b covers the admitted requests s of the last window: they are its newest
\* entries, in the order of their times, and it is within the limit.
Covers(b, s, c, limit) ==
  /\ Len(b) <= limit /\ Len(s) <= Len(b)
  /\ \A k \in 1..Len(s) : s[k] = b[k + (Len(b) - Len(s))]
  /\ \A k \in 1..Len(s) : c - s[k] < Window
  /\ \A j, k \in 1..Len(s) : j <= k => s[j] <= s[k]

\* What a client told to wait until the time at, and that often refused, is promised of a full
\* deque b: after a first refusal its oldest entry leaves the window less than a second after
\* the time told, after a second refusal before it.
Promises(b, at, times, limit) ==
  /\ times <= 2
  /\ Len(b) >= limit /\ times = 1 => at + Second > b[1] + Window
  /\ Len(b) >= limit /\ times = 2 => at > b[1] + Window

\* What is left of the deque when the old entries are dropped covers the same requests.
LEMMA RecentCovers ==
  ASSUME NEW c \in Nat, NEW limit \in Nat, NEW b \in Seq(0..c), NEW s \in Seq(0..c),
         Covers(b, s, c, limit)
  PROVE  /\ Since(b, c - Window) \in Seq(0..c)
         /\ Covers(Since(b, c - Window), s, c, limit)
<1> DEFINE h == c - Window
           Times == 0..c
           r == Since(b, h)
<1>1. Times \in SUBSET Int /\ h \in Int /\ b \in Seq(Times)
  BY Amounts
<1>2. PICK n \in 0..Len(b) :
           /\ \A k \in 1..n : b[k] < c - Window
           /\ r \in Seq(0..c)
           /\ Len(r) = Len(b) - n
           /\ \A k \in 1..(Len(b) - n) : r[k] = b[n + k]
  <2> HIDE DEF h, Times
  <2>1. \E n \in 0..Len(b) :
           /\ \A k \in 1..n : b[k] < h
           /\ n < Len(b) => b[n + 1] >= h
           /\ Since(b, h) \in Seq(Times)
           /\ Len(Since(b, h)) = Len(b) - n
           /\ \A k \in 1..(Len(b) - n) : Since(b, h)[k] = b[n + k]
    BY <1>1, SinceDrops, Zenon
  <2> QED BY <2>1 DEF h, Times
<1> HIDE DEF r
<1> DEFINE lb == Len(b)
           ls == Len(s)
           lr == Len(r)
<1>3. /\ lb \in Nat /\ ls \in Nat /\ lr \in Nat
      /\ \A k \in 1..ls : s[k] \in 0..c
  BY <1>2, ElementOfSeq, LenProperties
<1>4. /\ lb <= limit /\ ls <= lb /\ n \in 0..lb /\ lr = lb - n
      /\ \A k \in 1..ls : s[k] = b[k + (lb - ls)]
      /\ \A k \in 1..ls : c - s[k] < Window
      /\ \A j, k \in 1..ls : j <= k => s[j] <= s[k]
      /\ \A k \in 1..n : b[k] < c - Window
      /\ \A k \in 1..lr : r[k] = b[n + k]
  BY <1>2 DEF Covers
<1> HIDE DEF lb, ls, lr
<1>5. ASSUME lb - ls < n PROVE ls = 0
  <2>1. SUFFICES ASSUME ls # 0 PROVE FALSE
    OBVIOUS
  <2>2. 1 \in 1..ls /\ 1 + (lb - ls) \in 1..n
    BY <1>3, <1>4, <1>5, <2>1
  <2>3. s[1] = b[1 + (lb - ls)] /\ b[1 + (lb - ls)] < c - Window /\ c - s[1] < Window
    BY <2>2, <1>4
  <2> QED
    BY <2>2, <2>3, <1>3, Amounts
<1>6. lr <= limit /\ (lb - ls < n \/ ls <= lr)
  BY <1>3, <1>4
<1>7. ls <= lr
  BY <1>3, <1>5, <1>6
<1>8. ASSUME NEW k \in 1..ls PROVE s[k] = r[k + (lr - ls)]
  <2>1. k + (lr - ls) \in 1..lr /\ n + (k + (lr - ls)) = k + (lb - ls)
    BY <1>3, <1>4, <1>7
  <2> QED
    BY <2>1, <1>4
<1>9. Covers(r, s, c, limit)
  BY <1>4, <1>6, <1>7, <1>8 DEF Covers, lb, ls, lr
<1> QED
  BY <1>2, <1>9 DEF r

\* Admission appends to both.
LEMMA AppendCovers ==
  ASSUME NEW c \in Nat, NEW limit \in Nat, NEW r \in Seq(0..c), NEW s \in Seq(0..c),
         Covers(r, s, c, limit), Len(r) < limit
  PROVE  Covers(Append(r, c), Append(s, c), c, limit)
<1> DEFINE r1 == Append(r, c)
           s1 == Append(s, c)
           lr == Len(r)
           ls == Len(s)
<1>1. c \in 0..c
  OBVIOUS
<1>2. /\ Len(r1) = lr + 1 /\ r1[lr + 1] = c /\ \A k \in 1..lr : r1[k] = r[k]
      /\ Len(s1) = ls + 1 /\ s1[ls + 1] = c /\ \A k \in 1..ls : s1[k] = s[k]
  BY <1>1, AppendProperties
<1>3. lr \in Nat /\ ls \in Nat /\ \A k \in 1..ls : s[k] \in 0..c
  BY ElementOfSeq, LenProperties
<1>4. /\ lr < limit /\ ls <= lr
      /\ \A k \in 1..ls : s[k] = r[k + (lr - ls)]
      /\ \A k \in 1..ls : c - s[k] < Window
      /\ \A j, k \in 1..ls : j <= k => s[j] <= s[k]
  BY DEF Covers
<1> HIDE DEF r1, s1, lr, ls
<1>5. Len(r1) <= limit /\ Len(s1) <= Len(r1) /\ Len(r1) - Len(s1) = lr - ls
  <2>1. lr + 1 <= limit /\ ls + 1 <= lr + 1 /\ (lr + 1) - (ls + 1) = lr - ls
    BY <1>3, <1>4
  <2> QED
    BY <2>1, <1>2
<1>6. \A k \in 1..(ls + 1) : k \in 1..ls \/ k = ls + 1
  BY <1>3
<1>7. ASSUME NEW k \in 1..(ls + 1) PROVE s1[k] = r1[k + (lr - ls)] /\ c - s1[k] < Window
  <2>1. CASE k \in 1..ls
    <3>1. k + (lr - ls) \in 1..lr
      BY <2>1, <1>3, <1>4
    <3> QED
      BY <3>1, <2>1, <1>2, <1>4
  <2>2. CASE k = ls + 1
    <3>1. k + (lr - ls) = lr + 1 /\ c - c < Window
      BY <2>2, <1>3, Amounts
    <3> QED
      BY <3>1, <2>2, <1>2
  <2> QED
    BY <2>1, <2>2, <1>6
<1>8. ASSUME NEW j \in 1..(ls + 1), NEW k \in 1..(ls + 1), j <= k PROVE s1[j] <= s1[k]
  <2>1. CASE k \in 1..ls
    <3>1. j \in 1..ls
      BY <2>1, <1>8, <1>3
    <3> QED
      BY <3>1, <2>1, <1>2, <1>4, <1>8
  <2>2. CASE k = ls + 1
    <3>1. s1[k] = c
      BY <2>2, <1>2
    <3>2. s1[j] = c \/ s1[j] \in 0..c
      BY <1>6, <1>2, <1>3
    <3> QED
      BY <3>1, <3>2
  <2> QED
    BY <2>1, <2>2, <1>6
<1> QED
  BY <1>2, <1>5, <1>7, <1>8 DEF Covers, r1, s1

\* A deque the cleanup drops covers nothing: its owner was not served within the window.
LEMMA DroppedCovers ==
  ASSUME NEW c \in Nat, NEW limit \in Nat, NEW b \in Seq(0..c), NEW s \in Seq(0..c),
         Covers(b, s, c, limit), b = <<>> \/ ~(c - b[Len(b)] < Window)
  PROVE  Covers(<<>>, s, c, limit)
<1> DEFINE lb == Len(b)
           ls == Len(s)
<1>1. lb \in Nat /\ ls \in Nat /\ (b = <<>> => lb = 0)
  BY LenProperties
<1>2. /\ lb <= limit /\ ls <= lb
      /\ \A k \in 1..ls : s[k] = b[k + (lb - ls)] /\ c - s[k] < Window
  BY DEF Covers
<1>3. b = <<>> \/ ~(c - b[lb] < Window)
  OBVIOUS
<1> HIDE DEF lb, ls
<1>4. ls = 0
  <2>1. SUFFICES ASSUME ls # 0 PROVE FALSE
    OBVIOUS
  <2>2. ls \in 1..ls /\ ls + (lb - ls) = lb /\ lb # 0
    BY <2>1, <1>1, <1>2
  <2>3. c - b[lb] < Window /\ b # <<>>
    BY <2>2, <1>1, <1>2
  <2> QED
    BY <2>3, <1>3
<1>5. Len(<<>>) = 0 /\ Len(s) = 0 /\ 0 <= limit
  BY <1>4 DEF ls
<1>6. \A k \in 1..Len(s) : FALSE
  BY <1>5
<1> QED
  BY <1>5, <1>6 DEF Covers

\* When the clock moves on, the requests that leave the window are the oldest.
LEMMA TickCovers ==
  ASSUME NEW c \in Nat, NEW limit \in Nat, NEW b \in Seq(0..c), NEW s \in Seq(0..c),
         Covers(b, s, c, limit)
  PROVE  /\ Since(s, ((c + 1) - Window) + 1) \in Seq(0..c)
         /\ Covers(b, Since(s, ((c + 1) - Window) + 1), c + 1, limit)
<1> DEFINE h == ((c + 1) - Window) + 1
           t == Since(s, h)
           Times == 0..c
<1>1. Times \in SUBSET Int /\ h \in Int /\ s \in Seq(Times)
  BY Amounts
<1>2. PICK n \in 0..Len(s) :
           /\ n < Len(s) => s[n + 1] >= h
           /\ t \in Seq(0..c)
           /\ Len(t) = Len(s) - n
           /\ \A k \in 1..(Len(s) - n) : t[k] = s[n + k]
  <2> HIDE DEF h, Times
  <2>1. \E n \in 0..Len(s) :
           /\ \A k \in 1..n : s[k] < h
           /\ n < Len(s) => s[n + 1] >= h
           /\ Since(s, h) \in Seq(Times)
           /\ Len(Since(s, h)) = Len(s) - n
           /\ \A k \in 1..(Len(s) - n) : Since(s, h)[k] = s[n + k]
    BY <1>1, SinceDrops, Zenon
  <2> QED BY <2>1 DEF h, Times
<1> DEFINE lb == Len(b)
           ls == Len(s)
           lt == Len(t)
<1>3. /\ lb \in Nat /\ ls \in Nat /\ \A k \in 1..ls : s[k] \in 0..c
  BY ElementOfSeq, LenProperties
<1>4. /\ lb <= limit /\ ls <= lb /\ lt = ls - n /\ n \in 0..ls
      /\ \A k \in 1..ls : s[k] = b[k + (lb - ls)]
      /\ \A j, k \in 1..ls : j <= k => s[j] <= s[k]
      /\ n < ls => s[n + 1] >= h
      /\ \A k \in 1..lt : t[k] = s[n + k]
  BY <1>2 DEF Covers
<1> HIDE DEF t, lb, ls, lt
<1>5. lt <= lb /\ lt \in Nat
  BY <1>3, <1>4
<1>6. ASSUME NEW k \in 1..lt PROVE t[k] = b[k + (lb - lt)] /\ (c + 1) - t[k] < Window
  <2>1. n + k \in 1..ls /\ n + 1 \in 1..ls /\ n + 1 <= n + k /\ n < ls
    <3>1. ls \in Nat /\ n \in 0..ls /\ lt = ls - n
      BY <1>3, <1>4
    <3> QED
      BY <3>1
  <2>2. (n + k) + (lb - ls) = k + (lb - lt)
    BY <1>3, <1>4
  <2>3. t[k] = s[n + k] /\ s[n + k] = b[(n + k) + (lb - ls)]
    BY <2>1, <1>4
  <2>4. s[n + 1] >= h /\ s[n + 1] <= s[n + k]
    BY <2>1, <1>4
  <2>5. s[n + 1] \in 0..c /\ s[n + k] \in 0..c
    BY <2>1, <1>3
  <2>6. (c + 1) - s[n + k] < Window
    <3>1. ASSUME NEW x \in 0..c, NEW y \in 0..c, x >= h, x <= y PROVE (c + 1) - y < Window
      BY <3>1, Amounts
    <3> QED
      BY <2>4, <2>5, <3>1
  <2> QED
    BY <2>2, <2>3, <2>6
<1>7. ASSUME NEW j \in 1..lt, NEW k \in 1..lt, j <= k PROVE t[j] <= t[k]
  <2>1. n + k \in 1..ls /\ n + j \in 1..ls /\ n + j <= n + k
    BY <1>3, <1>4, <1>7
  <2> QED
    BY <2>1, <1>4
<1>8. Covers(b, t, c + 1, limit)
  <2>1. /\ lb <= limit /\ lt <= lb
        /\ \A k \in 1..lt : t[k] = b[k + (lb - lt)]
        /\ \A k \in 1..lt : (c + 1) - t[k] < Window
        /\ \A j, k \in 1..lt : j <= k => t[j] <= t[k]
    BY <1>4, <1>5, <1>6, <1>7
  <2>2. Covers(b, t, c + 1, limit) <=>
           /\ Len(b) <= limit /\ Len(t) <= Len(b)
           /\ \A k \in 1..Len(t) : t[k] = b[k + (Len(b) - Len(t))]
           /\ \A k \in 1..Len(t) : (c + 1) - t[k] < Window
           /\ \A j, k \in 1..Len(t) : j <= k => t[j] <= t[k]
    BY Zenon DEF Covers
  <2> QED
    BY <2>1, <2>2, Zenon DEF lb, lt
<1> QED
  BY <1>2, <1>8 DEF t
\* The wait an identity is told lasts a second at least, and falls short of what is left of
\* the window of its oldest entry by less than a second.
LEMMA WaitOf ==
  ASSUME clock \in Nat, NEW oldest \in 0..clock, oldest >= clock - Window
  PROVE  /\ Second * RetryAfter(oldest) \in Nat
         /\ Second * RetryAfter(oldest) >= Second
         /\ clock + Second * RetryAfter(oldest) + Second > oldest + Window
<1> DEFINE x == Window - (clock - oldest)
           q == x \div Second
           p == Second * q
<1>1. x \in Nat /\ Second \in Nat \ {0}
  BY Amounts
<1>2. q \in Nat /\ p > x - Second /\ p \in Nat
  <2> HIDE DEF x
  <2> QED BY <1>1, RoundedDown
<1>3. RetryAfter(oldest) = IF q < 1 THEN 1 ELSE q
  BY DEF RetryAfter
<1>4. CASE q < 1
  <2>1. q = 0 /\ RetryAfter(oldest) = 1
    BY <1>2, <1>3, <1>4
  <2>2. p = 0 /\ Second * RetryAfter(oldest) = Second
    BY <2>1, <1>1
  <2>3. Second > x
    <3> HIDE DEF x, q, p
    <3> QED BY <2>2, <1>1, <1>2
  <2> QED
    BY <2>2, <2>3, <1>1, Amounts
<1>5. CASE q >= 1
  <2>1. RetryAfter(oldest) = q
    BY <1>2, <1>3, <1>5
  <2>2. p >= Second
    <3>1. q - 1 \in Nat
      BY <1>2, <1>5
    <3>2. \A k \in Nat : Second * k \in Nat
      BY <1>1
    <3>3. Second * q = (Second * (q - 1)) + Second
      BY <1>1, <1>2
    <3> QED
      BY <3>1, <3>2, <3>3, <1>1
  <2>3. Second * RetryAfter(oldest) = p
    BY <2>1
  <2>4. p + Second > Window - (clock - oldest)
    <3> HIDE DEF q, p
    <3> QED BY <1>1, <1>2
  <2> HIDE DEF p
  <2> QED
    BY <2>2, <2>3, <2>4, <1>1, <1>2, Amounts
<1> QED
  BY <1>2, <1>4, <1>5

\* A refusal keeps the promise: the client that waited is told a time after its oldest entry
\* has left, and the one that waited twice is not refused.
LEMMA RefusalPromises ==
  ASSUME clock \in Nat, NEW limit \in Nat \ {0}, NEW b \in Seq(0..clock), Len(b) <= limit,
         NEW at \in Nat, NEW times \in Nat, Promises(b, at, times, limit),
         NEW r, r = Since(b, clock - Window), Len(r) >= limit,
         NEW at1, at1 = clock + Second * RetryAfter(Head(r)),
         NEW times1, times1 = IF times > 0 /\ clock >= at THEN times + 1 ELSE 1
  PROVE  at1 \in Nat /\ times1 \in Nat /\ Promises(r, at1, times1, limit)
<1> DEFINE h == clock - Window
           Times == 0..clock
<1>1. Times \in SUBSET Int /\ h \in Int /\ b \in Seq(Times)
  BY Amounts
<1>2. PICK n \in 0..Len(b) :
           /\ n < Len(b) => b[n + 1] >= h
           /\ r \in Seq(Times)
           /\ Len(r) = Len(b) - n
           /\ \A k \in 1..(Len(b) - n) : r[k] = b[n + k]
  <2> HIDE DEF h, Times
  <2>1. \E n \in 0..Len(b) :
           /\ \A k \in 1..n : b[k] < h
           /\ n < Len(b) => b[n + 1] >= h
           /\ Since(b, h) \in Seq(Times)
           /\ Len(Since(b, h)) = Len(b) - n
           /\ \A k \in 1..(Len(b) - n) : Since(b, h)[k] = b[n + k]
    BY <1>1, SinceDrops, Zenon
  <2> QED BY <2>1 DEF h
<1>3. Len(b) \in Nat /\ Len(r) \in Nat
  BY <1>2, LenProperties
<1>4. n = 0 /\ Len(b) = limit /\ Len(r) = limit /\ 1 \in 1..Len(b)
  BY <1>2, <1>3
<1>5. r[1] = b[1] /\ b[1] >= h /\ b[1] \in 0..clock /\ Head(r) = b[1]
  <2>1. r[1] = b[1] /\ b[1] >= h
    BY <1>2, <1>4
  <2>2. b[1] \in 0..clock
    BY <1>4, ElementOfSeq
  <2>3. Head(r) = r[1]
    BY <1>2, <1>4
  <2> QED
    BY <2>1, <2>2, <2>3
<1> DEFINE old == b[1]
           wait == Second * RetryAfter(old)
<1>6. /\ wait \in Nat /\ wait >= Second
      /\ clock + wait + Second > old + Window
  BY <1>5, WaitOf
<1>7. at1 = clock + wait
  BY <1>5
<1>8. old \in 0..clock /\ old >= clock - Window /\ r[1] = old
  BY <1>5
<1>9. /\ times <= 2
      /\ times = 1 => at + Second > old + Window
      /\ times = 2 => at > old + Window
  BY <1>4 DEF Promises
<1> HIDE DEF old, wait
<1>10. times \in Nat /\ at \in Nat /\ Second \in Nat \ {0} /\ Window \in Nat \ {0}
  BY Amounts
<1>11. times1 = IF times > 0 /\ clock >= at THEN times + 1 ELSE 1
  OBVIOUS
<1>12. at1 \in Nat /\ times1 \in Nat
  BY <1>6, <1>7, <1>10, <1>11
<1>13. CASE times > 0 /\ clock >= at
  <2>1. times # 2
    BY <1>8, <1>9, <1>10, <1>13
  <2>2. times = 1 /\ times1 = 2
    BY <2>1, <1>9, <1>10, <1>11, <1>13
  <2>3. at1 > old + Window
    BY <2>2, <1>6, <1>7, <1>8, <1>9, <1>10, <1>13
  <2>4. at1 > r[1] + Window
    BY <2>3, <1>8
  <2>5. Promises(r, at1, times1, limit)
    <3>1. times1 <= 2 /\ times1 # 1
      BY <2>2
    <3> QED
      BY <2>4, <3>1 DEF Promises
  <2> QED
    BY <2>5, <1>12
<1>14. CASE ~(times > 0 /\ clock >= at)
  <2>1. times1 = 1
    BY <1>11, <1>14
  <2>2. at1 + Second > old + Window
    BY <1>6, <1>7
  <2>3. at1 + Second > r[1] + Window /\ times1 <= 2 /\ times1 # 2
    <3>1. r[1] = old
      BY <1>8
    <3>2. at1 + Second > r[1] + Window
      BY <3>1, <2>2, Zenon
    <3> QED
      BY <3>2, <2>1
  <2>4. Promises(r, at1, times1, limit)
    BY <2>1, <2>3 DEF Promises
  <2> QED
    BY <2>4, <1>12
<1> QED
  BY <1>13, <1>14
-----------------------------------------------------------------------------
(* The inductive invariant.                                                *)

\* The deque of an identity: that of one without a bucket is empty.
Held(i) == IF i \in Buckets THEN bucket[i] ELSE <<>>

\* Every identity: its deque covers what it was admitted to, and promises what it was told.
ClientInv(i) ==
  /\ Covers(Held(i), served[i], clock, i.limit)
  /\ Promises(Held(i), told[i].at, told[i].times, i.limit)

LimiterInv == LimiterTypeOK /\ \A i \in Identities : ClientInv(i)

\* A request is charged to an identity, and an identity has a positive limit.
LEMMA ClientsAreIdentities ==
  /\ Clients \subseteq Identities
  /\ \A i \in Identities : i.limit \in Nat \ {0}
<1>1. ASSUME NEW i \in Clients PROVE i \in Identities
  <2>1. PICK peer \in Peers, forwarded \in Peers \union {Nothing}, cookie \in Cookies \union {Nothing} :
           i = Identify(peer, forwarded, cookie)
    BY DEF Clients
  <2>2. CASE cookie # Nothing
    <3>1. i = [kind |-> "session", of |-> cookie, limit |-> UserLimit] /\ cookie \in Cookies
      BY <2>1, <2>2 DEF Identify
    <3> QED
      BY <3>1 DEF Identities
  <2>3. CASE cookie = Nothing
    <3>1. ClientIp(peer, forwarded) \in Peers
      BY DEF ClientIp
    <3>2. i = [kind |-> "ip", of |-> ClientIp(peer, forwarded), limit |-> Limit]
      BY <2>1, <2>3 DEF Identify
    <3> QED
      BY <3>1, <3>2 DEF Identities
  <2> QED
    BY <2>2, <2>3
<1>2. ASSUME NEW i \in Identities PROVE i.limit \in {UserLimit, Limit}
  BY DEF Identities
<1> QED
  BY <1>1, <1>2, Amounts

\* What an identity holds, was served and was told, in any state of the right type.
LEMMA ClientTyped ==
  ASSUME LimiterTypeOK, NEW i \in Identities
  PROVE  /\ clock \in Nat
         /\ Held(i) \in Seq(0..clock) /\ served[i] \in Seq(0..clock)
         /\ told[i].at \in Nat /\ told[i].times \in Nat
         /\ i.limit \in Nat \ {0}
<1>1. clock \in Nat
  BY DEF LimiterTypeOK, LimiterAssumption
<1>2. Held(i) \in Seq(0..clock)
  BY EmptySeq DEF Held, LimiterTypeOK
<1>3. served[i] \in Seq(0..clock) /\ told[i] \in [at: Nat, times: Nat]
  BY DEF LimiterTypeOK
<1> QED
  BY <1>1, <1>2, <1>3, ClientsAreIdentities

\* A deque that is gone promises nothing more.
LEMMA EmptyPromises ==
  ASSUME NEW limit \in Nat \ {0}, NEW at, NEW times \in Nat, times <= 2
  PROVE  Promises(<<>>, at, times, limit)
<1>1. Len(<<>>) = 0 /\ ~(0 >= limit)
  OBVIOUS
<1> QED
  BY <1>1 DEF Promises

\* The empty deque covers the client that was not served.
LEMMA EmptyCovers ==
  ASSUME NEW limit \in Nat, NEW c
  PROVE  Covers(<<>>, <<>>, c, limit)
<1>1. Len(<<>>) = 0 /\ 0 <= limit /\ 1..0 = {}
  OBVIOUS
<1> QED
  BY <1>1 DEF Covers

\* The first state.
LEMMA LimiterInvInit == LimiterInit => LimiterInv
<1> SUFFICES ASSUME LimiterInit PROVE LimiterInv
  OBVIOUS
<1>1. Buckets = {} /\ clock = 0
  BY DEF LimiterInit, Buckets
<1>2. LimiterTypeOK
  <2>1. \A i \in Identities : served[i] = <<>> /\ told[i] = [at |-> 0, times |-> 0]
    BY DEF LimiterInit
  <2>2. <<>> \in Seq(0..clock)
    BY EmptySeq
  <2>3. served \in [Identities -> Seq(0..clock)]
    BY <2>2 DEF LimiterInit
  <2>4. told \in [Identities -> [at: Nat, times: Nat]]
    BY DEF LimiterInit
  <2> QED
    BY <1>1, <2>3, <2>4 DEF LimiterTypeOK, LimiterAssumption
<1>3. ASSUME NEW i \in Identities PROVE ClientInv(i)
  <2>1. Held(i) = <<>> /\ served[i] = <<>> /\ told[i].at = 0 /\ told[i].times = 0
    BY <1>1 DEF Held, LimiterInit
  <2>2. i.limit \in Nat \ {0}
    BY ClientsAreIdentities
  <2>3. Promises(<<>>, 0, 0, i.limit) /\ Covers(<<>>, <<>>, clock, i.limit)
    BY <2>2, EmptyPromises, EmptyCovers
  <2> QED
    BY <2>1, <2>3 DEF ClientInv
<1> QED
  BY <1>2, <1>3 DEF LimiterInv

\* The clock moves on.
LEMMA LimiterInvTick == LimiterInv /\ Tick => LimiterInv'
<1> SUFFICES ASSUME LimiterInv, Tick PROVE LimiterInv'
  OBVIOUS
<1>1. LimiterTypeOK /\ clock \in Nat /\ clock' = clock + 1 /\ clock' \in 0..MaxTime
  BY DEF LimiterInv, LimiterTypeOK, Tick, LimiterAssumption
<1>2. UNCHANGED <<bucket, told>>
  BY DEF Tick
<1>3. ASSUME NEW i \in Identities
      PROVE  /\ served'[i] \in Seq(0..clock)
             /\ Covers(Held(i), served'[i], clock', i.limit)
  <2>1. served'[i] = Since(served[i], ((clock + 1) - Window) + 1)
    BY <1>1 DEF Tick
  <2>2. Covers(Held(i), served[i], clock, i.limit)
    BY DEF LimiterInv, ClientInv
  <2>3. Held(i) \in Seq(0..clock) /\ served[i] \in Seq(0..clock) /\ i.limit \in Nat
    BY <1>1, ClientTyped
  <2> QED
    BY <2>1, <2>2, <2>3, <1>1, TickCovers
<1>4. \A s \in Seq(0..clock) : s \in Seq(0..clock')
  BY <1>1, SeqMonotonic
<1>5. LimiterTypeOK'
  <2>1. served' \in [Identities -> Seq(0..clock')]
    BY <1>3, <1>4 DEF Tick
  <2>2. \A i \in Buckets : bucket[i] \in Seq(0..clock')
    BY <1>1, <1>4 DEF LimiterTypeOK
  <2> QED
    BY <1>1, <1>2, <2>1, <2>2 DEF LimiterTypeOK, Buckets
<1>6. ASSUME NEW i \in Identities PROVE ClientInv(i)'
  <2>1. Held(i)' = Held(i) /\ told'[i] = told[i]
    BY <1>2 DEF Held, Buckets
  <2>2. Promises(Held(i), told[i].at, told[i].times, i.limit)
    BY DEF LimiterInv, ClientInv
  <2> QED
    BY <1>3, <2>1, <2>2 DEF ClientInv
<1> QED
  BY <1>5, <1>6 DEF LimiterInv
\* The cleanup keeps deques as they are, and drops those that are empty or out of the window.
LEMMA CleanedKeeps ==
  ASSUME NEW b, NEW x \in DOMAIN b
  PROVE  /\ DOMAIN Cleaned(b) \subseteq DOMAIN b
         /\ x \in DOMAIN Cleaned(b) => Cleaned(b)[x] = b[x]
         /\ x \notin DOMAIN Cleaned(b) => b[x] = <<>> \/ ~(clock - b[x][Len(b[x])] < Window)
<1>1. CASE Cardinality(DOMAIN b) > MaxBuckets
  <2>1. Cleaned(b) = [y \in Kept(b) |-> b[y]]
    BY <1>1 DEF Cleaned
  <2> QED
    BY <2>1 DEF Kept
<1>2. CASE ~(Cardinality(DOMAIN b) > MaxBuckets)
  BY <1>2 DEF Cleaned
<1> QED
  BY <1>1, <1>2

\* What is recent of an identity that holds a deque, or none.
LEMMA RecentOfHeld ==
  ASSUME LimiterInv, NEW i \in Identities
  PROVE  /\ Recent(i) \in Seq(0..clock)
         /\ Covers(Recent(i), served[i], clock, i.limit)
         /\ i \in Buckets => Recent(i) = Since(Held(i), clock - Window)
<1>1. /\ Held(i) \in Seq(0..clock) /\ served[i] \in Seq(0..clock)
      /\ clock \in Nat /\ i.limit \in Nat
      /\ Covers(Held(i), served[i], clock, i.limit)
  BY ClientTyped DEF LimiterInv, ClientInv
<1>2. CASE i \in Buckets
  <2>1. Recent(i) = Since(Held(i), clock - Window)
    BY <1>2 DEF Recent, Held
  <2> QED
    BY <2>1, <1>1, RecentCovers
<1>3. CASE i \notin Buckets
  <2>1. Recent(i) = <<>> /\ Held(i) = <<>>
    BY <1>3 DEF Recent, Held
  <2> QED
    BY <2>1, <1>1, <1>3, EmptySeq
<1> QED
  BY <1>2, <1>3

\* The other identities: what each holds stays, or is dropped when it covers nothing.
LEMMA OthersKeep ==
  ASSUME LimiterInv, NEW i \in Identities, NEW j \in Identities, j # i,
         UNCHANGED clock, served'[j] = served[j], told'[j] = told[j],
         Held(j)' = Held(j) \/ (Held(j)' = <<>> /\ (Held(j) = <<>> \/ ~(clock - Held(j)[Len(Held(j))] < Window)))
  PROVE  ClientInv(j)'
<1>1. /\ Held(j) \in Seq(0..clock) /\ served[j] \in Seq(0..clock)
      /\ clock \in Nat /\ j.limit \in Nat \ {0} /\ told[j].times \in Nat
      /\ Covers(Held(j), served[j], clock, j.limit)
      /\ Promises(Held(j), told[j].at, told[j].times, j.limit)
  BY ClientTyped DEF LimiterInv, ClientInv
<1>2. CASE Held(j)' = Held(j)
  BY <1>1, <1>2 DEF ClientInv
<1>3. CASE Held(j)' = <<>> /\ (Held(j) = <<>> \/ ~(clock - Held(j)[Len(Held(j))] < Window))
  <2>1. Covers(<<>>, served[j], clock, j.limit)
    BY <1>1, <1>3, DroppedCovers
  <2>2. told[j].times <= 2
    BY <1>1 DEF Promises
  <2>3. Promises(<<>>, told[j].at, told[j].times, j.limit)
    BY <2>2, <1>1, EmptyPromises
  <2> QED
    BY <2>1, <2>3, <1>3 DEF ClientInv
<1> QED
  BY <1>2, <1>3

\* The newest entry of a deque is the one appended last.
LEMMA AppendLast ==
  ASSUME NEW c \in Nat, NEW r \in Seq(0..c)
  PROVE  Append(r, c) # <<>> /\ Append(r, c)[Len(Append(r, c))] = c
<1>1. c \in 0..c
  OBVIOUS
<1> QED
  BY <1>1, AppendProperties

\* A request is admitted.
LEMMA LimiterInvAdmit ==
  ASSUME NEW i \in Identities, LimiterInv, Admit(i)
  PROVE  LimiterInv'
<1> DEFINE all == With(i, Append(Recent(i), clock))
<1>1. /\ LimiterTypeOK /\ clock \in Nat /\ i.limit \in Nat \ {0} /\ UNCHANGED clock
      /\ served[i] \in Seq(0..clock)
  BY ClientTyped DEF LimiterInv, Admit
<1>2. /\ Recent(i) \in Seq(0..clock) /\ Covers(Recent(i), served[i], clock, i.limit)
      /\ Len(Recent(i)) < i.limit
  BY RecentOfHeld DEF Admit
<1>3. /\ Append(Recent(i), clock) \in Seq(0..clock)
      /\ Append(served[i], clock) \in Seq(0..clock)
      /\ Covers(Append(Recent(i), clock), Append(served[i], clock), clock, i.limit)
  BY <1>1, <1>2, AppendCovers, AppendProperties
<1>4. /\ bucket' = Cleaned(all)
      /\ served' = [served EXCEPT ![i] = Append(served[i], clock)]
      /\ told' = [told EXCEPT ![i] = [at |-> 0, times |-> 0]]
  BY DEF Admit
<1>5. /\ DOMAIN all = Buckets \union {i} /\ all[i] = Append(Recent(i), clock)
      /\ \A x \in Buckets : x # i => all[x] = bucket[x]
  BY DEF With
<1> HIDE DEF all
<1>6. ASSUME NEW x \in DOMAIN all
      PROVE  /\ Buckets' \subseteq DOMAIN all
             /\ x \in Buckets' => bucket'[x] = all[x]
             /\ x \notin Buckets' => all[x] = <<>> \/ ~(clock - all[x][Len(all[x])] < Window)
  BY <1>4, CleanedKeeps DEF Buckets
<1>7. Buckets' \subseteq Buckets \union {i}
  BY <1>5, <1>6
<1>8. i \in Buckets' /\ Held(i)' = Append(Recent(i), clock)
  <2>1. all[i] # <<>> /\ all[i][Len(all[i])] = clock
    <3>1. Append(Recent(i), clock) # <<>> /\ Append(Recent(i), clock)[Len(Append(Recent(i), clock))] = clock
      BY <1>1, <1>2, AppendLast
    <3> QED
      BY <3>1, <1>5
  <2>2. clock - clock < Window
    BY <1>1, Amounts
  <2>3. i \in Buckets'
    BY <2>1, <2>2, <1>5, <1>6
  <2> QED
    BY <2>3, <1>5, <1>6 DEF Held
<1>9. ClientInv(i)'
  <2>1. served'[i] = Append(served[i], clock) /\ told'[i].at = 0 /\ told'[i].times = 0
    BY <1>1, <1>4 DEF LimiterTypeOK
  <2>2. Promises(Append(Recent(i), clock), 0, 0, i.limit)
    BY DEF Promises
  <2> QED
    BY <2>1, <2>2, <1>1, <1>3, <1>8 DEF ClientInv
<1>10. ASSUME NEW j \in Identities, j # i PROVE ClientInv(j)'
  <2>1. served'[j] = served[j] /\ told'[j] = told[j]
    BY <1>1, <1>4, <1>10 DEF LimiterTypeOK
  <2>2. CASE j \in Buckets'
    <3>1. j \in Buckets /\ bucket'[j] = bucket[j]
      BY <2>2, <1>5, <1>6, <1>7, <1>10
    <3>2. Held(j)' = Held(j)
      BY <3>1, <2>2 DEF Held
    <3> QED
      BY <3>2, <2>1, <1>1, <1>10, OthersKeep
  <2>3. CASE j \notin Buckets' /\ j \in Buckets
    <3>1. Held(j)' = <<>> /\ Held(j) = all[j]
      BY <2>3, <1>5, <1>10 DEF Held
    <3>2. Held(j) = <<>> \/ ~(clock - Held(j)[Len(Held(j))] < Window)
      BY <3>1, <2>3, <1>5, <1>6
    <3> QED
      BY <3>1, <3>2, <2>1, <1>1, <1>10, OthersKeep
  <2>4. CASE j \notin Buckets' /\ j \notin Buckets
    <3>1. Held(j)' = Held(j)
      BY <2>4 DEF Held
    <3> QED
      BY <3>1, <2>1, <1>1, <1>10, OthersKeep
  <2> QED
    BY <2>2, <2>3, <2>4
<1>11. LimiterTypeOK'
  <2>1. Buckets' \subseteq Identities
    BY <1>1, <1>7 DEF LimiterTypeOK
  <2>2. ASSUME NEW x \in Buckets' PROVE bucket'[x] \in Seq(0..clock)
    <3>1. bucket'[x] = all[x] /\ x \in Buckets \union {i}
      BY <2>2, <1>5, <1>6
    <3>2. all[x] \in Seq(0..clock)
      BY <3>1, <1>1, <1>3, <1>5 DEF LimiterTypeOK
    <3> QED
      BY <3>1, <3>2
  <2>3. served' \in [Identities -> Seq(0..clock)]
    BY <1>1, <1>3, <1>4 DEF LimiterTypeOK
  <2>4. told' \in [Identities -> [at: Nat, times: Nat]]
    <3>1. [at |-> 0, times |-> 0] \in [at: Nat, times: Nat]
      OBVIOUS
    <3> QED
      BY <3>1, <1>1, <1>4 DEF LimiterTypeOK
  <2> QED
    BY <2>1, <2>2, <2>3, <2>4, <1>1 DEF LimiterTypeOK
<1> QED
  BY <1>9, <1>10, <1>11 DEF LimiterInv
\* A request is refused.
LEMMA LimiterInvRefuse ==
  ASSUME NEW i \in Identities, LimiterInv, Refuse(i)
  PROVE  LimiterInv'
<1> DEFINE all == With(i, Recent(i))
           at1 == clock + Second * RetryAfter(Head(Recent(i)))
           times1 == IF told[i].times > 0 /\ clock >= told[i].at THEN told[i].times + 1 ELSE 1
<1>1. /\ LimiterTypeOK /\ clock \in Nat /\ i.limit \in Nat \ {0} /\ UNCHANGED <<clock, served>>
      /\ Held(i) \in Seq(0..clock) /\ told[i].at \in Nat /\ told[i].times \in Nat
  BY ClientTyped DEF LimiterInv, Refuse
<1>2. /\ Recent(i) \in Seq(0..clock) /\ Covers(Recent(i), served[i], clock, i.limit)
      /\ Len(Recent(i)) >= i.limit
  BY RecentOfHeld DEF Refuse
<1>3. i \in Buckets
  <2>1. SUFFICES ASSUME i \notin Buckets PROVE FALSE
    OBVIOUS
  <2>2. Recent(i) = <<>>
    BY <2>1 DEF Recent
  <2>3. Len(<<>>) = 0
    OBVIOUS
  <2> QED
    BY <2>2, <2>3, <1>1, <1>2
<1>4. Recent(i) = Since(Held(i), clock - Window)
  BY <1>3, RecentOfHeld
<1>5. Len(Held(i)) <= i.limit /\ Promises(Held(i), told[i].at, told[i].times, i.limit)
  BY DEF LimiterInv, ClientInv, Covers
<1>6. at1 \in Nat /\ times1 \in Nat /\ Promises(Recent(i), at1, times1, i.limit)
  <2> DEFINE r == Recent(i)
             b == Held(i)
             at == told[i].at
             times == told[i].times
  <2>1. /\ r = Since(b, clock - Window) /\ Len(r) >= i.limit
        /\ at1 = clock + Second * RetryAfter(Head(r))
        /\ times1 = IF times > 0 /\ clock >= at THEN times + 1 ELSE 1
    BY <1>2, <1>4
  <2>2. /\ b \in Seq(0..clock) /\ Len(b) <= i.limit /\ at \in Nat /\ times \in Nat
        /\ Promises(b, at, times, i.limit) /\ clock \in Nat /\ i.limit \in Nat \ {0}
    BY <1>1, <1>5
  <2> HIDE DEF r, b, at, times, at1, times1
  <2>3. ASSUME NEW lim, lim = i.limit
        PROVE  at1 \in Nat /\ times1 \in Nat /\ Promises(r, at1, times1, lim)
    <3>1. lim \in Nat \ {0} /\ Len(b) <= lim /\ Promises(b, at, times, lim) /\ Len(r) >= lim
      BY <2>1, <2>2, <2>3
    <3>2. b \in Seq(0..clock) /\ at \in Nat /\ times \in Nat /\ clock \in Nat
      BY <2>2
    <3>3. r = Since(b, clock - Window)
      BY <2>1
    <3>4. at1 = clock + Second * RetryAfter(Head(r))
      BY <2>1
    <3>5. times1 = IF times > 0 /\ clock >= at THEN times + 1 ELSE 1
      BY <2>1
    <3> QED
      BY <3>1, <3>2, <3>3, <3>4, <3>5, RefusalPromises
  <2> QED
    BY <2>3 DEF r
<1>7. bucket' = all /\ told' = [told EXCEPT ![i] = [at |-> at1, times |-> times1]]
  BY DEF Refuse
<1>8. /\ DOMAIN all = Buckets \union {i} /\ all[i] = Recent(i)
      /\ \A x \in Buckets : x # i => all[x] = bucket[x]
  BY DEF With
<1> HIDE DEF all, at1, times1
<1>9. Buckets' = Buckets
  BY <1>3, <1>7, <1>8 DEF Buckets
<1>10. Held(i)' = Recent(i)
  BY <1>3, <1>7, <1>8, <1>9 DEF Held
<1>11. ClientInv(i)'
  <2>1. told'[i].at = at1 /\ told'[i].times = times1
    BY <1>1, <1>7 DEF LimiterTypeOK
  <2> QED
    BY <2>1, <1>1, <1>2, <1>6, <1>10 DEF ClientInv
<1>12. ASSUME NEW j \in Identities, j # i PROVE ClientInv(j)'
  <2>1. served'[j] = served[j] /\ told'[j] = told[j]
    BY <1>1, <1>7, <1>12 DEF LimiterTypeOK
  <2>2. Held(j)' = Held(j)
    BY <1>7, <1>8, <1>9, <1>12 DEF Held
  <2> QED
    BY <2>1, <2>2, <1>1, <1>12, OthersKeep
<1>13. LimiterTypeOK'
  <2>1. \A x \in Buckets' : bucket'[x] \in Seq(0..clock)
    BY <1>1, <1>2, <1>7, <1>8, <1>9 DEF LimiterTypeOK
  <2>2. told' \in [Identities -> [at: Nat, times: Nat]]
    <3>1. [at |-> at1, times |-> times1] \in [at: Nat, times: Nat]
      BY <1>6
    <3> QED
      BY <3>1, <1>1, <1>7 DEF LimiterTypeOK
  <2> QED
    BY <2>1, <2>2, <1>1, <1>9 DEF LimiterTypeOK
<1> QED
  BY <1>11, <1>12, <1>13 DEF LimiterInv

\* A step that changes nothing.
LEMMA LimiterInvStutter == LimiterInv /\ UNCHANGED limiterVars => LimiterInv'
<1> SUFFICES ASSUME LimiterInv, UNCHANGED limiterVars PROVE LimiterInv'
  OBVIOUS
<1>1. UNCHANGED <<clock, bucket, served, told>>
  BY DEF limiterVars
<1>2. LimiterTypeOK'
  BY <1>1 DEF LimiterInv, LimiterTypeOK, Buckets
<1>3. ASSUME NEW i \in Identities PROVE ClientInv(i)'
  <2>1. Held(i)' = Held(i)
    BY <1>1 DEF Held, Buckets
  <2> QED
    BY <2>1, <1>1 DEF LimiterInv, ClientInv
<1> QED
  BY <1>2, <1>3 DEF LimiterInv

-----------------------------------------------------------------------------
(* Theorems.                                                               *)

\* The inductive invariant: every deque covers what its owner was admitted to within the
\* window, and promises what it was told.
THEOREM LimiterInvariant == LimiterSpec => []LimiterInv
<1>1. LimiterInit => LimiterInv
  BY LimiterInvInit
<1>2. LimiterInv /\ [LimiterNext]_limiterVars => LimiterInv'
  <2> SUFFICES ASSUME LimiterInv, [LimiterNext]_limiterVars PROVE LimiterInv'
    OBVIOUS
  <2>1. CASE Tick
    BY <2>1, LimiterInvTick
  <2>2. ASSUME NEW i \in Clients, Admit(i) PROVE LimiterInv'
    BY <2>2, ClientsAreIdentities, LimiterInvAdmit
  <2>3. ASSUME NEW i \in Clients, Refuse(i) PROVE LimiterInv'
    BY <2>3, ClientsAreIdentities, LimiterInvRefuse
  <2>4. CASE UNCHANGED limiterVars
    BY <2>4, LimiterInvStutter
  <2> QED
    BY <2>1, <2>2, <2>3, <2>4 DEF LimiterNext
<1> QED
  BY <1>1, <1>2, PTL DEF LimiterSpec

\* Every variable stays within its type: the deques hold past times of identities a request
\* can be charged to.
THEOREM LimiterTyped == LimiterSpec => []LimiterTypeOK
<1>1. LimiterInv => LimiterTypeOK
  BY DEF LimiterInv
<1> QED
  BY <1>1, LimiterInvariant, PTL

\* No client is served above its limit within less than a window, whatever deques the cleanup
\* has forgotten meanwhile.
THEOREM ClientsAreBounded == LimiterSpec => []RateBounded
<1>1. LimiterInv => RateBounded
  <2> SUFFICES ASSUME LimiterInv, NEW i \in Identities PROVE Len(served[i]) <= i.limit
    BY DEF RateBounded
  <2>1. Len(served[i]) <= Len(Held(i)) /\ Len(Held(i)) <= i.limit
    BY DEF LimiterInv, ClientInv, Covers
  <2>2. Len(served[i]) \in Nat /\ Len(Held(i)) \in Nat /\ i.limit \in Nat
    BY ClientTyped, LenProperties DEF LimiterInv
  <2> QED
    BY <2>1, <2>2
<1> QED
  BY <1>1, LimiterInvariant, PTL

\* A client that comes back when Retry-After says so is refused at most twice in a row, for
\* every limit, window and length of a second.
THEOREM WaitingIsEnough == LimiterSpec => []WaitingHelps
<1>1. LimiterInv => WaitingHelps
  BY DEF LimiterInv, ClientInv, Promises, WaitingHelps
<1> QED
  BY <1>1, LimiterInvariant, PTL
===============================================================================
