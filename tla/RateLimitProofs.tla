--------------------------- MODULE RateLimitProofs ---------------------------
(***************************************************************************)
(* The rate limit keeps its bound for any limits, windows, requests and    *)
(* identities.                                                             *)
(***************************************************************************)
EXTENDS RateLimit, FiniteSetTheorems, TLAPS

USE RateLimitAssumption

Call == [at : Nat, allowed : BOOLEAN]

\* How many of the calls q were granted from one time on and before another.
In(q, from, to) == {n \in 1..Len(q) : q[n].allowed /\ from <= q[n].at /\ q[n].at < to}
N(q, from, to) == Cardinality(In(q, from, to))

LEMMA InFinite ==
    ASSUME NEW q \in Seq(Call), NEW from, NEW to
    PROVE  IsFiniteSet(In(q, from, to)) /\ N(q, from, to) \in Nat
<1>1. Len(q) \in Nat
  OBVIOUS
<1>2. IsFiniteSet(1..Len(q))
  BY <1>1, FS_Interval
<1>3. In(q, from, to) \in SUBSET (1..Len(q))
  BY DEF In
<1>4. IsFiniteSet(In(q, from, to))
  BY <1>2, <1>3, FS_Subset
<1> QED BY <1>4, FS_CardinalityType DEF N

\* One call more: counted in the stretches it lies in, if it is granted.
LEMMA NAppend ==
    ASSUME NEW q \in Seq(Call), NEW c \in Call, NEW from \in Int, NEW to \in Int
    PROVE  /\ N(Append(q, c), from, to) <= N(q, from, to) + 1
           /\ ~c.allowed \/ c.at < from \/ c.at >= to => N(Append(q, c), from, to) = N(q, from, to)
<1> DEFINE p == Append(q, c)
           S == In(q, from, to)
           T == In(p, from, to)
           l == Len(q) + 1
<1>1. /\ p \in Seq(Call) /\ Len(q) \in Nat /\ Len(p) = l /\ p[l] = c
      /\ \A n \in 1..Len(q) : p[n] = q[n]
  OBVIOUS
<1>2. 1..Len(p) = (1..Len(q)) \cup {l} /\ l \notin 1..Len(q)
  BY <1>1
<1> HIDE DEF p, l
<1>3. T \subseteq S \cup {l} /\ S \subseteq T /\ l \notin S
  BY <1>1, <1>2 DEF In
<1>4. ~c.allowed \/ c.at < from \/ c.at >= to => T = S
  <2>1. c.at \in Int
    BY DEF Call
  <2>2. ~c.allowed \/ c.at < from \/ c.at >= to => ~(p[l].allowed /\ from <= p[l].at /\ p[l].at < to)
    BY <1>1, <2>1
  <2> QED BY <1>2, <1>3, <2>2 DEF In
<1>5. IsFiniteSet(S) /\ Cardinality(S) \in Nat
  BY InFinite DEF N
<1> HIDE DEF S, T
<1>6. Cardinality(S \cup {l}) = Cardinality(S) + 1 /\ IsFiniteSet(S \cup {l})
  BY <1>3, <1>5, FS_AddElement
<1>7. Cardinality(T) <= Cardinality(S) + 1
  BY <1>3, <1>6, FS_Subset
<1> QED BY <1>4, <1>7 DEF N, S, T, p

\* A stretch that covers the granted calls of another has as many.
LEMMA NCovers ==
    ASSUME NEW q \in Seq(Call), NEW from \in Int, NEW to \in Int, NEW a \in Int, NEW b \in Int,
           \A n \in 1..Len(q) : from <= q[n].at /\ q[n].at < to => a <= q[n].at /\ q[n].at < b
    PROVE  N(q, from, to) <= N(q, a, b)
<1>1. In(q, from, to) \subseteq In(q, a, b)
  BY DEF In
<1> QED BY <1>1, InFinite, FS_Subset DEF N

\* A stretch has no more than its two parts.
LEMMA NSplit ==
    ASSUME NEW q \in Seq(Call), NEW from \in Int, NEW mid \in Int, NEW to \in Int
    PROVE  N(q, from, to) <= N(q, from, mid) + N(q, mid, to)
<1> DEFINE S == In(q, from, mid)
           T == In(q, mid, to)
           U == In(q, from, to)
<1>1. ASSUME NEW n \in 1..Len(q) PROVE q[n].at \in Int
  <2>1. q[n] \in Call
    OBVIOUS
  <2> QED BY <2>1 DEF Call
<1>2. U \subseteq S \cup T
  BY <1>1 DEF In
<1>3. /\ IsFiniteSet(S) /\ IsFiniteSet(T)
      /\ Cardinality(S) \in Nat /\ Cardinality(T) \in Nat
  BY InFinite DEF N
<1> HIDE DEF S, T, U
<1>4. /\ IsFiniteSet(S \cup T)
      /\ Cardinality(S \cup T) = Cardinality(S) + Cardinality(T) - Cardinality(S \cap T)
  BY <1>3, FS_Union
<1>5. IsFiniteSet(S \cap T)
  BY <1>3, FS_Subset
<1>6. Cardinality(S \cap T) \in Nat
  BY <1>5, FS_CardinalityType
<1>7. Cardinality(U) <= Cardinality(S \cup T)
  BY <1>2, <1>4, FS_Subset
<1>8. IsFiniteSet(U)
  BY <1>2, <1>4, FS_Subset
<1>9. Cardinality(U) \in Nat /\ Cardinality(S \cup T) \in Nat
  BY <1>4, <1>8, FS_CardinalityType
<1>10. Cardinality(U) <= Cardinality(S) + Cardinality(T)
  BY <1>3, <1>4, <1>6, <1>7, <1>9
<1> QED BY <1>10 DEF N, S, T, U

-----------------------------------------------------------------------------
(* One key.  Its calls q, and the counter n whose window of length w ends  *)
(* at e, at time t; m calls are allowed in a window.                       *)

Burst(q, e, n, t, w, m) ==
    /\ n \in Nat /\ e \in Nat /\ (n = 0 => e = 0)
    /\ e - w <= t
    /\ \A i \in 1..Len(q) : q[i].at <= t /\ q[i].at < e
    \* in the last window, and in what is left of it after its first instant
    /\ N(q, e - w, e) <= m /\ N(q, e - w, e) <= n
    /\ \A from \in Int : from > e - w =>
          N(q, from, e) < m /\ (N(q, from, e) = 0 \/ N(q, from, e) < n)
    \* in the time before it that a stretch may share with it
    /\ \A from \in Int : from > e - 2 * w => N(q, from, e - w) < m
    /\ \A from \in Int : N(q, from, from + w) < 2 * m

LEMMA NoBurst ==
    ASSUME NEW t \in Nat, NEW w \in Nat, NEW m \in Nat \ {0}
    PROVE  Burst(<< >>, 0, 0, t, w, m)
<1>1. \A from, to : In(<< >>, from, to) = {}
  BY DEF In
<1>2. \A from, to : N(<< >>, from, to) = 0
  BY <1>1, FS_EmptySet DEF N
<1> QED BY <1>2 DEF Burst

\* Time passes.
LEMMA BurstTick ==
    ASSUME NEW q \in Seq(Call), NEW e, NEW n, NEW t \in Nat, NEW u \in Nat, t <= u,
           NEW w \in Nat, NEW m,
           Burst(q, e, n, t, w, m)
    PROVE  Burst(q, e, n, u, w, m)
<1>1. ASSUME NEW i \in 1..Len(q) PROVE q[i].at <= u
  <2>1. q[i] \in Call
    OBVIOUS
  <2>2. q[i].at \in Nat
    BY <2>1 DEF Call
  <2>3. q[i].at <= t
    BY DEF Burst
  <2> QED BY <2>2, <2>3
<1>2. e \in Nat /\ e - w <= t
  BY DEF Burst
<1>3. e - w <= u
  BY <1>2
<1> QED BY <1>1, <1>3, Zenon DEF Burst

\* A call within the window.
LEMMA BurstWithin ==
    ASSUME NEW q \in Seq(Call), NEW e, NEW n, NEW t \in Nat, NEW w \in Nat \ {0}, NEW m \in Nat \ {0},
           Burst(q, e, n, t, w, m), t < e, NEW c \in Call, c.at = t,
           c.allowed => n + 1 <= m
    PROVE  Burst(Append(q, c), e, n + 1, t, w, m)
<1> DEFINE p == Append(q, c)
<1>1. n \in Nat /\ e \in Nat /\ e \in Int /\ n # 0
  BY DEF Burst
<1>2. /\ \A from, to \in Int : N(p, from, to) <= N(q, from, to) + 1
      /\ \A from, to \in Int :
            ~c.allowed \/ t < from \/ t >= to => N(p, from, to) = N(q, from, to)
  BY NAppend
<1>3. \A from, to \in Int : N(q, from, to) \in Nat
  BY InFinite
<1>4. p \in Seq(Call)
  OBVIOUS
<1>5. \A from, to \in Int : N(p, from, to) \in Nat
  BY <1>4, InFinite
<1>6. ASSUME NEW i \in 1..Len(p) PROVE p[i].at \in Int /\ p[i].at <= t /\ p[i].at < e
  <2>1. CASE i \in 1..Len(q)
    <3>1. p[i] = q[i] /\ q[i] \in Call
      BY <2>1
    <3>2. q[i].at \in Int
      BY <3>1 DEF Call
    <3> QED BY <2>1, <3>1, <3>2 DEF Burst
  <2>2. CASE i = Len(q) + 1
    <3>1. p[i] = c
      BY <2>2
    <3> QED BY <1>1, <3>1
  <2>3. i \in 1..Len(q) \/ i = Len(q) + 1
    OBVIOUS
  <2> QED BY <2>1, <2>2, <2>3
<1> HIDE DEF p
<1>7. PICK s \in Int : s = e - w
  BY <1>1
<1>8. s <= t /\ s + w = e /\ e - 2 * w = s - w
  <2>1. e - w <= t
    BY Zenon DEF Burst
  <2> QED BY <1>1, <1>7, <2>1
<1>9. /\ N(q, s, e) <= m /\ N(q, s, e) <= n
      /\ \A from \in Int : from > s =>
            N(q, from, e) < m /\ (N(q, from, e) = 0 \/ N(q, from, e) < n)
      /\ \A from \in Int : from > e - 2 * w => N(q, from, s) < m
      /\ \A from \in Int : N(q, from, from + w) < 2 * m
  BY <1>7, Zenon DEF Burst
<1>10. N(p, s, e) <= m /\ N(p, s, e) <= n + 1
  <2>1. N(p, s, e) <= N(q, s, e) + 1 /\ (~c.allowed => N(p, s, e) = N(q, s, e))
    BY <1>1, <1>2
  <2>2. N(q, s, e) \in Nat /\ N(p, s, e) \in Nat
    BY <1>1, <1>3, <1>5, Zenon
  <2>3. PICK a \in Nat, b \in Nat : a = N(q, s, e) /\ b = N(p, s, e)
    BY <2>2, Zenon
  <2>4. a <= m /\ a <= n /\ b <= a + 1 /\ (~c.allowed => b = a)
    BY <1>9, <2>1, <2>3, Zenon
  <2>5. b <= m /\ b <= n + 1
    BY <1>1, <2>4
  <2> QED BY <2>3, <2>5, Zenon
<1>11. ASSUME NEW from \in Int, from > s
       PROVE  N(p, from, e) < m /\ (N(p, from, e) = 0 \/ N(p, from, e) < n + 1)
  <2>1. N(p, from, e) <= N(q, from, e) + 1 /\ (~c.allowed => N(p, from, e) = N(q, from, e))
    BY <1>1, <1>2
  <2>2. N(q, from, e) < m /\ (N(q, from, e) = 0 \/ N(q, from, e) < n)
    BY <1>9, <1>11
  <2>3. N(q, from, e) \in Nat /\ N(p, from, e) \in Nat
    BY <1>1, <1>3, <1>5, Zenon
  <2> QED BY <1>1, <2>1, <2>2, <2>3
<1>12. ASSUME NEW from \in Int, from > e - 2 * w
       PROVE  N(p, from, s) < m
  <2>1. N(p, from, s) = N(q, from, s)
    BY <1>2, <1>8
  <2> QED BY <1>9, <1>12, <2>1
<1>13. ASSUME NEW from \in Int PROVE N(p, from, from + w) < 2 * m
  <2>0. PICK to \in Int : to = from + w
    OBVIOUS
  <2>1. CASE t < from \/ t >= to
    <3>1. N(p, from, to) = N(q, from, to)
      BY <1>2, <2>1
    <3> QED BY <1>9, <2>0, <3>1
  <2>2. CASE from > s
    <3>1. N(p, from, to) <= N(p, from, e)
      BY <1>1, <1>4, <1>6, NCovers
    <3>2. N(p, from, to) \in Nat /\ N(p, from, e) \in Nat
      BY <1>1, <1>5, Zenon
    <3>3. N(p, from, e) < m
      BY <1>11, <2>2
    <3> QED BY <2>0, <3>1, <3>2, <3>3
  <2>3. CASE from <= s /\ t < to
    <3>1. N(p, from, to) <= N(p, from, s) + N(p, s, to)
      BY <1>4, NSplit
    <3>2. N(p, s, to) <= N(p, s, e)
      BY <1>1, <1>4, <1>6, NCovers
    <3>3. from > e - 2 * w
      BY <1>1, <1>8, <2>0, <2>3
    <3>4. N(p, from, s) < m
      BY <1>12, <3>3
    <3>5. /\ N(p, from, s) \in Nat /\ N(p, s, to) \in Nat
          /\ N(p, s, e) \in Nat /\ N(p, from, to) \in Nat
      BY <1>1, <1>5, Zenon
    <3> QED BY <1>10, <2>0, <3>1, <3>2, <3>4, <3>5
  <2> QED BY <2>1, <2>2, <2>3
<1>14. n + 1 \in Nat /\ n + 1 # 0 /\ e - w <= t
  BY <1>1, <1>7, <1>8
<1> QED BY <1>1, <1>6, <1>7, <1>10, <1>11, <1>12, <1>13, <1>14, Zenon DEF Burst, p

\* A call after the window: it opens the next.
LEMMA BurstOpens ==
    ASSUME NEW q \in Seq(Call), NEW e, NEW n, NEW t \in Nat, NEW w \in Nat \ {0}, NEW m \in Nat \ {0},
           Burst(q, e, n, t, w, m), ~(t < e), NEW c \in Call, c.at = t
    PROVE  Burst(Append(q, c), t + w, 1, t, w, m)
<1> DEFINE p == Append(q, c)
<1>1. e \in Nat /\ e \in Int /\ t \in Int /\ w \in Int
  BY DEF Burst
<1>2. /\ \A from, to \in Int : N(p, from, to) <= N(q, from, to) + 1
      /\ \A from, to \in Int :
            ~c.allowed \/ t < from \/ t >= to => N(p, from, to) = N(q, from, to)
  BY NAppend
<1>3. \A from, to \in Int : N(q, from, to) \in Nat
  BY InFinite
<1>4. p \in Seq(Call)
  OBVIOUS
<1>5. \A from, to \in Int : N(p, from, to) \in Nat
  BY <1>4, InFinite
<1>6. ASSUME NEW i \in 1..Len(q) PROVE q[i].at \in Int /\ q[i].at < e
  <2>1. q[i] \in Call
    OBVIOUS
  <2>2. q[i].at \in Int
    BY <2>1 DEF Call
  <2> QED BY <2>2 DEF Burst
<1>7. PICK d \in Int : d = t + w
  BY <1>1
<1>8. ASSUME NEW i \in 1..Len(p) PROVE p[i].at \in Int /\ p[i].at <= t /\ p[i].at < d
  <2>1. CASE i \in 1..Len(q)
    <3>1. p[i] = q[i]
      BY <2>1
    <3> QED BY <1>1, <1>6, <1>7, <2>1, <3>1
  <2>2. CASE i = Len(q) + 1
    <3>1. p[i] = c
      BY <2>2
    <3> QED BY <1>1, <1>7, <3>1
  <2>3. i \in 1..Len(q) \/ i = Len(q) + 1
    OBVIOUS
  <2> QED BY <2>1, <2>2, <2>3
<1>9. ASSUME NEW from \in Int, NEW to \in Int, from >= t PROVE N(q, from, to) = 0
  <2>1. In(q, from, to) = {}
    BY <1>1, <1>6, <1>9 DEF In
  <2> QED BY <2>1, FS_EmptySet DEF N
<1> HIDE DEF p
<1>10. N(p, t, d) <= m /\ N(p, t, d) <= 1
  <2>1. PICK b \in Nat : b = N(p, t, d)
    BY <1>1, <1>5, Zenon
  <2>2. N(p, t, d) <= N(q, t, d) + 1
    BY <1>1, <1>2, Zenon
  <2>3. N(q, t, d) = 0
    BY <1>1, <1>9
  <2>4. b <= 0 + 1
    BY <2>1, <2>2, <2>3, Zenon
  <2>5. b <= m /\ b <= 1
    BY <2>4
  <2> QED BY <2>1, <2>5, Zenon
<1>11. ASSUME NEW from \in Int, from > t
       PROVE  N(p, from, d) < m /\ (N(p, from, d) = 0 \/ N(p, from, d) < 1)
  <2>1. N(p, from, d) = N(q, from, d)
    BY <1>1, <1>2, <1>11
  <2>2. N(q, from, d) = 0
    BY <1>1, <1>9, <1>11
  <2>3. 0 < m
    OBVIOUS
  <2> QED BY <2>1, <2>2, <2>3, Zenon
<1>12. ASSUME NEW from \in Int, from > d - 2 * w PROVE N(p, from, t) < m
  <2>1. N(p, from, t) = N(q, from, t)
    BY <1>1, <1>2
  <2>2. N(q, from, t) <= N(q, from, e)
    BY <1>1, <1>6, NCovers
  <2>3. from > e - w
    BY <1>1, <1>7, <1>12
  <2>4. N(q, from, e) < m
    BY <2>3, Zenon DEF Burst
  <2>5. PICK a \in Nat, b \in Nat : a = N(q, from, t) /\ b = N(q, from, e)
    BY <1>1, <1>3, Zenon
  <2>6. a <= b /\ b < m
    BY <2>2, <2>4, <2>5, Zenon
  <2>7. a < m
    BY <2>6
  <2> QED BY <2>1, <2>5, <2>7, Zenon
<1>13. ASSUME NEW from \in Int PROVE N(p, from, from + w) < 2 * m
  <2>0. PICK to \in Int : to = from + w
    OBVIOUS
  <2>1. CASE t < from \/ t >= to
    <3>1. N(p, from, to) = N(q, from, to)
      BY <1>2, <2>1
    <3>2. N(q, from, from + w) < 2 * m
      BY Zenon DEF Burst
    <3> QED BY <2>0, <3>1, <3>2, Zenon
  <2>2. CASE from <= t /\ t < to
    <3>1. N(p, from, to) <= N(p, from, t) + N(p, t, to)
      BY <1>1, <1>4, NSplit
    <3>2. N(p, t, to) <= N(p, t, d)
      BY <1>1, <1>4, <1>8, NCovers
    <3>3. from > d - 2 * w
      BY <1>1, <1>7, <2>0, <2>2
    <3>4. N(p, from, t) < m
      BY <1>12, <3>3
    <3>5. PICK a \in Nat, b \in Nat, g \in Nat, h \in Nat :
             a = N(p, from, t) /\ b = N(p, t, to) /\ g = N(p, t, d) /\ h = N(p, from, to)
      BY <1>1, <1>5, Zenon
    <3>6. h <= a + b /\ b <= g /\ a < m /\ g <= m
      BY <1>10, <3>1, <3>2, <3>4, <3>5, Zenon
    <3>7. h < 2 * m
      BY <3>6
    <3> QED BY <2>0, <3>5, <3>7, Zenon
  <2> QED BY <1>1, <2>1, <2>2
<1>14. d \in Nat /\ d - w = t /\ t <= t
  BY <1>1, <1>7
<1>15. 1 \in Nat /\ 1 # 0
  OBVIOUS
<1> QED BY <1>7, <1>8, <1>10, <1>11, <1>12, <1>13, <1>14, <1>15, Zenon DEF Burst, p

-----------------------------------------------------------------------------
(* All keys.                                                               *)

Length(k) == WindowSeconds(k) * Second

LEMMA Sizes ==
    ASSUME NEW k \in Keys
    PROVE  /\ MaxAttempts[k[1]] \in Nat \ {0} /\ WindowSeconds(k) \in Nat /\ Length(k) \in Nat
<1>1. k[1] \in Kinds
  BY DEF Keys, Kinds
<1>2. MaxAttempts[k[1]] \in Nat \ {0} /\ Window[k[1]] \in Nat /\ Second \in Nat \ {0}
  BY <1>1
<1>3. ASSUME NEW a \in Nat, NEW b \in Nat \ {0} PROVE a \div b \in Nat
  OBVIOUS
<1>4. WindowSeconds(k) \in Nat
  BY <1>2, <1>3 DEF WindowSeconds
<1>5. ASSUME NEW a \in Nat, NEW b \in Nat PROVE a * b \in Nat
  OBVIOUS
<1> QED BY <1>2, <1>4, <1>5 DEF Length

Denial == [at : Nat, after : Nat]

\* A denial d, of a window of length w that ends at e: it lies before the end,
\* and if it is of this window then what it says is right to half a second.
Honest(d, e, w) ==
    /\ w > 0 => d.at < e
    /\ d.at < e /\ e <= d.at + w =>
          2 * ((d.at + d.after) - e) <= Second /\ 2 * ((d.at + d.after) - e) >= -Second

KeyInv(k) ==
    /\ redis[k].count = 0 => redis[k].expiresAt = 0
    /\ Length(k) > 0 =>
          Burst(calls[k], redis[k].expiresAt, redis[k].count, clock, Length(k), MaxAttempts[k[1]])
    /\ \A n \in 1..Len(retry[k]) : Honest(retry[k][n], redis[k].expiresAt, Length(k))

Inv == TypeOK /\ \A k \in Keys : KeyInv(k)

\* What Allow and LoseAnswer do to a key: c is the call.
Hit(k, c) ==
    /\ redis' = [redis EXCEPT ![k] = Eval(k)]
    /\ calls' = [calls EXCEPT ![k] = Append(@, c)]
    /\ \/ retry' = retry
       \/ /\ ~Allowed(k, Eval(k).count)
          /\ retry' = [retry EXCEPT ![k] = <<[at |-> clock, after |-> RetryAfter(k, Eval(k))]>>]
    /\ c \in Call /\ c.at = clock /\ (c.allowed => Allowed(k, Eval(k).count))
    /\ caller' \in [Callers -> Identities \cup {"none"}]
    /\ UNCHANGED clock

LEMMA AllowHits ==
    ASSUME TypeOK, NEW c \in Callers, NEW k \in Keys, NEW then \in Identities \cup {"none"},
           Allow(c, k, then)
    PROVE  \E x : Hit(k, x)
<1> DEFINE ok == Allowed(k, Eval(k).count)
           x == [at |-> clock, allowed |-> ok]
<1>1. ok \in BOOLEAN
  BY DEF Allowed
<1>2. x \in Call /\ x.at = clock /\ (x.allowed => ok)
  BY <1>1 DEF Call, TypeOK
<1>3. /\ redis' = [redis EXCEPT ![k] = Eval(k)]
      /\ calls' = [calls EXCEPT ![k] = Append(@, x)]
      /\ retry' = [retry EXCEPT ![k] =
                      IF ok THEN @ ELSE <<[at |-> clock, after |-> RetryAfter(k, Eval(k))]>>]
      /\ caller' = [caller EXCEPT ![c] = IF ok THEN then ELSE "none"]
      /\ UNCHANGED clock
  BY Zenon DEF Allow
<1> HIDE DEF x, ok
<1>4. caller' \in [Callers -> Identities \cup {"none"}]
  BY <1>3 DEF TypeOK
<1>5. CASE ok
  <2>1. retry' = retry
    BY <1>3, <1>5 DEF TypeOK
  <2>2. Hit(k, x)
    BY <1>2, <1>3, <1>4, <2>1, Zenon DEF Hit, ok
  <2> QED BY <2>2
<1>6. CASE ~ok
  <2>1. retry' = [retry EXCEPT ![k] = <<[at |-> clock, after |-> RetryAfter(k, Eval(k))]>>]
    BY <1>3, <1>6
  <2>2. Hit(k, x)
    BY <1>2, <1>3, <1>4, <1>6, <2>1, Zenon DEF Hit, ok
  <2> QED BY <2>2
<1> QED BY <1>5, <1>6

LEMMA LoseAnswerHits ==
    ASSUME TypeOK, NEW c \in Callers, NEW k \in Keys, LoseAnswer(c, k)
    PROVE  \E x : Hit(k, x)
<1> DEFINE x == [at |-> clock, allowed |-> FALSE]
<1>1. x \in Call /\ x.at = clock /\ ~x.allowed
  BY DEF Call, TypeOK
<1>2. /\ redis' = [redis EXCEPT ![k] = Eval(k)]
      /\ calls' = [calls EXCEPT ![k] = Append(@, x)]
      /\ retry' = retry /\ clock' = clock
      /\ caller' = [caller EXCEPT ![c] = "none"]
  BY Zenon DEF LoseAnswer
<1> HIDE DEF x
<1>3. caller' \in [Callers -> Identities \cup {"none"}]
  BY <1>2 DEF TypeOK
<1>4. Hit(k, x)
  BY <1>1, <1>2, <1>3, Zenon DEF Hit
<1> QED BY <1>4

\* The steps of a request are hits, or touch no key.
LEMMA StepKinds ==
    ASSUME TypeOK, Next
    PROVE  \/ \E k \in Keys : \E x : Hit(k, x)
           \/ /\ UNCHANGED <<redis, calls, retry>> /\ clock' \in Nat /\ clock <= clock'
              /\ caller' \in [Callers -> Identities \cup {"none"}]
<1>1. CASE Tick
  BY <1>1 DEF Tick, TypeOK
<1>2. ASSUME NEW c \in Callers, CheckIP(c) PROVE \E k \in Keys : \E x : Hit(k, x)
  <2>1. <<"ip">> \in Keys
    BY DEF Keys
  <2>2. CASE LoseAnswer(c, <<"ip">>)
    BY <2>1, <2>2, LoseAnswerHits
  <2>3. CASE \E i \in Identities : Allow(c, <<"ip">>, i)
    BY <2>1, <2>3, AllowHits
  <2> QED BY <1>2, <2>2, <2>3 DEF CheckIP
<1>3. ASSUME NEW c \in Callers, CheckIdentity(c) PROVE \E k \in Keys : \E x : Hit(k, x)
  <2>1. caller[c] \in Identities
    BY <1>3 DEF CheckIdentity, TypeOK
  <2>2. PICK k : k = <<"identity", caller[c]>>
    OBVIOUS
  <2>3. k \in Keys
    BY <2>1, <2>2 DEF Keys
  <2>4. CASE LoseAnswer(c, k)
    BY <2>3, <2>4, LoseAnswerHits
  <2>5. CASE Allow(c, k, "none")
    BY <2>3, <2>5, AllowHits
  <2> QED BY <1>3, <2>2, <2>4, <2>5 DEF CheckIdentity
<1>4. ASSUME NEW c \in Callers, GiveUp(c)
      PROVE  /\ UNCHANGED <<clock, redis, calls, retry>>
             /\ caller' \in [Callers -> Identities \cup {"none"}]
  BY <1>4 DEF GiveUp, TypeOK
<1>5. clock \in Nat
  BY DEF TypeOK
<1>6. clock <= clock
  BY <1>5
<1> QED BY <1>1, <1>2, <1>3, <1>4, <1>5, <1>6 DEF Next

\* The script's two cases: a hit in a window, and one that opens a window.
LEMMA EvalCases ==
    ASSUME TypeOK, NEW k \in Keys, KeyInv(k)
    PROVE  /\ clock < redis[k].expiresAt =>
                /\ Eval(k).count = redis[k].count + 1
                /\ Eval(k).expiresAt = redis[k].expiresAt
           /\ ~(clock < redis[k].expiresAt) =>
                Eval(k).count = 1 /\ Eval(k).expiresAt = clock + Length(k)
           /\ Eval(k) \in [count : Nat \ {0}, expiresAt : Nat]
           /\ Eval(k).count \in Nat \ {0}
<1>1. /\ clock \in Nat /\ redis[k].count \in Nat /\ redis[k].expiresAt \in Nat
      /\ redis[k] = [count |-> redis[k].count, expiresAt |-> redis[k].expiresAt]
  BY DEF TypeOK
<1>2. Length(k) \in Nat
  BY Sizes
<1>3. redis[k].count = 0 => redis[k].expiresAt = 0
  BY Zenon DEF KeyInv
<1>4. CASE clock < redis[k].expiresAt
  <2>1. Stored(k) = redis[k] /\ redis[k].count # 0
    BY <1>1, <1>3, <1>4 DEF Stored
  <2>2. Eval(k) = [count |-> redis[k].count + 1, expiresAt |-> redis[k].expiresAt]
    BY <2>1 DEF Eval
  <2>3. redis[k].count + 1 \in Nat \ {0}
    BY <1>1
  <2> QED BY <1>1, <1>4, <2>2, <2>3
<1>5. CASE ~(clock < redis[k].expiresAt)
  <2>1. Stored(k).count = 0
    BY <1>5 DEF Stored, Missing
  <2>2. Eval(k) = [count |-> 0 + 1, expiresAt |-> clock + Length(k)]
    BY <2>1 DEF Eval, Length
  <2>3. clock + Length(k) \in Nat /\ 0 + 1 = 1
    BY <1>1, <1>2
  <2> QED BY <1>1, <1>5, <2>2, <2>3
<1> QED BY <1>4, <1>5

LEMMA Division ==
    ASSUME NEW a \in Nat, NEW b \in Nat \ {0}
    PROVE  b * (a \div b) <= a /\ a < b * (a \div b) + b
<1>1. b * (a \div b) <= a
  OBVIOUS
<1>2. a = b * (a \div b) + (a % b) /\ a % b \in 0..(b - 1)
  OBVIOUS
<1>3. a < b * (a \div b) + b
  BY <1>2
<1> QED BY <1>1, <1>3

\* Redis rounds to the nearest second.
LEMMA Rounded ==
    ASSUME NEW x \in Nat \ {0}, NEW y \in Nat, y = (2 * x + Second) \div (2 * Second)
    PROVE  2 * (y * Second - x) <= Second /\ 2 * (y * Second - x) >= -Second
<1>1. Second \in Nat \ {0}
  OBVIOUS
<1>2. PICK a \in Nat, b \in Nat \ {0} : a = 2 * x + Second /\ b = 2 * Second
  BY <1>1
<1>3. b * y <= a /\ a < b * y + b
  <2>1. y = a \div b
    BY <1>2, Zenon
  <2>2. b * (a \div b) <= a /\ a < b * (a \div b) + b
    BY Division
  <2> QED BY <2>1, <2>2, Zenon
<1>4. PICK z \in Int : z = y * Second
  BY <1>1
<1>5. b * y = 2 * z
  BY <1>1, <1>2, <1>4
<1>6. 2 * z <= 2 * x + Second /\ 2 * x + Second < 2 * z + 2 * Second
  BY <1>2, <1>3, <1>5
<1>7. 2 * (z - x) <= Second /\ 2 * (z - x) >= -Second
  BY <1>1, <1>6
<1> QED BY <1>4, <1>7

\* What a denial in the window in force says.
LEMMA DenialIsHonest ==
    ASSUME TypeOK, NEW k \in Keys, KeyInv(k), ~Allowed(k, Eval(k).count)
    PROVE  /\ clock < redis[k].expiresAt
           /\ RetryAfter(k, Eval(k)) \in Nat
           /\ Honest([at |-> clock, after |-> RetryAfter(k, Eval(k))], redis[k].expiresAt, Length(k))
<1>1. clock < redis[k].expiresAt
  <2>1. MaxAttempts[k[1]] \in Nat \ {0}
    BY Sizes
  <2>2. Eval(k).count > MaxAttempts[k[1]]
    BY DEF Allowed
  <2>3. Eval(k).count # 1
    BY <2>1, <2>2
  <2> QED BY <2>3, EvalCases
<1>2. Eval(k).expiresAt = redis[k].expiresAt /\ clock \in Nat /\ redis[k].expiresAt \in Nat
  BY <1>1, EvalCases DEF TypeOK
<1>3. PICK x \in Nat \ {0} : x = redis[k].expiresAt - clock
  BY <1>1, <1>2
<1>4. PICK y : y = (2 * x + Second) \div (2 * Second)
  OBVIOUS
<1>5. y \in Nat
  <2>1. ASSUME NEW a \in Nat, NEW b \in Nat \ {0} PROVE a \div b \in Nat
    OBVIOUS
  <2>2. 2 * x + Second \in Nat /\ 2 * Second \in Nat \ {0}
    OBVIOUS
  <2> QED BY <1>4, <2>1, <2>2
<1>6. TTL(Eval(k)) = y
  BY <1>1, <1>2, <1>3, <1>4 DEF TTL
<1>7. RetryAfter(k, Eval(k)) = y * Second
  BY <1>5, <1>6 DEF RetryAfter
<1>8. PICK z \in Nat : z = y * Second
  <2>1. ASSUME NEW a \in Nat, NEW b \in Nat PROVE a * b \in Nat
    OBVIOUS
  <2>2. Second \in Nat
    OBVIOUS
  <2> QED BY <1>5, <2>1, <2>2
<1>9. 2 * (z - x) <= Second /\ 2 * (z - x) >= -Second
  BY <1>4, <1>5, <1>8, Rounded
<1>10. (clock + z) - redis[k].expiresAt = z - x
  BY <1>2, <1>3, <1>8
<1>11. Honest([at |-> clock, after |-> z], redis[k].expiresAt, Length(k))
  BY <1>1, <1>9, <1>10 DEF Honest
<1> QED BY <1>1, <1>7, <1>8, <1>11, Zenon

\* A denial of this window, or of the one before.
LEMMA HonestAfterHit ==
    ASSUME TypeOK, NEW k \in Keys, KeyInv(k), NEW d \in [at : Nat, after : Nat],
           Honest(d, redis[k].expiresAt, Length(k))
    PROVE  Honest(d, Eval(k).expiresAt, Length(k))
<1>1. PICK w \in Nat : w = Length(k)
  BY Sizes
<1>2. PICK e \in Nat, t \in Nat : e = redis[k].expiresAt /\ t = clock
  BY DEF TypeOK
<1>3. d.at \in Nat
  OBVIOUS
<1>4. CASE t < e
  <2>1. Eval(k).expiresAt = redis[k].expiresAt
    BY <1>2, <1>4, EvalCases
  <2> QED BY <2>1, Zenon
<1>5. CASE ~(t < e)
  <2>1. Eval(k).expiresAt = t + w
    BY <1>1, <1>2, <1>5, EvalCases
  <2>2. w > 0 => d.at < e
    BY <1>1, <1>2, Zenon DEF Honest
  <2>3. w > 0 => d.at < t
    BY <1>3, <1>5, <2>2
  <2>4. w > 0 => d.at < t + w
    BY <1>3, <2>3
  <2>5. ~(d.at < t + w /\ t + w <= d.at + w)
    BY <1>3, <2>3
  <2> QED BY <1>1, <2>1, <2>4, <2>5, Zenon DEF Honest
<1> QED BY <1>4, <1>5

LEMMA HitInv ==
    ASSUME Inv, NEW k \in Keys, NEW x, Hit(k, x)
    PROVE  Inv'
<1>1. TypeOK /\ KeyInv(k) /\ \A j \in Keys : KeyInv(j)
  BY DEF Inv
<1>2. /\ x \in Call /\ x.at = clock /\ clock' = clock
      /\ (x.allowed => Allowed(k, Eval(k).count))
      /\ redis' = [redis EXCEPT ![k] = Eval(k)] /\ calls' = [calls EXCEPT ![k] = Append(@, x)]
  BY DEF Hit
<1>3. /\ redis'[k] = Eval(k) /\ calls'[k] = Append(calls[k], x)
      /\ \A j \in Keys \ {k} : redis'[j] = redis[j] /\ calls'[j] = calls[j]
  BY <1>1, <1>2 DEF TypeOK
<1>4. PICK r : r = RetryAfter(k, Eval(k))
  OBVIOUS
<1>5. \/ retry' = retry
      \/ /\ ~Allowed(k, Eval(k).count)
         /\ retry' = [retry EXCEPT ![k] = <<[at |-> clock, after |-> r]>>]
  BY <1>4, Zenon DEF Hit
<1>6. ~Allowed(k, Eval(k).count) => r \in Nat
  BY <1>1, <1>4, DenialIsHonest
<1>7. TypeOK'
  <2>1. redis' \in [Keys -> [count : Nat, expiresAt : Nat]]
    <3>1. Eval(k) \in [count : Nat, expiresAt : Nat]
      BY <1>1, EvalCases
    <3> QED BY <1>1, <1>2, <3>1 DEF TypeOK
  <2>2. calls' \in [Keys -> Seq(Call)]
    BY <1>1, <1>2 DEF TypeOK, Call
  <2>3. retry' \in [Keys -> Seq([at : Nat, after : Nat])]
    <3>1. retry \in [Keys -> Seq([at : Nat, after : Nat])] /\ clock \in Nat
      BY <1>1 DEF TypeOK
    <3>2. CASE /\ ~Allowed(k, Eval(k).count)
               /\ retry' = [retry EXCEPT ![k] = <<[at |-> clock, after |-> r]>>]
      <4>1. PICK d \in [at : Nat, after : Nat] : d = [at |-> clock, after |-> r]
        BY <1>6, <3>1, <3>2
      <4>2. <<d>> \in Seq([at : Nat, after : Nat])
        OBVIOUS
      <4>3. retry' = [retry EXCEPT ![k] = <<d>>]
        BY <3>2, <4>1, Zenon
      <4> QED BY <3>1, <4>2, <4>3
    <3> QED BY <1>5, <3>1, <3>2
  <2>4. caller' \in [Callers -> Identities \cup {"none"}]
    BY DEF Hit
  <2>5. clock' \in Nat
    BY <1>1, <1>2 DEF TypeOK
  <2> QED BY <2>1, <2>2, <2>3, <2>4, <2>5, Zenon DEF TypeOK, Call
<1>8. Length(k)' = Length(k) /\ \A j \in Keys : Length(j)' = Length(j)
  BY DEF Length, WindowSeconds
<1>9. KeyInv(k)'
  <2>1. Eval(k).count # 0
    BY <1>1, EvalCases
  <2>2. ASSUME Length(k) > 0
        PROVE  Burst(Append(calls[k], x), Eval(k).expiresAt, Eval(k).count, clock,
                     Length(k), MaxAttempts[k[1]])
    <3>1. PICK w \in Nat \ {0}, m \in Nat \ {0} : w = Length(k) /\ m = MaxAttempts[k[1]]
      BY <2>2, Sizes
    <3>2. PICK q \in Seq(Call), t \in Nat, e \in Nat, n \in Nat :
             q = calls[k] /\ t = clock /\ e = redis[k].expiresAt /\ n = redis[k].count
      BY <1>1 DEF TypeOK, Call
    <3>3. Burst(q, e, n, t, w, m)
      BY <1>1, <2>2, <3>1, <3>2, Zenon DEF KeyInv
    <3>4. CASE t < e
      <4>1. Eval(k).count = n + 1 /\ Eval(k).expiresAt = e
        BY <1>1, <3>2, <3>4, EvalCases
      <4>2. Allowed(k, n + 1) => n + 1 <= m
        BY <3>1 DEF Allowed
      <4>3. x.allowed => n + 1 <= m
        BY <1>2, <4>1, <4>2, Zenon
      <4>4. Burst(Append(q, x), e, n + 1, t, w, m)
        BY <1>2, <3>2, <3>3, <3>4, <4>3, BurstWithin
      <4> QED BY <3>1, <3>2, <4>1, <4>4, Zenon
    <3>5. CASE ~(t < e)
      <4>1. Eval(k).count = 1 /\ Eval(k).expiresAt = t + w
        BY <1>1, <3>1, <3>2, <3>5, EvalCases
      <4>2. Burst(Append(q, x), t + w, 1, t, w, m)
        BY <1>2, <3>2, <3>3, <3>5, BurstOpens
      <4> QED BY <3>1, <3>2, <4>1, <4>2, Zenon
    <3> QED BY <3>4, <3>5
  <2>3. ASSUME NEW n \in 1..Len(retry'[k])
        PROVE  Honest(retry'[k][n], Eval(k).expiresAt, Length(k))
    <3>1. CASE retry' = retry
      <4>1. retry[k][n] \in [at : Nat, after : Nat] /\ n \in 1..Len(retry[k])
        <5>1. n \in 1..Len(retry[k])
          BY <2>3, <3>1
        <5>2. retry[k] \in Seq(Denial)
          BY <1>1 DEF TypeOK, Denial
        <5>3. retry[k][n] \in Denial
          BY <5>1, <5>2
        <5> QED BY <5>1, <5>3 DEF Denial
      <4>2. Honest(retry[k][n], redis[k].expiresAt, Length(k))
        BY <1>1, <4>1, Zenon DEF KeyInv
      <4> QED BY <1>1, <3>1, <4>1, <4>2, HonestAfterHit
    <3>2. CASE /\ ~Allowed(k, Eval(k).count)
               /\ retry' = [retry EXCEPT ![k] = <<[at |-> clock, after |-> r]>>]
      <4>1. PICK d : d = [at |-> clock, after |-> r]
        OBVIOUS
      <4>2. retry'[k] = <<d>>
        <5>1. retry' = [retry EXCEPT ![k] = <<d>>]
          BY <3>2, <4>1, Zenon
        <5>2. retry \in [Keys -> Seq([at : Nat, after : Nat])]
          BY <1>1 DEF TypeOK
        <5> QED BY <5>1, <5>2
      <4>5. retry'[k][n] = d
        BY <2>3, <4>2
      <4>3. /\ Honest([at |-> clock, after |-> r], redis[k].expiresAt, Length(k))
            /\ clock < redis[k].expiresAt
        BY <1>1, <1>4, <3>2, DenialIsHonest
      <4>4. Eval(k).expiresAt = redis[k].expiresAt
        BY <1>1, <4>3, EvalCases
      <4> QED BY <4>1, <4>3, <4>4, <4>5, Zenon
    <3> QED BY <1>5, <3>1, <3>2
  <2> QED BY <1>2, <1>3, <1>8, <2>1, <2>2, <2>3, Zenon DEF KeyInv
<1>10. ASSUME NEW j \in Keys, j # k PROVE KeyInv(j)'
  <2>1. retry'[j] = retry[j]
    BY <1>1, <1>5, <1>10 DEF TypeOK
  <2>2. redis'[j] = redis[j] /\ calls'[j] = calls[j]
    BY <1>3, <1>10
  <2> QED BY <1>1, <1>2, <1>8, <2>1, <2>2, Zenon DEF KeyInv
<1> QED BY <1>7, <1>9, <1>10 DEF Inv

-----------------------------------------------------------------------------
(* The theorems.                                                           *)

LEMMA InitInv ==
    Init => Inv
<1> SUFFICES ASSUME Init PROVE Inv
  OBVIOUS
<1>1. TypeOK
  BY DEF Init, TypeOK, Missing
<1>2. ASSUME NEW k \in Keys PROVE KeyInv(k)
  <2>1. /\ clock \in Nat /\ redis[k].count = 0 /\ redis[k].expiresAt = 0
        /\ calls[k] = << >> /\ retry[k] = << >>
    BY DEF Init, Missing
  <2>2. Length(k) > 0 => Burst(<< >>, 0, 0, clock, Length(k), MaxAttempts[k[1]])
    BY <2>1, Sizes, NoBurst
  <2>3. 1..Len(retry[k]) = {}
    BY <2>1
  <2> QED BY <2>1, <2>2, <2>3, Zenon DEF KeyInv
<1> QED BY <1>1, <1>2 DEF Inv

LEMMA NextInv ==
    Inv /\ [Next]_vars => Inv'
<1> SUFFICES ASSUME Inv, [Next]_vars PROVE Inv'
  OBVIOUS
<1>0. TypeOK /\ \A k \in Keys : KeyInv(k)
  BY DEF Inv
<1>1. ASSUME UNCHANGED <<redis, calls, retry>>, clock' \in Nat, clock <= clock',
             caller' \in [Callers -> Identities \cup {"none"}]
      PROVE  Inv'
  <2>1. TypeOK'
    BY <1>0, <1>1 DEF TypeOK
  <2>2. ASSUME NEW k \in Keys PROVE KeyInv(k)'
    <3>1. Length(k)' = Length(k)
      BY DEF Length, WindowSeconds
    <3>2. Length(k) > 0 =>
             Burst(calls[k], redis[k].expiresAt, redis[k].count, clock', Length(k), MaxAttempts[k[1]])
      <4>1. calls[k] \in Seq(Call) /\ clock \in Nat /\ Length(k) \in Nat
        BY <1>0, Sizes DEF TypeOK, Call
      <4>2. Length(k) > 0 =>
               Burst(calls[k], redis[k].expiresAt, redis[k].count, clock, Length(k), MaxAttempts[k[1]])
        BY <1>0, Zenon DEF KeyInv
      <4> QED BY <1>1, <4>1, <4>2, BurstTick
    <3>3. redis' = redis /\ calls' = calls /\ retry' = retry
      BY <1>1
    <3> QED BY <1>0, <3>1, <3>2, <3>3, Zenon DEF KeyInv
  <2> QED BY <2>1, <2>2 DEF Inv
<1>2. CASE UNCHANGED vars
  <2>1. /\ UNCHANGED <<redis, calls, retry>> /\ clock' \in Nat /\ clock <= clock'
        /\ caller' \in [Callers -> Identities \cup {"none"}]
    BY <1>0, <1>2 DEF vars, TypeOK
  <2> QED BY <1>1, <2>1
<1>3. CASE Next
  BY <1>0, <1>1, <1>3, StepKinds, HitInv
<1> QED BY <1>2, <1>3

LEMMA AlwaysInv ==
    Spec => []Inv
BY InitInv, NextInv, PTL DEF Spec

\* The counters, the requests and their history keep their types, whatever the
\* limits, the windows and the number of requests.
THEOREM RateLimitTypeCorrect ==
    Spec => []TypeOK
<1>1. Inv => TypeOK
  BY DEF Inv
<1> QED BY <1>1, AlwaysInv, PTL

\* For all limits and windows and any number of overlapping requests: no
\* stretch of a window's length sees twice the maximum granted (redis.go:19-20).
THEOREM BurstAlwaysBounded ==
    Spec => []BurstBounded
<1>1. Inv => BurstBounded
  <2> SUFFICES ASSUME Inv, NEW k \in Keys, NEW from \in 0..clock
               PROVE  Cardinality(Granted(k, from, from + Length(k))) < 2 * MaxAttempts[k[1]]
    BY DEF BurstBounded, Length
  <2>1. clock \in Nat /\ calls[k] \in Seq(Call) /\ KeyInv(k)
    BY DEF Inv, TypeOK, Call
  <2>2. from \in Int /\ Length(k) \in Nat /\ MaxAttempts[k[1]] \in Nat \ {0}
    BY <2>1, Sizes
  <2>3. Granted(k, from, from + Length(k)) = In(calls[k], from, from + Length(k))
    BY DEF Granted, In
  <2>4. CASE Length(k) > 0
    <3>1. N(calls[k], from, from + Length(k)) < 2 * MaxAttempts[k[1]]
      BY <2>1, <2>2, <2>4, Zenon DEF KeyInv, Burst
    <3> QED BY <2>3, <3>1, Zenon DEF N
  <2>5. CASE Length(k) = 0
    <3>1. ASSUME NEW n \in 1..Len(calls[k]) PROVE calls[k][n].at \in Int
      <4>1. calls[k][n] \in Call
        BY <2>1
      <4> QED BY <4>1 DEF Call
    <3>2. In(calls[k], from, from + Length(k)) = {}
      BY <2>2, <2>5, <3>1 DEF In
    <3>3. Cardinality(Granted(k, from, from + Length(k))) = 0
      BY <2>3, <3>2, FS_EmptySet
    <3> QED BY <2>2, <3>3
  <2> QED BY <2>2, <2>4, <2>5
<1> QED BY <1>1, AlwaysInv, PTL

\* What a denial says of the window in force is right to half a second
\* (redis.go:39-40), whatever the length of a window.
THEOREM RetryAfterAlwaysHonest ==
    Spec => []RetryAfterIsHonest
<1>1. Inv => RetryAfterIsHonest
  <2> SUFFICES ASSUME Inv, NEW k \in Keys, NEW n \in 1..Len(retry[k]),
                      retry[k][n].at < redis[k].expiresAt,
                      redis[k].expiresAt <= retry[k][n].at + WindowSeconds(k) * Second
               PROVE  /\ 2 * ((retry[k][n].at + retry[k][n].after) - redis[k].expiresAt) <= Second
                      /\ 2 * ((retry[k][n].at + retry[k][n].after) - redis[k].expiresAt) >= -Second
    BY Zenon DEF RetryAfterIsHonest
  <2>1. Honest(retry[k][n], redis[k].expiresAt, Length(k))
    BY Zenon DEF Inv, KeyInv
  <2> QED BY <2>1, Zenon DEF Honest, Length
<1> QED BY <1>1, AlwaysInv, PTL

\* No call prolongs a window that is running (redis.go:22-25): the script sets
\* an expiry only with the first hit, and a key in Redis has been hit.
THEOREM WindowNeverProlonged ==
    Spec => WindowNotProlonged
<1>1. Inv /\ [Next]_vars =>
         [\A k \in Keys : clock < redis[k].expiresAt => redis'[k].expiresAt = redis[k].expiresAt]_vars
  <2> SUFFICES ASSUME Inv, Next, NEW j \in Keys, clock < redis[j].expiresAt
               PROVE  redis'[j].expiresAt = redis[j].expiresAt
    OBVIOUS
  <2>1. TypeOK /\ \A k \in Keys : KeyInv(k)
    BY DEF Inv
  <2>2. CASE redis' = redis
    BY <2>2
  <2>3. ASSUME NEW k \in Keys, NEW x, Hit(k, x) PROVE redis'[j].expiresAt = redis[j].expiresAt
    <3>1. redis' = [redis EXCEPT ![k] = Eval(k)]
      BY <2>3 DEF Hit
    <3>2. CASE j = k
      <4>1. redis'[j] = Eval(j)
        BY <2>1, <3>1, <3>2 DEF TypeOK
      <4>2. Eval(j).expiresAt = redis[j].expiresAt
        BY <2>1, EvalCases
      <4> QED BY <4>1, <4>2
    <3>3. CASE j # k
      BY <2>1, <3>1, <3>3 DEF TypeOK
    <3> QED BY <3>2, <3>3
  <2> QED BY <2>1, <2>2, <2>3, StepKinds
<1> QED BY <1>1, AlwaysInv, PTL DEF Spec, WindowNotProlonged

-----------------------------------------------------------------------------
(* The identities' calls are paid for by the address's.                    *)

Tried == {t \in Keys \X (1..MaxCalls) : t[1] # <<"ip">> /\ t[2] <= Len(calls[t[1]])}
Busy == {c \in Callers : caller[c] # "none"}
Paid == N(calls[<<"ip">>], 0, clock + 1)

\* Each is finite, however many identities and requests there are.
PaidInv ==
    /\ IsFiniteSet(Tried) /\ IsFiniteSet(Busy)
    /\ Cardinality(Tried) + Cardinality(Busy) <= Paid

\* A request more or less.
LEMMA BusyStep ==
    ASSUME NEW c \in Callers, NEW v, caller \in [Callers -> Identities \cup {"none"}],
           IsFiniteSet(Busy), caller' = [caller EXCEPT ![c] = v]
    PROVE  /\ IsFiniteSet(Busy') /\ Cardinality(Busy) \in Nat /\ Cardinality(Busy') \in Nat
           /\ Cardinality(Busy') <= Cardinality(Busy) + 1
           /\ v = "none" => Cardinality(Busy') <= Cardinality(Busy)
           /\ v = "none" /\ caller[c] # "none" => Cardinality(Busy') + 1 <= Cardinality(Busy)
<1>1. /\ caller'[c] = v /\ \A x \in Callers \ {c} : caller'[x] = caller[x]
  OBVIOUS
<1>2. /\ Busy' \subseteq Busy \cup {c} /\ (v = "none" => Busy' \subseteq Busy)
      /\ (v = "none" /\ caller[c] # "none" => Busy' = Busy \ {c} /\ c \in Busy)
  BY <1>1 DEF Busy
<1>3. /\ IsFiniteSet(Busy \cup {c}) /\ Cardinality(Busy) \in Nat
      /\ Cardinality(Busy \cup {c}) <= Cardinality(Busy) + 1
  <2>1. Cardinality(Busy) \in Nat
    BY FS_CardinalityType
  <2>2. CASE c \in Busy
    <3>1. Busy \cup {c} = Busy
      BY <2>2
    <3> QED BY <2>1, <3>1
  <2>3. CASE c \notin Busy
    <3>1. IsFiniteSet(Busy \cup {c}) /\ Cardinality(Busy \cup {c}) = Cardinality(Busy) + 1
      BY <2>3, FS_AddElement
    <3> QED BY <2>1, <3>1
  <2> QED BY <2>2, <2>3
<1>4. IsFiniteSet(Busy') /\ Cardinality(Busy') <= Cardinality(Busy \cup {c})
  BY <1>2, <1>3, FS_Subset
<1>5. Cardinality(Busy') \in Nat /\ Cardinality(Busy \cup {c}) \in Nat
  BY <1>3, <1>4, FS_CardinalityType
<1>6. v = "none" => Cardinality(Busy') <= Cardinality(Busy)
  BY <1>2, FS_Subset
<1>7. ASSUME c \in Busy, Busy' = Busy \ {c} PROVE Cardinality(Busy') + 1 <= Cardinality(Busy)
  <2>1. Cardinality(Busy \ {c}) = Cardinality(Busy) - 1
    BY <1>7, FS_RemoveElement
  <2> QED BY <1>3, <1>7, <2>1
<1> QED BY <1>2, <1>3, <1>4, <1>5, <1>6, <1>7

\* A call of an identity more.
LEMMA TriedStep ==
    ASSUME TypeOK, NEW k \in Keys, NEW x, calls' = [calls EXCEPT ![k] = Append(@, x)],
           IsFiniteSet(Tried)
    PROVE  /\ IsFiniteSet(Tried') /\ Cardinality(Tried) \in Nat /\ Cardinality(Tried') \in Nat
           /\ Cardinality(Tried') <= Cardinality(Tried) + 1
           /\ k = <<"ip">> => Cardinality(Tried') = Cardinality(Tried)
<1>1. /\ calls'[k] = Append(calls[k], x) /\ \A j \in Keys \ {k} : calls'[j] = calls[j]
      /\ Len(calls[k]) \in Nat
  BY DEF TypeOK
<1>2. PICK l \in Nat : l = Len(calls[k]) + 1
  BY <1>1
<1>3. Len(calls'[k]) = l
  <2>1. calls[k] \in Seq(Call)
    BY DEF TypeOK, Call
  <2> QED BY <1>1, <1>2, <2>1
<1>4. PICK p : p = <<k, l>>
  OBVIOUS
<1>5. ASSUME NEW t \in Tried' PROVE t \in Tried \cup {p}
  <2>1. t \in Keys \X (1..MaxCalls) /\ t[1] # <<"ip">> /\ t[2] <= Len(calls'[t[1]])
    BY <1>5 DEF Tried
  <2>2. CASE t[1] # k
    <3>1. calls'[t[1]] = calls[t[1]]
      BY <1>1, <2>1, <2>2
    <3> QED BY <2>1, <3>1 DEF Tried
  <2>3. CASE t[1] = k
    <3>1. t[2] \in 1..MaxCalls /\ t[2] <= l /\ t = <<k, t[2]>>
      BY <1>3, <2>1, <2>3
    <3>2. t[2] = l \/ t[2] <= Len(calls[k])
      BY <1>1, <1>2, <3>1
    <3> QED BY <1>4, <2>1, <2>3, <3>1, <3>2 DEF Tried
  <2> QED BY <2>2, <2>3
<1>6. CASE k # <<"ip">>
  <2>1. Tried' \subseteq Tried \cup {p}
    BY <1>5
  <2>2. Cardinality(Tried) \in Nat
    BY FS_CardinalityType
  <2>3. IsFiniteSet(Tried \cup {p}) /\ Cardinality(Tried \cup {p}) <= Cardinality(Tried) + 1
    <3>1. CASE p \in Tried
      <4>1. Tried \cup {p} = Tried
        BY <3>1
      <4>2. Cardinality(Tried) <= Cardinality(Tried) + 1
        BY <2>2
      <4> QED BY <4>1, <4>2, Zenon
    <3>2. CASE p \notin Tried
      <4>1. IsFiniteSet(Tried \cup {p}) /\ Cardinality(Tried \cup {p}) = Cardinality(Tried) + 1
        BY <3>2, FS_AddElement, Zenon
      <4>2. Cardinality(Tried) + 1 <= Cardinality(Tried) + 1
        BY <2>2
      <4> QED BY <4>1, <4>2, Zenon
    <3> QED BY <3>1, <3>2
  <2>4. IsFiniteSet(Tried') /\ Cardinality(Tried') <= Cardinality(Tried \cup {p})
    BY <2>1, <2>3, FS_Subset
  <2>5. Cardinality(Tried') \in Nat /\ Cardinality(Tried \cup {p}) \in Nat
    BY <2>3, <2>4, FS_CardinalityType
  <2> QED BY <1>6, <2>2, <2>3, <2>4, <2>5
<1>7. CASE k = <<"ip">>
  <2>1. ASSUME NEW t \in Keys \X (1..MaxCalls), t[1] # <<"ip">> PROVE calls'[t[1]] = calls[t[1]]
    BY <1>1, <1>7, <2>1
  <2>2. Tried' = Tried
    BY <2>1 DEF Tried
  <2>3. Cardinality(Tried) \in Nat
    BY FS_CardinalityType
  <2> QED BY <2>2, <2>3
<1> QED BY <1>6, <1>7

\* A granted call counts.
LEMMA NGrows ==
    ASSUME NEW q \in Seq(Call), NEW c \in Call, NEW from \in Int, NEW to \in Int
    PROVE  /\ N(q, from, to) <= N(Append(q, c), from, to)
           /\ c.allowed /\ from <= c.at /\ c.at < to
                 => N(Append(q, c), from, to) = N(q, from, to) + 1
<1> DEFINE p == Append(q, c)
           S == In(q, from, to)
           T == In(p, from, to)
           l == Len(q) + 1
<1>1. /\ p \in Seq(Call) /\ Len(q) \in Nat /\ Len(p) = l /\ p[l] = c
      /\ \A n \in 1..Len(q) : p[n] = q[n]
  OBVIOUS
<1>2. 1..Len(p) = (1..Len(q)) \cup {l} /\ l \notin 1..Len(q)
  BY <1>1
<1> HIDE DEF p, l
<1>3. S \subseteq T /\ l \notin S
  BY <1>1, <1>2 DEF In
<1>4. c.allowed /\ from <= c.at /\ c.at < to => T = S \cup {l}
  <2>1. T \subseteq S \cup {l}
    BY <1>1, <1>2 DEF In
  <2>2. c.allowed /\ from <= c.at /\ c.at < to => l \in T
    BY <1>1, <1>2 DEF In
  <2> QED BY <1>3, <2>1, <2>2
<1>5. IsFiniteSet(S) /\ IsFiniteSet(T)
  BY <1>1, InFinite
<1> HIDE DEF S, T
<1>6. Cardinality(S) <= Cardinality(T)
  BY <1>3, <1>5, FS_Subset
<1>7. Cardinality(S \cup {l}) = Cardinality(S) + 1
  BY <1>3, <1>5, FS_AddElement
<1> QED BY <1>4, <1>6, <1>7 DEF N, S, T, p

LEMMA PaidStep ==
    ASSUME TypeOK, PaidInv, Next
    PROVE  PaidInv'
<1> DEFINE ip == <<"ip">>
<1>1. /\ ip \in Keys /\ calls[ip] \in Seq(Call) /\ clock \in Nat
      /\ caller \in [Callers -> Identities \cup {"none"}] /\ calls \in [Keys -> Seq(Call)]
  BY DEF TypeOK, Keys, Call
<1>2. PICK a \in Nat, b \in Nat, n \in Nat :
         a = Cardinality(Tried) /\ b = Cardinality(Busy) /\ n = Paid
  <2>1. Cardinality(Tried) \in Nat /\ Cardinality(Busy) \in Nat
    BY FS_CardinalityType DEF PaidInv
  <2>2. Paid \in Nat
    BY <1>1, InFinite DEF Paid
  <2> QED BY <2>1, <2>2
<1>3. IsFiniteSet(Tried) /\ IsFiniteSet(Busy) /\ a + b <= n
  BY <1>2 DEF PaidInv
\* A call of the address: grants at most what it counts.
<1>4. ASSUME NEW c \in Callers, NEW x \in Call, NEW v, x.at = clock, v = "none" \/ x.allowed,
             calls' = [calls EXCEPT ![ip] = Append(@, x)], clock' = clock,
             caller' = [caller EXCEPT ![c] = v]
      PROVE  PaidInv'
  <2>1. /\ IsFiniteSet(Tried') /\ Cardinality(Tried') = a
    BY <1>1, <1>2, <1>3, <1>4, TriedStep
  <2>2. /\ IsFiniteSet(Busy') /\ Cardinality(Busy') \in Nat
        /\ Cardinality(Busy') <= b + 1 /\ (v = "none" => Cardinality(Busy') <= b)
    BY <1>1, <1>2, <1>3, <1>4, BusyStep
  <2>3. Paid' = N(Append(calls[ip], x), 0, clock + 1)
    BY <1>1, <1>4 DEF Paid
  <2>4. Paid' \in Nat /\ n <= Paid' /\ (x.allowed => Paid' = n + 1)
    <3>1. 0 \in Int /\ clock + 1 \in Int /\ 0 <= clock /\ clock < clock + 1
      BY <1>1
    <3>2. /\ N(calls[ip], 0, clock + 1) <= N(Append(calls[ip], x), 0, clock + 1)
          /\ (x.allowed => N(Append(calls[ip], x), 0, clock + 1) = N(calls[ip], 0, clock + 1) + 1)
      BY <1>1, <1>4, <3>1, NGrows
    <3>3. N(Append(calls[ip], x), 0, clock + 1) \in Nat
      <4>1. PICK q \in Seq(Call) : q = calls[ip]
        BY <1>1
      <4>2. ASSUME NEW r \in Seq(Call) PROVE Append(r, x) \in Seq(Call)
        OBVIOUS
      <4>3. N(Append(q, x), 0, clock + 1) \in Nat
        BY <4>2, InFinite
      <4> QED BY <4>1, <4>3, Zenon
    <3> QED BY <1>2, <2>3, <3>2, <3>3 DEF Paid
  <2>5. a + Cardinality(Busy') <= Paid'
    <3>1. CASE v = "none"
      BY <1>3, <2>2, <2>4, <3>1
    <3>2. CASE x.allowed
      BY <1>3, <2>2, <2>4, <3>2
    <3> QED BY <1>4, <3>1, <3>2
  <2> QED BY <2>1, <2>2, <2>5 DEF PaidInv
\* A call of an identity: the request pays with its own grant.
<1>5. ASSUME NEW c \in Callers, NEW k \in Keys, k # ip, NEW x, caller[c] # "none",
             calls' = [calls EXCEPT ![k] = Append(@, x)], clock' = clock,
             caller' = [caller EXCEPT ![c] = "none"]
      PROVE  PaidInv'
  <2>1. IsFiniteSet(Tried') /\ Cardinality(Tried') \in Nat /\ Cardinality(Tried') <= a + 1
    BY <1>1, <1>2, <1>3, <1>5, TriedStep
  <2>2. IsFiniteSet(Busy') /\ Cardinality(Busy') \in Nat /\ Cardinality(Busy') + 1 <= b
    BY <1>1, <1>2, <1>3, <1>5, BusyStep
  <2>3. Paid' = n
    BY <1>1, <1>2, <1>5 DEF Paid
  <2>4. Cardinality(Tried') + Cardinality(Busy') <= n
    BY <1>3, <2>1, <2>2
  <2> QED BY <2>1, <2>2, <2>3, <2>4 DEF PaidInv
<1>6. CASE Tick
  <2>1. calls' = calls /\ caller' = caller /\ clock' = clock + 1
    BY <1>6 DEF Tick
  <2>2. Tried' = Tried /\ Busy' = Busy
    BY <2>1 DEF Tried, Busy
  <2>3. Paid' = N(calls[ip], 0, clock + 1 + 1)
    BY <2>1 DEF Paid
  <2>4. n <= Paid' /\ Paid' \in Nat
    <3>1. 0 \in Int /\ clock + 1 \in Int /\ clock + 1 + 1 \in Int
      BY <1>1
    <3>2. ASSUME NEW j \in 1..Len(calls[ip]), calls[ip][j].at < clock + 1
          PROVE  calls[ip][j].at < clock + 1 + 1
      <4>1. calls[ip][j] \in Call
        BY <1>1
      <4>2. calls[ip][j].at \in Nat
        BY <4>1 DEF Call
      <4> QED BY <1>1, <3>2, <4>2
    <3>3. N(calls[ip], 0, clock + 1) <= N(calls[ip], 0, clock + 1 + 1)
      BY <1>1, <3>1, <3>2, NCovers
    <3>4. N(calls[ip], 0, clock + 1 + 1) \in Nat
      BY <1>1, <3>1, InFinite
    <3> QED BY <1>2, <2>3, <3>3, <3>4 DEF Paid
  <2>5. a + b <= Paid'
    BY <1>3, <2>4
  <2> QED BY <1>2, <1>3, <2>2, <2>5 DEF PaidInv
<1>7. ASSUME NEW c \in Callers, GiveUp(c) PROVE PaidInv'
  <2>1. caller' = [caller EXCEPT ![c] = "none"] /\ UNCHANGED <<clock, calls>>
    BY <1>7 DEF GiveUp
  <2>2. IsFiniteSet(Busy') /\ Cardinality(Busy') \in Nat /\ Cardinality(Busy') <= b
    BY <1>1, <1>2, <1>3, <2>1, BusyStep
  <2>3. Tried' = Tried /\ Paid' = Paid
    BY <2>1 DEF Tried, Paid
  <2>4. a + Cardinality(Busy') <= n
    BY <1>3, <2>2
  <2> QED BY <1>2, <1>3, <2>2, <2>3, <2>4 DEF PaidInv
<1>8. ASSUME NEW c \in Callers, CheckIP(c) PROVE PaidInv'
  <2>1. ASSUME NEW i \in Identities, Allow(c, ip, i) PROVE PaidInv'
    <3>1. PICK ok \in BOOLEAN : ok = Allowed(ip, Eval(ip).count)
      BY DEF Allowed
    <3>2. PICK x : x = [at |-> clock, allowed |-> ok]
      OBVIOUS
    <3>3. x \in Call /\ x.at = clock /\ x.allowed = ok
      BY <1>1, <3>2 DEF Call
    <3>4. /\ calls' = [calls EXCEPT ![ip] = Append(@, x)] /\ clock' = clock
          /\ caller' = [caller EXCEPT ![c] = IF ok THEN i ELSE "none"]
      BY <2>1, <3>1, <3>2, Zenon DEF Allow
    <3>5. (IF ok THEN i ELSE "none") = "none" \/ x.allowed
      BY <3>3
    <3> QED BY <1>4, <3>3, <3>4, <3>5
  <2>2. CASE LoseAnswer(c, ip)
    <3>1. PICK x : x = [at |-> clock, allowed |-> FALSE]
      OBVIOUS
    <3>2. x \in Call /\ x.at = clock
      BY <1>1, <3>1 DEF Call
    <3>3. /\ calls' = [calls EXCEPT ![ip] = Append(@, x)] /\ clock' = clock
          /\ caller' = [caller EXCEPT ![c] = "none"]
      BY <2>2, <3>1, Zenon DEF LoseAnswer
    <3> QED BY <1>4, <3>2, <3>3
  <2> QED BY <1>8, <2>1, <2>2 DEF CheckIP
<1>9. ASSUME NEW c \in Callers, CheckIdentity(c) PROVE PaidInv'
  <2>1. PICK k : k = <<"identity", caller[c]>>
    OBVIOUS
  <2>2. k \in Keys /\ k # ip /\ caller[c] # "none"
    <3>1. caller[c] # "none" /\ caller[c] \in Identities
      BY <1>1, <1>9 DEF CheckIdentity
    <3> QED BY <2>1, <3>1 DEF Keys
  <2>3. CASE Allow(c, k, "none")
    <3>1. PICK x : x = [at |-> clock, allowed |-> Allowed(k, Eval(k).count)]
      OBVIOUS
    <3>2. /\ calls' = [calls EXCEPT ![k] = Append(@, x)] /\ clock' = clock
          /\ caller' = [caller EXCEPT ![c] = IF Allowed(k, Eval(k).count) THEN "none" ELSE "none"]
      BY <2>3, <3>1, Zenon DEF Allow
    <3>3. caller' = [caller EXCEPT ![c] = "none"]
      BY <3>2
    <3> QED BY <1>5, <2>2, <3>2, <3>3
  <2>4. CASE LoseAnswer(c, k)
    <3>1. PICK x : x = [at |-> clock, allowed |-> FALSE]
      OBVIOUS
    <3>2. /\ calls' = [calls EXCEPT ![k] = Append(@, x)] /\ clock' = clock
          /\ caller' = [caller EXCEPT ![c] = "none"]
      BY <2>4, <3>1, Zenon DEF LoseAnswer
    <3> QED BY <1>5, <2>2, <3>2
  <2> QED BY <1>9, <2>1, <2>3, <2>4 DEF CheckIdentity
<1> QED BY <1>6, <1>7, <1>8, <1>9 DEF Next

\* However many requests overlap and whichever answers are lost, no identity is
\* tried but on behalf of a request the address was granted (login.go:433-441).
THEOREM IdentityAlwaysBehindIP ==
    Spec => []IdentityBehindIP
<1>1. Init => PaidInv
  <2> SUFFICES ASSUME Init PROVE PaidInv
    OBVIOUS
  <2>1. ASSUME NEW k \in Keys PROVE Len(calls[k]) = 0
    BY DEF Init
  <2>2. ASSUME NEW t \in Keys \X (1..MaxCalls) PROVE ~(t[2] <= Len(calls[t[1]]))
    <3>1. t[1] \in Keys /\ t[2] \in 1..MaxCalls
      OBVIOUS
    <3> QED BY <2>1, <3>1
  <2>3. Tried = {}
    BY <2>2 DEF Tried
  <2>4. Busy = {}
    BY DEF Init, Busy
  <2>5. TypeOK
    BY InitInv DEF Inv
  <2>6. calls[<<"ip">>] \in Seq(Call) /\ clock \in Nat
    BY <2>5 DEF TypeOK, Call, Keys
  <2>7. Paid \in Nat
    BY <2>6, InFinite DEF Paid
  <2>8. IsFiniteSet({}) /\ Cardinality({}) = 0
    BY FS_EmptySet
  <2> QED BY <2>3, <2>4, <2>7, <2>8 DEF PaidInv
<1>2. TypeOK /\ PaidInv /\ [Next]_vars => PaidInv'
  <2> SUFFICES ASSUME TypeOK, PaidInv, UNCHANGED vars PROVE PaidInv'
    BY PaidStep
  <2> QED BY Zenon DEF vars, PaidInv, Tried, Busy, Paid
<1>3. PaidInv => IdentityBehindIP
  <2>1. Granted(<<"ip">>, 0, clock + 1) = In(calls[<<"ip">>], 0, clock + 1)
    BY Zenon DEF Granted, In
  <2> QED BY <2>1, Zenon DEF PaidInv, IdentityBehindIP, Tried, Busy, Paid, N
<1> QED BY <1>1, <1>2, <1>3, RateLimitTypeCorrect, PTL DEF Spec

=============================================================================
