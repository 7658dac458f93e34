------------------------------ MODULE RateLimit ------------------------------
(***************************************************************************)
(* The login rate limit: checkRateLimit of login.go, over the fixed-window *)
(* Limiter of internal/platform/ratelimit/redis.go, over Redis.  Requests  *)
(* of one address for several identities overlap; each takes two round     *)
(* trips to Redis, first for the address, then for the identity.           *)
(*                                                                         *)
(* Operators named Bug... are deliberate errors, as in CredentialAggregate.*)
(***************************************************************************)
EXTENDS Integers, Sequences, FiniteSets

CONSTANTS
    Callers,         \* requests that may overlap
    Identities,      \* what they try to log in as
    MaxAttempts,     \* by kind of key: RateLimitConfig's ...MaxAttempts
    Window,          \* by kind of key: RateLimitConfig's ...Window
    Second,          \* clock ticks in a second
    MaxClock,        \* bound: the clock stops here
    MaxCalls         \* bound: calls made under one key

Kinds == {"ip", "identity"}

ASSUME RateLimitAssumption ==
    /\ MaxAttempts \in [Kinds -> Nat \ {0}] /\ Window \in [Kinds -> Nat \ {0}]
    /\ Second \in Nat \ {0} /\ MaxClock \in Nat /\ MaxCalls \in Nat

\* "ratelimit:login:ip:..." and "ratelimit:login:identity:...".
Keys == {<<"ip">>} \cup {<<"identity", i>> : i \in Identities}

VARIABLES
    clock,
    redis,     \* by key: the counter and when it expires
    caller,    \* by request: the identity whose check is next, if any
    calls,     \* by key: when Allow was called, and whether it granted
    retry      \* by key: the last denial and when it was given

vars == <<clock, redis, caller, calls, retry>>

Missing == [count |-> 0, expiresAt |-> 0]

Init ==
    /\ clock = 0
    /\ redis = [k \in Keys |-> Missing]
    /\ caller = [c \in Callers |-> "none"]
    /\ calls = [k \in Keys |-> << >>]
    /\ retry = [k \in Keys |-> << >>]

\* int64(window.Seconds()).
WindowSeconds(k) == Window[k[1]] \div Second

\* What Redis holds now under a key: expired keys are gone.
Stored(k) == IF clock < redis[k].expiresAt THEN redis[k] ELSE Missing

\* Sets the expiry at every hit.
BugEval(k) ==
    [count |-> Stored(k).count + 1, expiresAt |-> clock + WindowSeconds(k) * Second]

\* allowScript.  EXPIRE with zero seconds deletes the key, as here.
Eval(k) ==
    LET s == Stored(k)
    IN  [count     |-> s.count + 1,
         expiresAt |-> IF s.count = 0 THEN clock + WindowSeconds(k) * Second ELSE s.expiresAt]

\* TTL: the remaining time to the nearest second, or negative without a key.
TTL(entry) ==
    IF clock < entry.expiresAt THEN (2 * (entry.expiresAt - clock) + Second) \div (2 * Second)
    ELSE -2

BugAllowed(k, count) == count <= MaxAttempts[k[1]] + 1

Allowed(k, count) == ~(count > MaxAttempts[k[1]])

\* The window's length rather than what is left of it.
BugRetryAfter(k, entry) == WindowSeconds(k) * Second

RetryAfter(k, entry) == (IF TTL(entry) < 0 THEN WindowSeconds(k) ELSE TTL(entry)) * Second

\* Allow: one round trip, then `then' or a denial, which ends the request.
Allow(c, k, then) ==
    LET entry == Eval(k)
        ok    == Allowed(k, entry.count)
    IN  /\ Len(calls[k]) < MaxCalls
        /\ redis' = [redis EXCEPT ![k] = entry]
        /\ calls' = [calls EXCEPT ![k] = Append(@, [at |-> clock, allowed |-> ok])]
        /\ retry' = [retry EXCEPT ![k] =
                        IF ok THEN @ ELSE <<[at |-> clock, after |-> RetryAfter(k, entry)]>>]
        /\ caller' = [caller EXCEPT ![c] = IF ok THEN then ELSE "none"]
        /\ UNCHANGED clock

\* Redis counts the call and its answer is lost: Allow returns an error, which
\* ends the request.
LoseAnswer(c, k) ==
    /\ Len(calls[k]) < MaxCalls
    /\ redis' = [redis EXCEPT ![k] = Eval(k)]
    /\ calls' = [calls EXCEPT ![k] = Append(@, [at |-> clock, allowed |-> FALSE])]
    /\ caller' = [caller EXCEPT ![c] = "none"]
    /\ UNCHANGED <<clock, retry>>

\* Goes on to the identity whatever the address's answer was.
BugCheckIP(c) ==
    /\ caller[c] = "none"
    /\ \E i \in Identities :
          /\ Len(calls[<<"ip">>]) < MaxCalls
          /\ redis' = [redis EXCEPT ![<<"ip">>] = Eval(<<"ip">>)]
          /\ calls' = [calls EXCEPT ![<<"ip">>] = Append(@,
                [at |-> clock, allowed |-> Allowed(<<"ip">>, Eval(<<"ip">>).count)])]
          /\ caller' = [caller EXCEPT ![c] = i]
          /\ UNCHANGED <<clock, retry>>

CheckIP(c) ==
    /\ caller[c] = "none"
    /\ (\E i \in Identities : Allow(c, <<"ip">>, i)) \/ LoseAnswer(c, <<"ip">>)

CheckIdentity(c) ==
    /\ caller[c] # "none"
    /\ LET k == <<"identity", caller[c]>>
       IN  Allow(c, k, "none") \/ LoseAnswer(c, k)

\* The second call does not reach Redis, or the request is cut off before it.
GiveUp(c) ==
    /\ caller[c] # "none"
    /\ caller' = [caller EXCEPT ![c] = "none"]
    /\ UNCHANGED <<clock, redis, calls, retry>>

Tick ==
    /\ clock < MaxClock
    /\ clock' = clock + 1
    /\ UNCHANGED <<redis, caller, calls, retry>>

Next ==
    \/ \E c \in Callers : CheckIP(c) \/ CheckIdentity(c) \/ GiveUp(c)
    \/ Tick

Spec == Init /\ [][Next]_vars

-----------------------------------------------------------------------------

\* The counters, the requests and their history keep their types.
TypeOK ==
    /\ clock \in Nat
    /\ redis \in [Keys -> [count : Nat, expiresAt : Nat]]
    /\ caller \in [Callers -> Identities \cup {"none"}]
    /\ calls \in [Keys -> Seq([at : Nat, allowed : BOOLEAN])]
    /\ retry \in [Keys -> Seq([at : Nat, after : Nat])]

Granted(k, from, to) ==
    {n \in 1..Len(calls[k]) :
        calls[k][n].allowed /\ from <= calls[k][n].at /\ calls[k][n].at < to}

\* "a burst at the window boundary can momentarily allow up to ~2x max"
\* (redis.go:19-20), and never quite that: the call that opens a window counts,
\* so no stretch of a window's length sees twice the maximum granted, however
\* the requests overlap and whichever answers are lost.
BurstBounded ==
    \A k \in Keys, from \in 0..clock :
        Cardinality(Granted(k, from, from + WindowSeconds(k) * Second)) < 2 * MaxAttempts[k[1]]

\* An identity is only ever tried on behalf of a request the address was
\* granted (login.go:433-441).
IdentityBehindIP ==
    LET tried == {t \in Keys \X (1..MaxCalls) : t[1] # <<"ip">> /\ t[2] <= Len(calls[t[1]])}
    IN  Cardinality(tried) + Cardinality({c \in Callers : caller[c] # "none"})
            <= Cardinality(Granted(<<"ip">>, 0, clock + 1))

\* "retryAfter is how long until the window resets" (redis.go:39-40), to
\* within the half second by which Redis rounds: the window in force at a
\* denial ends that long after it.
RetryAfterIsHonest ==
    \A k \in Keys : \A n \in 1..Len(retry[k]) :
        LET d == retry[k][n]
            error == (d.at + d.after) - redis[k].expiresAt
        IN  d.at < redis[k].expiresAt /\ redis[k].expiresAt <= d.at + WindowSeconds(k) * Second
               => 2 * error <= Second /\ 2 * error >= -Second

\* Attempts do not prolong a window: hammering a key never postpones its
\* reset (redis.go:22-25).
WindowNotProlonged ==
    [][\A k \in Keys : clock < redis[k].expiresAt => redis'[k].expiresAt = redis[k].expiresAt]_vars

=============================================================================
