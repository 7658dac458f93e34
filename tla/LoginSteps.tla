------------------------------ MODULE LoginSteps ------------------------------
(***************************************************************************)
(* What a step of a login does, and the invariants every step preserves,   *)
(* for any number of requests, every policy and every failure.             *)
(***************************************************************************)
EXTENDS Login, CredentialAggregateProofs

USE LoginAssumption, SessionPolicyType

\* The stages of a request before its outcome is on record, and those in which
\* it holds a credential.
Open == Stages \ {"mfaStore", "done"}
SessionStages == {"txPolicy", "txOldest", "txEvict", "txWrite"}
CredentialStages == {"decide", "txFail", "txForced", "txMFA"} \cup SessionStages

\* What a request may answer, "" for one that was cut off.
Answers == Responses \cup {""}

\* What holds of a request's local state m at time t, with the given rows.
Proper(m, t, rows) ==
    /\ m \in Request
    /\ m.now <= t
    /\ m.stage # "done" => m.response = ""
    /\ m.stage \in CredentialStages => Sound(m.cred)
    /\ m.stage \in SessionStages => SessionPolicyValid
    /\ m.stage = "txEvict" => m.evict # << >>
    /\ \A x \in m.evicted : rows[x] # NilSession
    /\ \A i \in 1..Len(m.evict) : rows[m.evict[i]] # NilSession

\* What is on record of request r.
Recorded(r) ==
    /\ req[r].stage \in Open => attempts[r] = ""
    /\ req[r].stage = "mfaStore" => attempts[r] = "MFA_REQUIRED"
    /\ req[r].stage # "done" => r \notin mfaStore
    /\ sessions[r] # NilSession <=> attempts[r] = "SUCCEEDED"
    /\ r \in families <=> attempts[r] = "SUCCEEDED"

DeviceRow ==
    [trustStatus : {"none", "REGISTERED", "REVOKED"}, lastSeenAt : Nat, revokedAt : OptTime]

\* A set of requests has a size, and as many different requests are all of it.
Counted ==
    \A S \in SUBSET Requests :
        /\ Cardinality(S) \in Nat /\ (S # {} => Cardinality(S) # 0)
        /\ \A q \in [1..Cardinality(S) -> S] :
              (\A i, j \in 1..Cardinality(S) : q[i] = q[j] => i = j)
                  => \A x \in S : \E i \in 1..Cardinality(S) : q[i] = x

Inv ==
    /\ Counted
    /\ clock \in Nat
    /\ req \in [Requests -> Request] /\ \A r \in Requests : Proper(req[r], clock, sessions)
    /\ Sound(credRow) /\ Snapshot(credRow) = credRow
    /\ sessions \in [Requests -> Session \cup {NilSession}]
    /\ families \in SUBSET Requests
    /\ device \in DeviceRow /\ factor \in OptTime
    /\ attempts \in [Requests -> Outcomes \cup {""}]
    /\ mfaStore \in SUBSET Requests
    /\ \A r \in Requests : Recorded(r)

-----------------------------------------------------------------------------
(* What a step of a request may do.                                        *)

\* It goes on, with nothing on record.
Moves(r) ==
    /\ req[r].stage \in Open
    /\ \E m \in Request :
          /\ Proper(m, clock, sessions) /\ m.stage \in Open \ {"idle"}
          /\ req[r].stage # "idle" => m.now = req[r].now
          /\ m.stage \in SessionStages => req[r].stage \in SessionStages \/ ~MFARequired
          /\ req' = [req EXCEPT ![r] = m]
    /\ UNCHANGED <<clock, db, attempts, mfaStore>>

\* It fails, or is cut off.
Fails(r) ==
    /\ req[r].stage \notin {"idle", "done"}
    /\ \E response \in {"ErrSystemUpstream", "ErrSystemDatabase", "ErrSystemInternal", ""} :
          Respond(r, response)
    /\ UNCHANGED <<clock, db, attempts, mfaStore>>

\* It is refused before the transaction, with a record or without.
Refuses(r) ==
    /\ req[r].stage \in {"rateLimit", "resolve", "load"}
    /\ \/ Respond(r, "ErrRateLimited") /\ RecordAttemptBestEffort(r, "RATE_LIMITED")
       \/ InvalidCredentials(r)
       \/ Respond(r, "ErrLoginAccountLocked") /\ RecordAttemptBestEffort(r, "LOCKED")
    /\ UNCHANGED <<clock, db, mfaStore>>

\* A transaction without a session commits, and says so or not.
Concludes(r) ==
    /\ \/ /\ req[r].stage = "txFail" /\ CredentialWrites(r, "FAILED_CREDENTIALS")
          /\ Respond(r, "ErrLoginInvalidCredentials") \/ Respond(r, "ErrSystemDatabase")
       \/ /\ req[r].stage = "txForced" /\ CredentialWrites(r, "PASSWORD_CHANGE_REQUIRED")
          /\ Respond(r, "PASSWORD_CHANGE_REQUIRED") \/ Respond(r, "ErrSystemDatabase")
       \/ /\ req[r].stage = "txMFA" /\ CredentialWrites(r, "MFA_REQUIRED")
          /\ Goto(r, "mfaStore") \/ Respond(r, "ErrSystemDatabase")
    /\ UNCHANGED <<clock, mfaStore>>

\* completeSession's transaction commits, and says so or not.
Opens(r) ==
    /\ req[r].stage = "txWrite" /\ SessionWrites(r)
    /\ Respond(r, "COMPLETED") \/ Respond(r, "ErrSystemDatabase")
    /\ UNCHANGED <<clock, mfaStore>>

\* The rows a policy query returns are sessions there are.
LEMMA Rows ==
    ASSUME Counted, NEW S, S \subseteq ActiveRows, NEW q \in ByCreation(S)
    PROVE  /\ q \in Seq(Requests) /\ Len(q) = Cardinality(S)
           /\ \A i \in 1..Len(q) : sessions[q[i]] # NilSession
<1>1. S \subseteq Requests
  BY DEF ActiveRows
<1>2. Cardinality(S) \in Nat
  BY <1>1 DEF Counted
<1>3. q \in [1..Cardinality(S) -> S]
  BY DEF ByCreation
<1>4. q \in Seq(Requests) /\ Len(q) = Cardinality(S)
  BY <1>1, <1>2, <1>3
<1>5. \A x \in S : sessions[x] # NilSession
  BY DEF ActiveRows, NilSession, SessionStatusActive
<1> QED BY <1>3, <1>4, <1>5

\* A change of stage is a move.
LEMMA GotoMoves ==
    ASSUME Inv, NEW r \in Requests, NEW st \in Open \ {"idle", "txEvict"},
           req[r].stage \in Open \ {"idle"}, Goto(r, st),
           st \in CredentialStages => req[r].stage \in CredentialStages,
           st \in SessionStages =>
              SessionPolicyValid /\ (req[r].stage \in SessionStages \/ ~MFARequired),
           UNCHANGED <<clock, db, attempts, mfaStore>>
    PROVE  Moves(r)
<1> DEFINE m == [req[r] EXCEPT !.stage = st]
<1>1. req' = [req EXCEPT ![r] = m]
  BY DEF Goto
<1>2. req[r] \in Request /\ Proper(req[r], clock, sessions)
  BY Zenon DEF Inv
<1>3. /\ m \in Request /\ m.stage = st /\ m.now = req[r].now /\ m.response = req[r].response
      /\ m.cred = req[r].cred /\ m.evict = req[r].evict /\ m.evicted = req[r].evicted
  BY <1>2, Zenon DEF Request, Open
<1> HIDE DEF m
<1>4. req[r].stage # "done" /\ st # "txEvict"
  BY DEF Open
<1>5. Proper(m, clock, sessions)
  BY <1>2, <1>3, <1>4, Zenon DEF Proper
<1> QED BY <1>1, <1>3, <1>5, Zenon DEF Moves

\* So is the decision which rows to revoke.
LEMMA EvictAllMoves ==
    ASSUME Inv, NEW r \in Requests, req[r].stage \in {"txPolicy", "txOldest"},
           NEW rows \in Seq(Requests), \A i \in 1..Len(rows) : sessions[rows[i]] # NilSession,
           EvictAll(r, rows), UNCHANGED <<clock, db, attempts, mfaStore>>
    PROVE  Moves(r)
<1> DEFINE st == IF rows = << >> THEN "txWrite" ELSE "txEvict"
           m == [req[r] EXCEPT !.evict = rows, !.stage = st]
<1>1. req' = [req EXCEPT ![r] = m]
  BY Zenon DEF EvictAll
<1>2. req[r] \in Request /\ Proper(req[r], clock, sessions)
  BY Zenon DEF Inv
<1>3. /\ m \in Request /\ m.stage = st /\ m.now = req[r].now /\ m.response = req[r].response
      /\ m.cred = req[r].cred /\ m.evict = rows /\ m.evicted = req[r].evicted
  BY <1>2, Zenon DEF Request, Stages
<1> HIDE DEF m
<1>4. /\ st \in SessionStages /\ st \in Open \ {"idle"} /\ (st = "txEvict" => rows # << >>)
      /\ req[r].stage \in SessionStages /\ req[r].stage \in CredentialStages
      /\ req[r].stage \in Open \ {"idle"} /\ req[r].stage # "done"
  BY DEF SessionStages, CredentialStages, Open, Stages
<1> HIDE DEF st
<1>5. Proper(m, clock, sessions)
  BY <1>2, <1>3, <1>4, Zenon DEF Proper
<1> QED BY <1>1, <1>3, <1>4, <1>5, Zenon DEF Moves

\* A request starts with nothing but the time and the password.
LEMMA StartMoves ==
    ASSUME Inv, NEW r \in Requests, Start(r)
    PROVE  Moves(r)
<1>1. PICK correct \in BOOLEAN :
        req' = [req EXCEPT ![r].stage = "rateLimit", ![r].now = clock, ![r].correct = correct]
  BY Zenon DEF Start
<1> DEFINE m == [req[r] EXCEPT !.stage = "rateLimit", !.now = clock, !.correct = correct]
<1>2. req' = [req EXCEPT ![r] = m]
  BY <1>1, Zenon
<1>3. req[r] \in Request /\ Proper(req[r], clock, sessions) /\ clock \in Nat
  BY Zenon DEF Inv
<1>4. /\ m \in Request /\ m.stage = "rateLimit" /\ m.now = clock /\ m.response = req[r].response
      /\ m.evict = req[r].evict /\ m.evicted = req[r].evicted
  BY <1>3, Zenon DEF Request, Stages
<1> HIDE DEF m
<1>5. req[r].stage = "idle" /\ UNCHANGED <<clock, db, attempts, mfaStore>>
  BY DEF Start
<1>6. clock <= clock
  BY <1>3
<1>7. /\ "rateLimit" \notin CredentialStages /\ "rateLimit" \notin SessionStages
      /\ "rateLimit" \in Open \ {"idle"} /\ "idle" \in Open
      /\ "rateLimit" # "txEvict" /\ "idle" # "done"
  BY DEF CredentialStages, SessionStages, Open, Stages
<1>8. Proper(m, clock, sessions)
  BY <1>3, <1>4, <1>5, <1>6, <1>7, Zenon DEF Proper
<1> QED BY <1>2, <1>4, <1>5, <1>7, <1>8, Zenon DEF Moves

\* A verified or failed credential is kept for the transaction.
LEMMA VerifyMoves ==
    ASSUME Inv, NEW r \in Requests, req[r].stage = "load",
           NEW st \in {"txFail", "decide"}, NEW c, Sound(c),
           req' = [req EXCEPT ![r].stage = st, ![r].cred = c],
           UNCHANGED <<clock, db, attempts, mfaStore>>
    PROVE  Moves(r)
<1> DEFINE m == [req[r] EXCEPT !.stage = st, !.cred = c]
<1>1. req' = [req EXCEPT ![r] = m]
  BY Zenon
<1>2. req[r] \in Request /\ Proper(req[r], clock, sessions) /\ c \in Credential
  BY Zenon DEF Inv, Sound
<1>3. /\ m \in Request /\ m.stage = st /\ m.now = req[r].now /\ m.response = req[r].response
      /\ m.cred = c /\ m.evict = req[r].evict /\ m.evicted = req[r].evicted
  BY <1>2, Zenon DEF Request, Stages
<1> HIDE DEF m
<1>4. /\ st \notin SessionStages /\ st \in Open \ {"idle"} /\ st # "txEvict"
      /\ "load" \in Open /\ "load" # "done"
  BY DEF SessionStages, Open, Stages
<1>5. Proper(m, clock, sessions)
  BY <1>2, <1>3, <1>4, Zenon DEF Proper
<1> QED BY <1>1, <1>3, <1>4, <1>5, Zenon DEF Moves

\* An eviction takes one row off the list.
LEMMA EvictMoves ==
    ASSUME Inv, NEW r \in Requests, EvictNext(r)
    PROVE  Moves(r)
<1> DEFINE old == req[r]
           st == IF Len(old.evict) = 1 THEN "txWrite" ELSE "txEvict"
           x == Head(old.evict)
           m == [old EXCEPT !.evicted = @ \cup {x}, !.evict = Tail(@), !.stage = st]
<1>1. req' = [req EXCEPT ![r] = m] /\ old.stage = "txEvict"
  BY Zenon DEF EvictNext
<1>2. old \in Request /\ Proper(old, clock, sessions)
  BY Zenon DEF Inv
<1>3. old.evict \in Seq(Requests) /\ old.evict # << >> /\ old.evicted \in SUBSET Requests
  BY <1>1, <1>2, Zenon DEF Request, Proper
<1>4. Len(old.evict) >= 1 /\ Tail(old.evict) \in Seq(Requests) /\ x = old.evict[1] /\ x \in Requests
  BY <1>3
<1>5. /\ Len(Tail(old.evict)) = Len(old.evict) - 1
      /\ \A i \in 1..Len(Tail(old.evict)) : Tail(old.evict)[i] = old.evict[i + 1]
  BY <1>3
<1>6. \A i \in 1..Len(Tail(old.evict)) : i + 1 \in 1..Len(old.evict)
  BY <1>3, <1>5
<1>7. sessions[x] # NilSession /\
      \A i \in 1..Len(Tail(old.evict)) : sessions[Tail(old.evict)[i]] # NilSession
  <2>1. \A i \in 1..Len(old.evict) : sessions[old.evict[i]] # NilSession
    BY <1>2, Zenon DEF Proper
  <2>2. 1 \in 1..Len(old.evict)
    BY <1>3, <1>4
  <2> QED BY <1>4, <1>5, <1>6, <2>1, <2>2
<1>8. st = "txEvict" => Tail(old.evict) # << >>
  <2>1. st = "txEvict" => Len(old.evict) # 1
    OBVIOUS
  <2>2. Len(old.evict) # 1 => Len(Tail(old.evict)) # 0
    BY <1>3, <1>5
  <2>3. Len(<< >>) = 0
    OBVIOUS
  <2> QED BY <2>1, <2>2, <2>3, Zenon
<1>9. st \in {"txWrite", "txEvict"}
  OBVIOUS
<1> HIDE DEF st, x
<1>10. /\ m \in Request /\ m.stage = st /\ m.now = old.now /\ m.response = old.response
       /\ m.cred = old.cred /\ m.evict = Tail(old.evict) /\ m.evicted = old.evicted \cup {x}
  BY <1>2, <1>3, <1>4, <1>9, Zenon DEF Request, Stages
<1> HIDE DEF m
<1>11. /\ st \in SessionStages /\ st \in Open \ {"idle"}
       /\ "txEvict" \in SessionStages /\ "txEvict" \in CredentialStages
       /\ "txEvict" \in Open /\ "txEvict" # "done"
  BY <1>9 DEF SessionStages, CredentialStages, Open, Stages
<1>12. \A y \in m.evicted : sessions[y] # NilSession
  BY <1>2, <1>7, <1>10, Zenon DEF Proper
<1>13. \A i \in 1..Len(m.evict) : sessions[m.evict[i]] # NilSession
  BY <1>7, <1>10
<1>14. Proper(m, clock, sessions)
  BY <1>1, <1>2, <1>8, <1>10, <1>11, <1>12, <1>13, Zenon DEF Proper
<1>15. UNCHANGED <<clock, db, attempts, mfaStore>>
  BY DEF EvictNext
<1> QED BY <1>1, <1>10, <1>11, <1>14, <1>15, Zenon DEF Moves

-----------------------------------------------------------------------------
(* Every step is of one of the kinds.                                      *)

\* The steps up to the transaction.
LEMMA EarlySteps ==
    ASSUME Inv, NEW r \in Requests,
           CheckRateLimit(r) \/ ResolveIdentity(r) \/ LoadAndVerify(r) \/ Decide(r)
    PROVE  Moves(r) \/ Fails(r) \/ Refuses(r)
<1>1. CASE CheckRateLimit(r)
  <2>1. /\ req[r].stage = "rateLimit" /\ UNCHANGED <<clock, db, mfaStore>>
        /\ \/ Goto(r, "resolve") /\ UNCHANGED attempts
           \/ Respond(r, "ErrRateLimited") /\ RecordAttemptBestEffort(r, "RATE_LIMITED")
           \/ Respond(r, "ErrSystemUpstream") /\ UNCHANGED attempts
    BY <1>1 DEF CheckRateLimit
  <2>2. CASE Goto(r, "resolve") /\ UNCHANGED attempts
    BY <2>1, <2>2, GotoMoves DEF Open, Stages, CredentialStages, SessionStages
  <2>3. CASE Respond(r, "ErrRateLimited") /\ RecordAttemptBestEffort(r, "RATE_LIMITED")
    BY <2>1, <2>3 DEF Refuses
  <2>4. CASE Respond(r, "ErrSystemUpstream") /\ UNCHANGED attempts
    BY <2>1, <2>4, Zenon DEF Fails
  <2> QED BY <2>1, <2>2, <2>3, <2>4
<1>2. CASE ResolveIdentity(r)
  <2>1. /\ req[r].stage = "resolve" /\ UNCHANGED <<clock, db, mfaStore>>
        /\ \/ Goto(r, "load") /\ UNCHANGED attempts
           \/ InvalidCredentials(r)
           \/ Respond(r, "ErrSystemUpstream") /\ UNCHANGED attempts
    BY <1>2 DEF ResolveIdentity
  <2>2. CASE Goto(r, "load") /\ UNCHANGED attempts
    BY <2>1, <2>2, GotoMoves DEF Open, Stages, CredentialStages, SessionStages
  <2>3. CASE InvalidCredentials(r)
    BY <2>1, <2>3 DEF Refuses
  <2>4. CASE Respond(r, "ErrSystemUpstream") /\ UNCHANGED attempts
    BY <2>1, <2>4, Zenon DEF Fails
  <2> QED BY <2>1, <2>2, <2>3, <2>4
<1>3. CASE LoadAndVerify(r)
  <2> DEFINE loaded  == RehydrateCredential(credRow)
             checked == EnsureVerifiable(loaded.agg, req[r].now)
             failed  == RecordFailedAttempt(checked.agg, req[r].now)
             passed  == RecordSuccessfulVerification(checked.agg, req[r].now)
  <2>1. loaded.agg = credRow
    BY DEF RehydrateCredential, Ok, Fail
  <2>2. Sound(credRow) /\ req[r].now \in Nat
    BY Zenon DEF Inv, Request
  <2>3. Sound(checked.agg)
    BY <2>1, <2>2, PreCheckStep
  <2>4. Sound(failed.agg) /\ Sound(passed.agg)
    BY <2>2, <2>3, RecordFailedAttemptSound, RecordSuccessSound, Zenon
  <2>5. /\ req[r].stage = "load" /\ UNCHANGED <<clock, db, mfaStore>>
        /\ \/ Respond(r, "ErrSystemDatabase") /\ UNCHANGED attempts
           \/ Respond(r, "ErrLoginAccountLocked") /\ RecordAttemptBestEffort(r, "LOCKED")
           \/ req' = [req EXCEPT ![r].stage = "txFail", ![r].cred = failed.agg] /\ UNCHANGED attempts
           \/ req' = [req EXCEPT ![r].stage = "decide", ![r].cred = passed.agg] /\ UNCHANGED attempts
    BY <1>3, Zenon DEF LoadAndVerify
  <2> HIDE DEF failed, passed
  <2>6. CASE Respond(r, "ErrSystemDatabase") /\ UNCHANGED attempts
    BY <2>5, <2>6, Zenon DEF Fails
  <2>7. CASE Respond(r, "ErrLoginAccountLocked") /\ RecordAttemptBestEffort(r, "LOCKED")
    BY <2>5, <2>7 DEF Refuses
  <2>8. CASE req' = [req EXCEPT ![r].stage = "txFail", ![r].cred = failed.agg] /\ UNCHANGED attempts
    BY <2>4, <2>5, <2>8, VerifyMoves, Zenon
  <2>9. CASE req' = [req EXCEPT ![r].stage = "decide", ![r].cred = passed.agg] /\ UNCHANGED attempts
    BY <2>4, <2>5, <2>9, VerifyMoves, Zenon
  <2> QED BY <2>5, <2>6, <2>7, <2>8, <2>9
<1>4. CASE Decide(r)
  <2>1. NewAuthenticationSession("AAL1", {}, req[r].now).err = "" => SessionPolicyValid
    BY Zenon DEF NewAuthenticationSession, Fail
  <2>2. /\ req[r].stage = "decide" /\ UNCHANGED <<clock, db, attempts, mfaStore>>
        /\ \/ Goto(r, "txForced") \/ Goto(r, "txMFA")
           \/ SessionPolicyValid /\ ~MFARequired /\ Goto(r, "txPolicy")
           \/ Respond(r, "ErrSystemDatabase") \/ Respond(r, "ErrSystemInternal")
    BY <1>4, <2>1, Zenon DEF Decide
  <2>3. CASE Goto(r, "txForced") \/ Goto(r, "txMFA")
    BY <2>2, <2>3, GotoMoves DEF Open, Stages, CredentialStages, SessionStages
  <2>4. CASE SessionPolicyValid /\ ~MFARequired /\ Goto(r, "txPolicy")
    BY <2>2, <2>4, GotoMoves DEF Open, Stages, CredentialStages, SessionStages
  <2>5. CASE Respond(r, "ErrSystemDatabase") \/ Respond(r, "ErrSystemInternal")
    BY <2>2, <2>5, Zenon DEF Fails
  <2> QED BY <2>2, <2>3, <2>4, <2>5
<1> QED BY <1>1, <1>2, <1>3, <1>4

\* The statements of the session policy.
LEMMA PolicySteps ==
    ASSUME Inv, NEW r \in Requests, ApplyPolicy(r) \/ FindOldest(r)
    PROVE  Moves(r) \/ Fails(r)
<1> DEFINE rest == UNCHANGED <<clock, db, attempts, mfaStore>>
<1>0. Counted
  BY Zenon DEF Inv
<1>1. SUFFICES ASSUME req[r].stage \in {"txPolicy", "txOldest"}, rest,
                      \/ \E st \in {"txOldest", "txWrite"} : Goto(r, st)
                      \/ \E rows \in Seq(Requests) :
                            /\ \A i \in 1..Len(rows) : sessions[rows[i]] # NilSession
                            /\ EvictAll(r, rows)
                      \/ Respond(r, "ErrSystemDatabase")
               PROVE  Moves(r) \/ Fails(r)
  <2>1. CASE ApplyPolicy(r)
    <3>1. req[r].stage = "txPolicy"
      BY <2>1 DEF ApplyPolicy
    <3>2. rest
      BY <2>1 DEF ApplyPolicy, TxRollback
    <3>3. \/ \E q \in ByCreation({x \in ActiveRows : Evictable(x, req[r].now)}) : EvictAll(r, q)
          \/ \E st \in {"txOldest", "txWrite"} : Goto(r, st)
          \/ Respond(r, "ErrSystemDatabase")
      BY <2>1 DEF ApplyPolicy, TxRollback
    <3>4. \A q \in ByCreation({x \in ActiveRows : Evictable(x, req[r].now)}) :
             q \in Seq(Requests) /\ \A i \in 1..Len(q) : sessions[q[i]] # NilSession
      BY <1>0, Rows
    <3> QED BY <1>1, <3>1, <3>2, <3>3, <3>4, Zenon
  <2>2. CASE FindOldest(r)
    <3>1. req[r].stage = "txOldest"
      BY <2>2 DEF FindOldest
    <3>2. rest
      BY <2>2, Zenon DEF FindOldest, TxRollback
    <3>3. \/ EvictAll(r, << >>)
          \/ \E q \in ByCreation(ActiveRows) : ActiveRows # {} /\ EvictAll(r, <<q[1]>>)
          \/ Respond(r, "ErrSystemDatabase")
      BY <2>2 DEF FindOldest, TxRollback
    <3>4. << >> \in Seq(Requests) /\ \A i \in 1..Len(<< >>) : sessions[<< >>[i]] # NilSession
      OBVIOUS
    <3>5. ASSUME NEW q \in ByCreation(ActiveRows), ActiveRows # {}
          PROVE  /\ <<q[1]>> \in Seq(Requests)
                 /\ \A i \in 1..Len(<<q[1]>>) : sessions[<<q[1]>>[i]] # NilSession
      <4>1. /\ q \in Seq(Requests) /\ Len(q) = Cardinality(ActiveRows)
            /\ \A i \in 1..Len(q) : sessions[q[i]] # NilSession
        BY <1>0, Rows
      <4>2. ActiveRows \subseteq Requests
        BY DEF ActiveRows
      <4>3. Len(q) # 0
        BY <1>0, <4>1, <4>2, <3>5 DEF Counted
      <4>4. 1 \in 1..Len(q)
        BY <4>1, <4>3
      <4>5. q[1] \in Requests /\ sessions[q[1]] # NilSession
        BY <4>1, <4>4
      <4> QED BY <4>5
    <3> QED BY <1>1, <3>1, <3>2, <3>3, <3>4, <3>5, Zenon
  <2> QED BY <2>1, <2>2
<1>2. /\ req[r].stage \in Open \ {"idle"} /\ req[r].stage \in SessionStages
      /\ req[r].stage \in CredentialStages /\ req[r].stage \notin {"idle", "done"}
  BY <1>1 DEF Open, Stages, SessionStages, CredentialStages
<1>3. CASE \E st \in {"txOldest", "txWrite"} : Goto(r, st)
  <2>1. PICK st \in {"txOldest", "txWrite"} : Goto(r, st)
    BY <1>3
  <2>2. st \in Open \ {"idle", "txEvict"}
    BY DEF Open, Stages
  <2>3. SessionPolicyValid
    BY <1>2, Zenon DEF Inv, Proper
  <2> QED BY <1>1, <1>2, <2>1, <2>2, <2>3, GotoMoves
<1>4. CASE \E rows \in Seq(Requests) :
              /\ \A i \in 1..Len(rows) : sessions[rows[i]] # NilSession
              /\ EvictAll(r, rows)
  BY <1>1, <1>4, EvictAllMoves
<1>5. CASE Respond(r, "ErrSystemDatabase")
  BY <1>1, <1>2, <1>5, Zenon DEF Fails
<1> QED BY <1>1, <1>3, <1>4, <1>5

\* The transactions.
LEMMA TxSteps ==
    ASSUME Inv, NEW r \in Requests,
           \/ TxFail(r) \/ TxForcedChange(r) \/ TxMFARequired(r)
           \/ AbortEviction(r) \/ TxSession(r) \/ CutOff(r)
    PROVE  Fails(r) \/ Concludes(r) \/ Opens(r)
<1>1. CASE TxFail(r)
  <2>1. CASE CredentialWrites(r, "FAILED_CREDENTIALS")
    BY <1>1, <2>1, Zenon DEF TxFail, TxUnknown, TxRollback, Concludes
  <2>2. CASE TxRollback(r)
    BY <1>1, <2>2, Zenon DEF TxFail, TxRollback, Fails
  <2> QED BY <1>1, <2>1, <2>2, Zenon DEF TxFail, TxUnknown
<1>2. CASE TxForcedChange(r)
  <2>1. CASE CredentialWrites(r, "PASSWORD_CHANGE_REQUIRED")
    BY <1>2, <2>1, Zenon DEF TxForcedChange, TxUnknown, TxRollback, Concludes
  <2>2. CASE TxRollback(r)
    BY <1>2, <2>2, Zenon DEF TxForcedChange, TxRollback, Fails
  <2> QED BY <1>2, <2>1, <2>2, Zenon DEF TxForcedChange, TxUnknown
<1>3. CASE TxMFARequired(r)
  <2>1. CASE CredentialWrites(r, "MFA_REQUIRED")
    BY <1>3, <2>1, Zenon DEF TxMFARequired, TxUnknown, TxRollback, Concludes
  <2>2. CASE TxRollback(r)
    BY <1>3, <2>2, Zenon DEF TxMFARequired, TxRollback, Fails
  <2> QED BY <1>3, <2>1, <2>2, Zenon DEF TxMFARequired, TxUnknown
<1>4. CASE AbortEviction(r)
  <2>1. req[r].stage = "txEvict" /\ Respond(r, "ErrSystemDatabase")
    BY <1>4, Zenon DEF AbortEviction, TxRollback
  <2>2. UNCHANGED <<clock, db, attempts, mfaStore>>
    BY <1>4 DEF AbortEviction, TxRollback
  <2> QED BY <2>1, <2>2, Zenon DEF Fails
<1>5. CASE TxSession(r)
  <2>1. CASE SessionWrites(r)
    BY <1>5, <2>1, Zenon DEF TxSession, TxUnknown, TxRollback, Opens
  <2>2. CASE TxRollback(r)
    BY <1>5, <2>2, Zenon DEF TxSession, TxRollback, Fails
  <2> QED BY <1>5, <2>1, <2>2, Zenon DEF TxSession, TxUnknown
<1>6. CASE CutOff(r)
  BY <1>6, Zenon DEF CutOff, InFlight, Fails
<1> QED BY <1>1, <1>2, <1>3, <1>4, <1>5, <1>6, Zenon

LEMMA StepKinds ==
    Inv /\ [Next]_vars =>
        \/ \E r \in Requests : \/ Moves(r) \/ Fails(r) \/ Refuses(r) \/ Concludes(r)
                               \/ StoreMFASession(r) \/ Opens(r)
        \/ Tick \/ Elsewhere \/ UNCHANGED vars
<1> SUFFICES ASSUME Inv, [Next]_vars
             PROVE  \/ \E r \in Requests : \/ Moves(r) \/ Fails(r) \/ Refuses(r) \/ Concludes(r)
                                            \/ StoreMFASession(r) \/ Opens(r)
                    \/ Tick \/ Elsewhere \/ UNCHANGED vars
  OBVIOUS
<1>1. ASSUME NEW r \in Requests, Start(r) \/ Step(r) \/ CutOff(r)
      PROVE  \/ Moves(r) \/ Fails(r) \/ Refuses(r) \/ Concludes(r)
             \/ StoreMFASession(r) \/ Opens(r)
  <2>1. CASE \/ CheckRateLimit(r) \/ ResolveIdentity(r) \/ LoadAndVerify(r) \/ Decide(r)
    BY <2>1, EarlySteps
  <2>2. CASE \/ TxFail(r) \/ TxForcedChange(r) \/ TxMFARequired(r)
             \/ AbortEviction(r) \/ TxSession(r) \/ CutOff(r)
    BY <2>2, TxSteps
  <2>3. CASE ApplyPolicy(r) \/ FindOldest(r)
    BY <2>3, PolicySteps
  <2>4. CASE Start(r) \/ EvictNext(r)
    BY <2>4, StartMoves, EvictMoves
  <2> QED BY <1>1, <2>1, <2>2, <2>3, <2>4, Zenon DEF Step
<1> QED BY <1>1, Zenon DEF Next, Finished

-----------------------------------------------------------------------------
(* The rows a login writes.                                                *)

\* A row is not the nil session.
LEMMA NotNil == \A s \in Session : s # NilSession
<1> TAKE s \in Session
<1>1. s.status \in SessionStatus
  BY Zenon DEF Session
<1>2. s.status # "nil"
  BY <1>1 DEF SessionStatus, SessionStatusActive, SessionStatusExpired, SessionStatusRevoked
<1> QED BY <1>2 DEF NilSession

\* The session a login opens, and its row.
LEMMA NewRow ==
    ASSUME SessionPolicyValid, NEW now \in Nat
    PROVE  LET s == NewAuthenticationSession("AAL1", {}, now).agg
           IN  /\ s \in Session /\ s.createdAt = now
               /\ s.events = <<SessionCreated("AAL1", now + AbsoluteLifetime, now)>>
               /\ SessionRow(s) \in Session /\ SessionRow(s).createdAt = now
<1> DEFINE e == SessionCreated("AAL1", now + AbsoluteLifetime, now)
           s == NewAuthenticationSession("AAL1", {}, now).agg
<1>1. AALMatchesFactors("AAL1", {})
  BY DEF AALMatchesFactors
<1>2. s = [aal |-> "AAL1", factorsUsed |-> {}, status |-> SessionStatusActive, createdAt |-> now,
           lastActivityAt |-> now, idleTimeout |-> IdleTimeout,
           absoluteExpiresAt |-> now + AbsoluteLifetime, revokedAt |-> NoTime,
           revokeReason |-> "", events |-> <<e>>]
  BY <1>1 DEF NewAuthenticationSession, Ok
<1>3. now + AbsoluteLifetime \in Nat
  OBVIOUS
<1>4. e \in SessionEvent
  BY <1>3 DEF SessionCreated, SessionEvent, AAL
<1> HIDE DEF e
<1>5. <<e>> \in Seq(SessionEvent) /\ << >> \in Seq(SessionEvent)
  BY <1>4
<1> HIDE DEF s
<1>6. s \in Session
  BY <1>2, <1>3, <1>5, Zenon DEF Session, SessionStatus, OptTime, AAL
<1>7. s.createdAt = now /\ s.events = <<e>> /\ s.idleTimeout = IdleTimeout
  BY <1>2, Zenon
<1>8. (IdleTimeout \div Second) * Second \in Nat
  OBVIOUS
<1>9. SessionRow(s) = [s EXCEPT !.events = << >>, !.idleTimeout = (IdleTimeout \div Second) * Second]
  BY <1>6, <1>7, Zenon DEF SessionRow, Snapshot, ClearEvents, Session
<1> DEFINE n == (IdleTimeout \div Second) * Second
<1> HIDE DEF n
<1>10. [s EXCEPT !.events = << >>, !.idleTimeout = n] \in Session
  BY <1>5, <1>6, <1>8, Zenon DEF Session, n
<1>11. [s EXCEPT !.events = << >>, !.idleTimeout = n].createdAt = now
  BY <1>6, <1>7, Zenon DEF Session
<1> QED BY <1>6, <1>7, <1>9, <1>10, <1>11, Zenon DEF s, e, n

\* What completeSession's transaction leaves of the rows.
LEMMA RowsAfter ==
    ASSUME Inv, NEW r \in Requests, Opens(r)
    PROVE  /\ sessions' \in [Requests -> Session \cup {NilSession}]
           /\ sessions'[r] \in Session /\ sessions'[r].createdAt = req[r].now
           /\ \A x \in Requests \ {r} :
                 \/ sessions'[x] = sessions[x]
                 \/ /\ sessions[x] \in Session /\ sessions'[x] \in Session
                    /\ sessions'[x].createdAt = sessions[x].createdAt
<1> DEFINE session == NewAuthenticationSession("AAL1", {}, req[r].now).agg
           Evicted(x) == [sessions[x] EXCEPT !.status = SessionStatusRevoked,
                                             !.revokedAt = req[r].now,
                                             !.revokeReason = "CONCURRENT_SESSION_LIMIT"]
<1>1. sessions' = [x \in Requests |-> IF x = r THEN SessionRow(session)
                                      ELSE IF Holds(r, x) THEN Evicted(x)
                                      ELSE sessions[x]]
  BY Zenon DEF Opens, SessionWrites
<1>2. /\ req[r] \in Request /\ req[r].now \in Nat /\ SessionPolicyValid
      /\ \A x \in req[r].evicted : sessions[x] # NilSession
  <2>1. req[r] \in Request /\ Proper(req[r], clock, sessions) /\ req[r].stage \in SessionStages
    BY Zenon DEF Inv, Opens, SessionStages
  <2> QED BY <2>1, Zenon DEF Proper, Request
<1>3. SessionRow(session) \in Session /\ SessionRow(session).createdAt = req[r].now
  BY <1>2, NewRow
<1> HIDE DEF session
<1>4. ASSUME NEW x \in Requests, Holds(r, x)
      PROVE  /\ sessions[x] \in Session /\ Evicted(x) \in Session
             /\ Evicted(x).createdAt = sessions[x].createdAt
  <2>1. sessions[x] \in Session
    BY <1>2, <1>4, Zenon DEF Inv, Holds
  <2> DEFINE s == sessions[x]
  <2> HIDE DEF s
  <2>2. "CONCURRENT_SESSION_LIMIT" \in RevokeReason /\ SessionStatusRevoked \in SessionStatus
    BY DEF RevokeReason, ManualReasons, SessionStatus
  <2>3. req[r].now \in OptTime
    BY <1>2 DEF OptTime
  <2>4. [s EXCEPT !.status = SessionStatusRevoked, !.revokedAt = req[r].now,
                  !.revokeReason = "CONCURRENT_SESSION_LIMIT"] \in Session
    BY <2>1, <2>2, <2>3, Zenon DEF Session, s
  <2>5. [s EXCEPT !.status = SessionStatusRevoked, !.revokedAt = req[r].now,
                  !.revokeReason = "CONCURRENT_SESSION_LIMIT"].createdAt = s.createdAt
    BY <2>1, Zenon DEF Session, s
  <2> QED BY <2>1, <2>4, <2>5 DEF s
<1>5. sessions \in [Requests -> Session \cup {NilSession}]
  BY Zenon DEF Inv
<1> HIDE DEF Evicted
<1> QED BY <1>1, <1>3, <1>4, <1>5

-----------------------------------------------------------------------------
(* The invariant.                                                          *)

LEMMA InitInv == Counted /\ Init => Inv
<1> SUFFICES ASSUME Counted, Init PROVE Inv
  OBVIOUS
<1>1. PICK p \in Passwords, force \in BOOLEAN : credRow = NewCredential(p, force, 0)
  BY Zenon DEF Init
<1>2. Sound(credRow)
  BY <1>1, NewCredentialSound
<1>3. Snapshot(credRow) = credRow
  <2>1. NewCredential(p, force, 0).events = << >>
    BY DEF NewCredential
  <2>2. credRow \in Credential
    BY <1>2 DEF Sound
  <2> QED BY <1>1, <2>1, <2>2 DEF Snapshot, ClearEvents, Credential
<1>4. Idle \in Request
  <2>1. << >> \in Seq(Requests)
    OBVIOUS
  <2> QED BY <2>1 DEF Idle, Request, Stages
<1>5. ASSUME NEW r \in Requests
      PROVE  Proper(req[r], clock, sessions) /\ Recorded(r)
  <2>1. req[r] = Idle /\ clock = 0 /\ sessions[r] = NilSession /\ attempts[r] = ""
    BY Zenon DEF Init
  <2>2. r \notin families /\ r \notin mfaStore
    BY Zenon DEF Init
  <2>3. /\ Idle.stage = "idle" /\ Idle.now = 0 /\ Idle.response = ""
        /\ Idle.evict = << >> /\ Idle.evicted = {}
    BY DEF Idle
  <2>4. Proper(req[r], clock, sessions)
    <3>1. 0 <= 0 /\ \A i \in 1..Len(<< >>) : FALSE
      OBVIOUS
    <3>2. "idle" \notin CredentialStages /\ "idle" \notin SessionStages /\ "idle" # "txEvict"
      BY DEF CredentialStages, SessionStages
    <3> QED BY <1>4, <2>1, <2>3, <3>1, <3>2, Zenon DEF Proper
  <2>5. Recorded(r)
    <3>1. "idle" # "mfaStore" /\ "" # "SUCCEEDED"
      OBVIOUS
    <3> QED BY <2>1, <2>2, <2>3, <3>1, Zenon DEF Recorded
  <2> QED BY <2>4, <2>5
<1>6. device \in DeviceRow /\ factor \in OptTime
  <2>1. NoTime \in OptTime /\ 0 \in OptTime /\ 0 \in Nat
    BY DEF OptTime
  <2>2. NoDevice \in DeviceRow /\ NewDevice(0) \in DeviceRow
    BY <2>1 DEF NoDevice, NewDevice, DeviceRow
  <2>3. device \in {NoDevice, NewDevice(0)} /\ factor \in {NoTime, 0}
    BY Zenon DEF Init
  <2> QED BY <2>1, <2>2, <2>3, Zenon
<1>7. /\ clock \in Nat /\ req \in [Requests -> Request] /\ families \in SUBSET Requests
      /\ sessions \in [Requests -> Session \cup {NilSession}]
      /\ attempts \in [Requests -> Outcomes \cup {""}] /\ mfaStore \in SUBSET Requests
  BY <1>4, Zenon DEF Init
<1> QED BY <1>2, <1>3, <1>5, <1>6, <1>7, Zenon DEF Inv

\* A request that takes no step stays proper when time passes and rows are added.
LEMMA ProperFrame ==
    ASSUME NEW m, NEW t \in Nat, NEW u \in Nat, t <= u, NEW rows, NEW newRows, Proper(m, t, rows),
           \A x \in Requests : rows[x] # NilSession => newRows[x] # NilSession
    PROVE  Proper(m, u, newRows)
<1>1. m \in Request /\ m.now \in Nat /\ m.evict \in Seq(Requests) /\ m.evicted \in SUBSET Requests
  BY Zenon DEF Proper, Request
<1>2. m.now <= u
  <2>1. m.now <= t
    BY Zenon DEF Proper
  <2> QED BY <1>1, <2>1
<1>3. \A i \in 1..Len(m.evict) : m.evict[i] \in Requests
  BY <1>1
<1> QED BY <1>1, <1>2, <1>3, Zenon DEF Proper

LEMMA RequestsStayProper ==
    ASSUME Inv, clock' \in Nat, clock <= clock',
           \A x \in Requests : sessions[x] # NilSession => sessions'[x] # NilSession,
           NEW r \in Requests, NEW m, Proper(m, clock', sessions'), req' = [req EXCEPT ![r] = m]
    PROVE  req' \in [Requests -> Request] /\ \A x \in Requests : Proper(req'[x], clock', sessions')
<1>1. m \in Request
  BY Zenon DEF Proper
<1>2. req' \in [Requests -> Request] /\ req'[r] = m /\ \A x \in Requests \ {r} : req'[x] = req[x]
  BY <1>1, Zenon DEF Inv
<1>3. ASSUME NEW x \in Requests PROVE Proper(req[x], clock', sessions')
  BY ProperFrame, Zenon DEF Inv
<1> QED BY <1>2, <1>3, Zenon

\* A request that is done is proper.
LEMMA DoneProper ==
    ASSUME NEW response \in Answers, NEW t \in Nat, NEW rows
    PROVE  /\ Proper([Idle EXCEPT !.stage = "done", !.response = response], t, rows)
           /\ [Idle EXCEPT !.stage = "done", !.response = response].stage = "done"
           /\ [Idle EXCEPT !.stage = "done", !.response = response].response = response
<1> DEFINE m == [Idle EXCEPT !.stage = "done", !.response = response]
<1>1. << >> \in Seq(Requests)
  OBVIOUS
<1>2. /\ m \in Request /\ m.stage = "done" /\ m.now = 0 /\ m.evict = << >> /\ m.evicted = {}
      /\ m.response = response
  BY <1>1, Zenon DEF Idle, Request, Stages, Answers
<1> HIDE DEF m
<1>3. 0 <= t /\ \A i \in 1..Len(<< >>) : FALSE
  OBVIOUS
<1>4. "done" \notin CredentialStages /\ "done" \notin SessionStages /\ "done" # "txEvict"
  BY DEF CredentialStages, SessionStages
<1>5. Proper(m, t, rows)
  BY <1>2, <1>3, <1>4, Zenon DEF Proper
<1> QED BY <1>2, <1>5 DEF m

\* What an answer leaves of the requests.
LEMMA RespondProper ==
    ASSUME Inv, UNCHANGED clock,
           \A x \in Requests : sessions[x] # NilSession => sessions'[x] # NilSession,
           NEW r \in Requests, NEW response \in Answers, Respond(r, response)
    PROVE  /\ req' \in [Requests -> Request] /\ \A x \in Requests : Proper(req'[x], clock', sessions')
           /\ req'[r].stage = "done" /\ req'[r].response = response
           /\ \A x \in Requests \ {r} : req'[x] = req[x]
<1> DEFINE m == [Idle EXCEPT !.stage = "done", !.response = response]
<1>1. clock' \in Nat /\ clock <= clock'
  <2>1. clock \in Nat
    BY Zenon DEF Inv
  <2>2. clock' = clock
    OBVIOUS
  <2> QED BY <2>1, <2>2, SMT
<1>2. Proper(m, clock', sessions') /\ m.stage = "done" /\ m.response = response
  BY <1>1, DoneProper, Zenon
<1>3. req' = [req EXCEPT ![r] = m]
  BY DEF Respond
<1> HIDE DEF m
<1>4. req' \in [Requests -> Request] /\ \A x \in Requests : Proper(req'[x], clock', sessions')
  BY <1>1, <1>2, <1>3, RequestsStayProper, Zenon
<1>5. req'[r] = m /\ \A x \in Requests \ {r} : req'[x] = req[x]
  BY <1>3, Zenon DEF Inv
<1> QED BY <1>2, <1>4, <1>5

\* What is on record of a request stays on record when others take a step.
LEMMA RecordedFrame ==
    ASSUME NEW x \in Requests, Recorded(x), req'[x] = req[x], attempts'[x] = attempts[x],
           x \in mfaStore' <=> x \in mfaStore, x \in families' <=> x \in families,
           sessions'[x] # NilSession <=> sessions[x] # NilSession
    PROVE  Recorded(x)'
BY Zenon DEF Recorded

\* The tables keep their shape when none is written.
LEMMA TablesFrame ==
    ASSUME Inv, UNCHANGED <<clock, db, mfaStore>>
    PROVE  /\ clock' \in Nat /\ clock <= clock'
           /\ Sound(credRow') /\ Snapshot(credRow') = credRow'
           /\ sessions' \in [Requests -> Session \cup {NilSession}]
           /\ families' \in SUBSET Requests
           /\ device' \in DeviceRow /\ factor' \in OptTime
           /\ mfaStore' \in SUBSET Requests
           /\ sessions' = sessions /\ families' = families /\ mfaStore' = mfaStore
<1>1. /\ clock' = clock /\ credRow' = credRow /\ sessions' = sessions /\ families' = families
      /\ device' = device /\ factor' = factor /\ mfaStore' = mfaStore
  BY DEF db
<1>2. clock \in Nat
  BY Zenon DEF Inv
<1>3. clock <= clock
  BY <1>2
<1> QED BY <1>1, <1>2, <1>3, Zenon DEF Inv

LEMMA MovesInv ==
    ASSUME Inv, NEW r \in Requests, Moves(r)
    PROVE  Inv'
<1>1. PICK m \in Request :
        /\ Proper(m, clock, sessions) /\ m.stage \in Open \ {"idle"}
        /\ req' = [req EXCEPT ![r] = m]
  BY Zenon DEF Moves
<1>2. req[r].stage \in Open /\ UNCHANGED <<clock, db, attempts, mfaStore>>
  BY Zenon DEF Moves
<1>3. UNCHANGED <<clock, db, mfaStore>> /\ attempts' = attempts /\ clock' = clock
  BY <1>2
<1>4. sessions' = sessions /\ families' = families /\ mfaStore' = mfaStore
  BY <1>3, TablesFrame
<1>5. req'[r] = m /\ \A x \in Requests \ {r} : req'[x] = req[x]
  BY <1>1, Zenon DEF Inv
<1>6. Recorded(r)'
  <2>1. Recorded(r)
    BY Zenon DEF Inv
  <2>2. m.stage # "mfaStore" /\ m.stage \in Open /\ req[r].stage # "done"
    BY <1>1, <1>2 DEF Open
  <2> QED BY <1>2, <1>3, <1>4, <1>5, <2>1, <2>2, Zenon DEF Recorded
<1>7. \A x \in Requests \ {r} : Recorded(x)'
  <2> TAKE x \in Requests \ {r}
  <2>1. Recorded(x)
    BY Zenon DEF Inv
  <2> QED BY <1>3, <1>4, <1>5, <2>1, Zenon DEF Recorded
<1>8. req' \in [Requests -> Request] /\ \A x \in Requests : Proper(req'[x], clock', sessions')
  BY <1>1, <1>3, <1>4, TablesFrame, RequestsStayProper, Zenon
<1>9. attempts' \in [Requests -> Outcomes \cup {""}]
  BY <1>3, Zenon DEF Inv
<1> HIDE DEF Inv
<1> QED BY <1>3, <1>6, <1>7, <1>8, <1>9, TablesFrame, Zenon DEF Inv

\* An answer, with an attempt on record or without.
LEMMA AnswerInv ==
    ASSUME Inv, NEW r \in Requests, req[r].stage # "done", UNCHANGED <<clock, db, mfaStore>>,
           NEW response \in Answers, Respond(r, response),
           NEW outcome \in Outcomes \ {"SUCCEEDED"},
           \/ attempts' = attempts
           \/ req[r].stage \in Open /\ attempts' = [attempts EXCEPT ![r] = outcome]
    PROVE  Inv'
<1>1. sessions' = sessions /\ families' = families /\ mfaStore' = mfaStore /\ clock' = clock
  BY TablesFrame, Zenon
<1>2. /\ req' \in [Requests -> Request] /\ \A x \in Requests : Proper(req'[x], clock', sessions')
      /\ req'[r].stage = "done" /\ \A x \in Requests \ {r} : req'[x] = req[x]
  BY <1>1, RespondProper
<1>3. /\ attempts' \in [Requests -> Outcomes \cup {""}]
      /\ \A x \in Requests \ {r} : attempts'[x] = attempts[x]
      /\ attempts'[r] = attempts[r] \/ (attempts[r] = "" /\ attempts'[r] = outcome)
  <2>1. attempts \in [Requests -> Outcomes \cup {""}] /\ Recorded(r)
    BY Zenon DEF Inv
  <2>2. req[r].stage \in Open => attempts[r] = ""
    BY <2>1, Zenon DEF Recorded
  <2> QED BY <2>1, <2>2, Zenon
<1>4. Recorded(r)'
  <2>1. Recorded(r)
    BY Zenon DEF Inv
  <2>2. "done" \notin Open /\ "done" # "mfaStore" /\ outcome # "SUCCEEDED" /\ "" # "SUCCEEDED"
    BY DEF Open
  <2> QED BY <1>1, <1>2, <1>3, <2>1, <2>2, Zenon DEF Recorded
<1>5. \A x \in Requests \ {r} : Recorded(x)'
  <2> TAKE x \in Requests \ {r}
  <2>1. Recorded(x)
    BY Zenon DEF Inv
  <2> QED BY <1>1, <1>2, <1>3, <2>1, Zenon DEF Recorded
<1> QED BY <1>2, <1>3, <1>4, <1>5, TablesFrame, Zenon DEF Inv

LEMMA FailsInv ==
    ASSUME Inv, NEW r \in Requests, Fails(r)
    PROVE  Inv'
<1>1. PICK response \in Answers : Respond(r, response)
  BY Zenon DEF Fails, Answers, Responses
<1>2. req[r].stage # "done" /\ UNCHANGED <<clock, db, mfaStore>> /\ attempts' = attempts
  BY Zenon DEF Fails
<1>3. "LOCKED" \in Outcomes \ {"SUCCEEDED"}
  BY DEF Outcomes
<1> QED BY <1>1, <1>2, <1>3, AnswerInv, Zenon

LEMMA RefusesInv ==
    ASSUME Inv, NEW r \in Requests, Refuses(r)
    PROVE  Inv'
<1>1. req[r].stage \in Open /\ req[r].stage # "done" /\ UNCHANGED <<clock, db, mfaStore>>
  BY DEF Refuses, Open, Stages
<1>2. PICK response \in Answers, outcome \in Outcomes \ {"SUCCEEDED"} :
        Respond(r, response) /\ RecordAttemptBestEffort(r, outcome)
  BY Zenon DEF Refuses, InvalidCredentials, Answers, Responses, Outcomes
<1>3. attempts' = attempts \/ attempts' = [attempts EXCEPT ![r] = outcome]
  BY <1>2 DEF RecordAttemptBestEffort
<1> QED BY <1>1, <1>2, <1>3, AnswerInv, Zenon

\* A credential written is sound, and so is every table of a concluded login.
LEMMA ConcludesInv ==
    ASSUME Inv, NEW r \in Requests, Concludes(r)
    PROVE  Inv'
<1>1. /\ req[r].stage \in Open /\ req[r].stage \in CredentialStages /\ req[r].stage # "done"
      /\ clock' = clock /\ mfaStore' = mfaStore
  BY DEF Concludes, Open, Stages, CredentialStages
<1>2. PICK outcome \in Outcomes \ {"SUCCEEDED"} :
        /\ CredentialWrites(r, outcome)
        /\ \/ \E response \in Answers : Respond(r, response)
           \/ Goto(r, "mfaStore") /\ outcome = "MFA_REQUIRED"
  BY Zenon DEF Concludes, Answers, Responses, Outcomes
<1>3. /\ credRow' = Snapshot(req[r].cred) /\ attempts' = [attempts EXCEPT ![r] = outcome]
      /\ sessions' = sessions /\ families' = families /\ device' = device /\ factor' = factor
  BY <1>2 DEF CredentialWrites
<1>4. Sound(credRow') /\ Snapshot(credRow') = credRow'
  <2>1. Sound(req[r].cred)
    BY <1>1, Zenon DEF Inv, Proper
  <2>2. req[r].cred \in Credential
    BY <2>1 DEF Sound
  <2>3. Sound(Snapshot(req[r].cred))
    BY <2>1, ClearEventsSound DEF Snapshot
  <2>4. Snapshot(Snapshot(req[r].cred)) = Snapshot(req[r].cred)
    BY <2>2, Zenon DEF Snapshot, ClearEvents, Credential
  <2> QED BY <1>3, <2>3, <2>4
<1>5. /\ attempts' \in [Requests -> Outcomes \cup {""}] /\ attempts'[r] = outcome
      /\ \A x \in Requests \ {r} : attempts'[x] = attempts[x]
  <2>1. attempts \in [Requests -> Outcomes \cup {""}]
    BY Zenon DEF Inv
  <2> QED BY <1>3, <2>1, Zenon
<1>6. /\ req' \in [Requests -> Request] /\ \A x \in Requests : Proper(req'[x], clock', sessions')
      /\ \A x \in Requests \ {r} : req'[x] = req[x]
      /\ req'[r].stage = "done" \/ (req'[r].stage = "mfaStore" /\ outcome = "MFA_REQUIRED")
  <2>1. CASE \E response \in Answers : Respond(r, response)
    BY <1>1, <1>3, <2>1, RespondProper
  <2>2. CASE Goto(r, "mfaStore") /\ outcome = "MFA_REQUIRED"
    <3> DEFINE m == [req[r] EXCEPT !.stage = "mfaStore"]
    <3>1. req' = [req EXCEPT ![r] = m]
      BY <2>2 DEF Goto
    <3>2. req[r] \in Request /\ Proper(req[r], clock, sessions) /\ clock \in Nat
      BY Zenon DEF Inv
    <3>3. /\ m \in Request /\ m.stage = "mfaStore" /\ m.now = req[r].now
          /\ m.response = req[r].response /\ m.evict = req[r].evict /\ m.evicted = req[r].evicted
      BY <3>2, Zenon DEF Request, Stages
    <3> HIDE DEF m
    <3>4. /\ "mfaStore" \notin CredentialStages /\ "mfaStore" \notin SessionStages
          /\ "mfaStore" # "txEvict"
      BY DEF CredentialStages, SessionStages
    <3>5. Proper(m, clock', sessions')
      BY <1>1, <1>3, <3>2, <3>3, <3>4, Zenon DEF Proper
    <3>6. clock' \in Nat /\ clock <= clock'
      BY <1>1, <3>2
    <3>7. req' \in [Requests -> Request] /\ \A x \in Requests : Proper(req'[x], clock', sessions')
      BY <1>3, <3>1, <3>5, <3>6, RequestsStayProper, Zenon
    <3>8. req'[r] = m /\ \A x \in Requests \ {r} : req'[x] = req[x]
      BY <3>1, Zenon DEF Inv
    <3> QED BY <2>2, <3>3, <3>7, <3>8, Zenon
  <2> QED BY <1>2, <2>1, <2>2
<1>7. Recorded(r)'
  <2>1. Recorded(r)
    BY Zenon DEF Inv
  <2>2. /\ "done" \notin Open /\ "done" # "mfaStore" /\ "mfaStore" \notin Open
        /\ outcome # "SUCCEEDED" /\ "" # "SUCCEEDED"
    BY DEF Open
  <2> QED BY <1>1, <1>3, <1>5, <1>6, <2>1, <2>2, Zenon DEF Recorded
<1>8. \A x \in Requests \ {r} : Recorded(x)'
  <2> TAKE x \in Requests \ {r}
  <2>1. Recorded(x)
    BY Zenon DEF Inv
  <2> QED BY <1>1, <1>3, <1>5, <1>6, <2>1, Zenon DEF Recorded
<1> QED BY <1>1, <1>3, <1>4, <1>5, <1>6, <1>7, <1>8, Zenon DEF Inv

LEMMA ChallengesInv ==
    ASSUME Inv, NEW r \in Requests, StoreMFASession(r)
    PROVE  Inv'
<1>1. PICK response \in Answers : Respond(r, response)
  BY Zenon DEF StoreMFASession, Answers, Responses
<1>2. /\ req[r].stage = "mfaStore" /\ mfaStore' \in {mfaStore, mfaStore \cup {r}}
      /\ clock' = clock /\ attempts' = attempts
  BY DEF StoreMFASession
<1>3. /\ credRow' = credRow /\ sessions' = sessions /\ families' = families
      /\ device' = device /\ factor' = factor
  BY DEF StoreMFASession, db
<1>4. /\ req' \in [Requests -> Request] /\ \A x \in Requests : Proper(req'[x], clock', sessions')
      /\ req'[r].stage = "done" /\ \A x \in Requests \ {r} : req'[x] = req[x]
  BY <1>1, <1>2, <1>3, RespondProper
<1>5. mfaStore' \in SUBSET Requests /\ \A x \in Requests \ {r} : x \in mfaStore' <=> x \in mfaStore
  <2>1. mfaStore \in SUBSET Requests
    BY Zenon DEF Inv
  <2> QED BY <1>2, <2>1
<1>6. \A x \in Requests : Recorded(x)'
  <2> TAKE x \in Requests
  <2>1. Recorded(x)
    BY Zenon DEF Inv
  <2>2. "done" \notin Open /\ "done" # "mfaStore"
    BY DEF Open
  <2> QED BY <1>2, <1>3, <1>4, <1>5, <2>1, <2>2, Zenon DEF Recorded
<1> QED BY <1>2, <1>3, <1>4, <1>5, <1>6, Zenon DEF Inv

LEMMA OpensInv ==
    ASSUME Inv, NEW r \in Requests, Opens(r)
    PROVE  Inv'
<1>1. /\ req[r].stage = "txWrite" /\ clock' = clock /\ mfaStore' = mfaStore /\ SessionWrites(r)
      /\ \E response \in Answers : Respond(r, response)
  BY Zenon DEF Opens, Answers, Responses
<1>2. /\ credRow' = Snapshot(req[r].cred) /\ families' = families \cup {r} /\ factor' = factor
      /\ attempts' = [attempts EXCEPT ![r] = "SUCCEEDED"] /\ device' = TouchDevice(req[r].now)
  BY <1>1, Zenon DEF SessionWrites
<1>3. /\ sessions' \in [Requests -> Session \cup {NilSession}] /\ sessions'[r] # NilSession
      /\ \A x \in Requests \ {r} : sessions'[x] # NilSession <=> sessions[x] # NilSession
  BY RowsAfter, NotNil
<1>4. /\ req' \in [Requests -> Request] /\ \A x \in Requests : Proper(req'[x], clock', sessions')
      /\ req'[r].stage = "done" /\ \A x \in Requests \ {r} : req'[x] = req[x]
  <2>1. \A x \in Requests : sessions[x] # NilSession => sessions'[x] # NilSession
    BY <1>3
  <2> QED BY <1>1, <2>1, RespondProper
<1>5. Sound(credRow') /\ Snapshot(credRow') = credRow'
  <2>1. "txWrite" \in CredentialStages
    BY DEF CredentialStages, SessionStages
  <2>2. Sound(req[r].cred)
    BY <1>1, <2>1, Zenon DEF Inv, Proper
  <2>3. req[r].cred \in Credential
    BY <2>2 DEF Sound
  <2>4. Sound(Snapshot(req[r].cred))
    BY <2>2, ClearEventsSound DEF Snapshot
  <2>5. Snapshot(Snapshot(req[r].cred)) = Snapshot(req[r].cred)
    BY <2>3, Zenon DEF Snapshot, ClearEvents, Credential
  <2> QED BY <1>2, <2>4, <2>5
<1>6. /\ attempts' \in [Requests -> Outcomes \cup {""}] /\ attempts'[r] = "SUCCEEDED"
      /\ \A x \in Requests \ {r} : attempts'[x] = attempts[x]
  <2>1. attempts \in [Requests -> Outcomes \cup {""}]
    BY Zenon DEF Inv
  <2> QED BY <1>2, <2>1, Zenon DEF Outcomes
<1>7. device' \in DeviceRow /\ factor' \in OptTime /\ families' \in SUBSET Requests
  <2>1. device \in DeviceRow /\ factor \in OptTime /\ families \in SUBSET Requests /\ req[r] \in Request
    BY Zenon DEF Inv
  <2>2. req[r].now \in Nat
    BY <2>1, Zenon DEF Request
  <2> QED BY <1>2, <2>1, <2>2 DEF TouchDevice, DeviceRow
<1>8. \A x \in Requests \ {r} : x \in families' <=> x \in families
  BY <1>2
<1>9. r \in families'
  BY <1>2
<1>10. mfaStore' \in SUBSET Requests /\ clock' \in Nat
  BY <1>1, Zenon DEF Inv
<1>11. Recorded(r)'
  <2>1. Recorded(r)
    BY Zenon DEF Inv
  <2>2. "done" \notin Open /\ "done" # "mfaStore" /\ "txWrite" # "done"
    BY DEF Open
  <2> QED BY <1>1, <1>3, <1>4, <1>6, <1>9, <2>1, <2>2, Zenon DEF Recorded
<1>12. \A x \in Requests \ {r} : Recorded(x)'
  <2> TAKE x \in Requests \ {r}
  <2>1. Recorded(x)
    BY Zenon DEF Inv
  <2> QED BY <1>1, <1>3, <1>4, <1>6, <1>8, <2>1, Zenon DEF Recorded
<1> QED BY <1>3, <1>4, <1>5, <1>6, <1>7, <1>10, <1>11, <1>12, Zenon DEF Inv

\* Time passes.
LEMMA TickInv ==
    ASSUME Inv, Tick
    PROVE  Inv'
<1>1. clock \in Nat
  BY Zenon DEF Inv
<1>2. clock' = clock + 1
  BY Zenon DEF Tick
<1>3. clock' \in Nat /\ clock <= clock'
  BY <1>1, <1>2
<1>4. /\ req' = req /\ credRow' = credRow /\ sessions' = sessions /\ families' = families
      /\ device' = device /\ factor' = factor /\ attempts' = attempts /\ mfaStore' = mfaStore
  BY DEF Tick, db
<1>5. \A x \in Requests : Proper(req[x], clock', sessions)
  <2> TAKE x \in Requests
  <2>1. Proper(req[x], clock, sessions)
    BY Zenon DEF Inv
  <2> QED BY <1>1, <1>3, <2>1, ProperFrame
<1>6. \A x \in Requests : Recorded(x)'
  <2> TAKE x \in Requests
  <2>1. Recorded(x)
    BY Zenon DEF Inv
  <2> QED BY <1>4, <2>1, Zenon DEF Recorded
<1> QED BY <1>3, <1>4, <1>5, <1>6, Zenon DEF Inv

\* What other features leave of the device and the factors.
LEMMA ElsewhereRows ==
    ASSUME Inv, Elsewhere
    PROVE  /\ device' \in DeviceRow /\ factor' \in OptTime
           /\ clock' = clock /\ req' = req /\ credRow' = credRow /\ sessions' = sessions
           /\ families' = families /\ outbox' = outbox /\ attempts' = attempts
           /\ mfaStore' = mfaStore
<1>1. /\ clock' = clock /\ req' = req /\ credRow' = credRow /\ sessions' = sessions
      /\ families' = families /\ outbox' = outbox /\ attempts' = attempts /\ mfaStore' = mfaStore
  BY DEF Elsewhere
<1>2. device \in DeviceRow /\ factor \in OptTime /\ clock \in Nat
  BY Zenon DEF Inv
<1>3. clock \in OptTime /\ NoTime \in OptTime
  BY <1>2 DEF OptTime
<1>4. CASE RegisterDevice
  <2>1. device' = NewDevice(clock) /\ factor' = factor
    BY <1>4, Zenon DEF RegisterDevice
  <2>2. NewDevice(clock) \in DeviceRow
    BY <1>2, <1>3 DEF NewDevice, DeviceRow
  <2> QED BY <1>1, <1>2, <2>1, <2>2, Zenon
<1>5. CASE RevokeDevice
  <2>1. /\ device' = [device EXCEPT !.trustStatus = "REVOKED", !.revokedAt = clock]
        /\ factor' = factor
    BY <1>5, Zenon DEF RevokeDevice
  <2>2. [device EXCEPT !.trustStatus = "REVOKED", !.revokedAt = clock] \in DeviceRow
    BY <1>2, <1>3, Zenon DEF DeviceRow
  <2> QED BY <1>1, <1>2, <2>1, <2>2, Zenon
<1>6. CASE EnrolFactor
  BY <1>1, <1>2, <1>3, <1>6, Zenon DEF EnrolFactor
<1>7. RegisterDevice \/ RevokeDevice \/ EnrolFactor
  BY Zenon DEF Elsewhere
<1> QED BY <1>1, <1>4, <1>5, <1>6, <1>7, Zenon

LEMMA ElsewhereInv ==
    ASSUME Inv, Elsewhere
    PROVE  Inv'
<1>1. \A x \in Requests : Recorded(x)'
  <2> TAKE x \in Requests
  <2>1. Recorded(x)
    BY Zenon DEF Inv
  <2> QED BY <2>1, ElsewhereRows, Zenon DEF Recorded
<1> QED BY <1>1, ElsewhereRows, Zenon DEF Inv

LEMMA StutterInv ==
    ASSUME Inv, UNCHANGED vars
    PROVE  Inv'
<1>1. /\ clock' = clock /\ req' = req /\ credRow' = credRow /\ sessions' = sessions
      /\ families' = families /\ device' = device /\ factor' = factor
      /\ attempts' = attempts /\ mfaStore' = mfaStore
  BY DEF vars
<1>2. \A x \in Requests : Recorded(x)'
  <2> TAKE x \in Requests
  <2>1. Recorded(x)
    BY Zenon DEF Inv
  <2> QED BY <1>1, <2>1, Zenon DEF Recorded
<1> QED BY <1>1, <1>2, Zenon DEF Inv

LEMMA StepInv == Inv /\ [Next]_vars => Inv'
<1> SUFFICES ASSUME Inv, [Next]_vars PROVE Inv'
  OBVIOUS
<1>1. ASSUME NEW r \in Requests,
             \/ Moves(r) \/ Fails(r) \/ Refuses(r) \/ Concludes(r)
             \/ StoreMFASession(r) \/ Opens(r)
      PROVE  Inv'
  BY <1>1, MovesInv, FailsInv, RefusesInv, ConcludesInv, ChallengesInv, OpensInv, Zenon
<1> QED BY <1>1, StepKinds, TickInv, ElsewhereInv, StutterInv, Zenon

\* The credential row can be read back, and reads back as it is.
LEMMA SoundRow == Inv => CredentialRowSound
<1> SUFFICES ASSUME Inv PROVE CredentialRowSound
  OBVIOUS
<1>1. Sound(credRow) /\ Snapshot(credRow) = credRow
  BY Zenon DEF Inv
<1>2. RehydrateCredential(Snapshot(credRow)) = Ok(ClearEvents(credRow))
  BY <1>1, SoundRehydrates
<1>3. ClearEvents(credRow) = credRow
  BY <1>1, Zenon DEF Snapshot
<1>4. RehydrateCredential(credRow) = Ok(credRow)
  BY <1>1, <1>2, <1>3, Zenon
<1> QED BY <1>1, <1>4, Zenon DEF CredentialRowSound, Sound

-----------------------------------------------------------------------------
(* The promise: what a client is told agrees with what is on record.       *)

Opened == {x \in Requests : sessions[x] # NilSession}
Answer == [x \in Requests |-> req[x].response]

\* A step that answers nobody, opens nothing and records nothing is none of the
\* promise's.
LEMMA Quiet ==
    ASSUME Answer' = Answer, sessions' = sessions, attempts' = attempts, mfaStore' = mfaStore
    PROVE  UNCHANGED Promise!pvars
<1>1. Opened' = Opened
  BY DEF Opened
<1> QED BY <1>1 DEF Promise!pvars, Opened, Answer

\* What a request is told.
LEMMA AnswerTo ==
    ASSUME Inv, NEW r \in Requests, req[r].stage # "done", NEW told, req'[r].response = told,
           \A x \in Requests \ {r} : req'[x] = req[x]
    PROVE  Answer[r] = "" /\ Answer' = [Answer EXCEPT ![r] = told]
<1>1. req[r].response = ""
  BY Zenon DEF Inv, Proper
<1> QED BY <1>1, Zenon DEF Answer

LEMMA MovesKeeps ==
    ASSUME Inv, NEW r \in Requests, Moves(r)
    PROVE  UNCHANGED Promise!pvars
<1>1. PICK m \in Request :
        /\ Proper(m, clock, sessions) /\ m.stage \in Open /\ req' = [req EXCEPT ![r] = m]
  BY Zenon DEF Moves
<1>2. m.response = "" /\ req[r].response = ""
  <2>1. m.stage # "done" /\ req[r].stage # "done"
    BY <1>1 DEF Moves, Open
  <2>2. Proper(req[r], clock, sessions)
    BY Zenon DEF Inv
  <2> QED BY <1>1, <2>1, <2>2, Zenon DEF Proper
<1>3. req \in [Requests -> Request]
  BY Zenon DEF Inv
<1>4. Answer' = Answer
  BY <1>1, <1>2, <1>3, Zenon DEF Answer
<1>5. sessions' = sessions /\ attempts' = attempts /\ mfaStore' = mfaStore
  BY DEF Moves, db
<1> QED BY <1>4, <1>5, Quiet

LEMMA FailsKeeps ==
    ASSUME Inv, NEW r \in Requests, Fails(r)
    PROVE  Promise!PNext \/ UNCHANGED Promise!pvars
<1>1. PICK response \in Promise!SystemErrors \cup {""} : Respond(r, response)
  BY Zenon DEF Fails, Promise!SystemErrors
<1>2. /\ req[r].stage # "done" /\ sessions' = sessions /\ attempts' = attempts
      /\ mfaStore' = mfaStore /\ clock' = clock
  BY Zenon DEF Fails, db
<1>3. response \in Answers
  BY Zenon DEF Promise!SystemErrors, Answers, Responses
<1>4. req'[r].response = response /\ \A x \in Requests \ {r} : req'[x] = req[x]
  BY <1>1, <1>2, <1>3, RespondProper, Zenon
<1>5. Answer[r] = "" /\ Answer' = [Answer EXCEPT ![r] = response]
  BY <1>2, <1>4, AnswerTo, Zenon
<1>6. CASE response = ""
  <2>1. Answer' = Answer
    BY <1>5, <1>6, Zenon DEF Answer
  <2> QED BY <1>2, <2>1, Quiet, Zenon
<1>7. CASE response \in Promise!SystemErrors
  <2>1. Opened' = Opened
    BY <1>2, Zenon DEF Opened
  <2>2. Promise!PRefuse(r, response)
    BY <1>2, <1>5, <1>7, <2>1, Zenon DEF Promise!PRefuse, Opened, Answer
  <2> QED BY <1>7, <2>2, Zenon DEF Promise!PNext
<1> QED BY <1>6, <1>7, Zenon

\* A refusal before the transaction, whose record may be lost.
LEMMA RefusesKeeps ==
    ASSUME Inv, NEW r \in Requests, Refuses(r)
    PROVE  Promise!PNext
<1> DEFINE Refusals == {"ErrLoginInvalidCredentials", "ErrLoginAccountLocked", "ErrRateLimited"}
<1>1. PICK outcome \in Promise!Outcomes \ {"SUCCEEDED"} : \E response \in Promise!Told(outcome) :
        Respond(r, response) /\ RecordAttemptBestEffort(r, outcome) /\ response \in Refusals
  BY Zenon DEF Refuses, InvalidCredentials, Promise!Outcomes, Promise!Told
<1>2. PICK response \in Promise!Told(outcome) :
        Respond(r, response) /\ RecordAttemptBestEffort(r, outcome) /\ response \in Refusals
  BY <1>1
<1>3. /\ req[r].stage # "done" /\ req[r].stage \in Open
      /\ sessions' = sessions /\ mfaStore' = mfaStore /\ clock' = clock
  BY DEF Refuses, db, Open, Stages
<1>4. response \in Answers
  BY <1>2, Zenon DEF Answers, Responses
<1>5. req'[r].response = response /\ \A x \in Requests \ {r} : req'[x] = req[x]
  BY <1>2, <1>3, <1>4, RespondProper
<1>6. Answer[r] = "" /\ Answer' = [Answer EXCEPT ![r] = response]
  BY <1>3, <1>5, AnswerTo, Zenon
<1>7. Opened' = Opened
  BY <1>3 DEF Opened
<1>8. attempts[r] = ""
  BY <1>3, Zenon DEF Inv, Recorded
<1>9. CASE attempts' = [attempts EXCEPT ![r] = outcome]
  <2>1. outcome # "SUCCEEDED"
    BY <1>1
  <2>2. Promise!PConclude(r, outcome, response)
    BY <1>2, <1>3, <1>6, <1>7, <1>8, <1>9, <2>1, Zenon DEF Promise!PConclude, Opened, Answer
  <2> QED BY <1>1, <1>2, <2>2, Zenon DEF Promise!PNext
<1>10. CASE attempts' = attempts
  <2>1. Promise!PRefuse(r, response)
    BY <1>2, <1>3, <1>6, <1>7, <1>8, <1>10, Zenon DEF Promise!PRefuse, Opened, Answer
  <2> QED BY <1>2, <2>1, Zenon DEF Promise!PNext
<1> QED BY <1>2, <1>9, <1>10 DEF RecordAttemptBestEffort

\* A transaction without a session.
LEMMA ConcludesKeeps ==
    ASSUME Inv, NEW r \in Requests, Concludes(r)
    PROVE  Promise!PNext
<1>1. PICK outcome \in Promise!Outcomes \ {"SUCCEEDED"} :
        /\ CredentialWrites(r, outcome)
        /\ \/ \E response \in Promise!Told(outcome) \cap Responses : Respond(r, response)
           \/ Goto(r, "mfaStore") /\ outcome = "MFA_REQUIRED"
  BY Zenon DEF Concludes, Promise!Outcomes, Promise!Told, Responses
<1>2. /\ req[r].stage # "done" /\ req[r].stage \in Open /\ mfaStore' = mfaStore /\ clock' = clock
  BY DEF Concludes, Open, Stages
<1>3. sessions' = sessions /\ attempts' = [attempts EXCEPT ![r] = outcome]
  BY <1>1 DEF CredentialWrites
<1>4. PICK told \in Promise!Told(outcome) :
        req'[r].response = told /\ \A x \in Requests \ {r} : req'[x] = req[x]
  <2>1. CASE \E response \in Promise!Told(outcome) \cap Responses : Respond(r, response)
    <3>1. PICK response \in Promise!Told(outcome) \cap Responses : Respond(r, response)
      BY <2>1
    <3>2. response \in Answers
      BY Zenon DEF Answers
    <3> QED BY <1>2, <1>3, <3>1, <3>2, RespondProper
  <2>2. CASE Goto(r, "mfaStore") /\ outcome = "MFA_REQUIRED"
    <3>1. req[r].response = "" /\ req \in [Requests -> Request] /\ req[r] \in Request
      BY <1>2, Zenon DEF Inv, Proper
    <3>2. req' = [req EXCEPT ![r].stage = "mfaStore"]
      BY <2>2 DEF Goto
    <3>3. req'[r] = [req[r] EXCEPT !.stage = "mfaStore"] /\ \A x \in Requests \ {r} : req'[x] = req[x]
      BY <3>1, <3>2, Zenon
    <3>4. req'[r].response = ""
      BY <3>1, <3>3, Zenon DEF Request
    <3>5. "" \in Promise!Told(outcome)
      BY <2>2 DEF Promise!Told
    <3> QED BY <3>3, <3>4, <3>5, Zenon
  <2> QED BY <1>1, <2>1, <2>2
<1>5. Answer[r] = "" /\ Answer' = [Answer EXCEPT ![r] = told]
  BY <1>2, <1>4, AnswerTo, Zenon
<1>6. Opened' = Opened
  BY <1>3 DEF Opened
<1>7. attempts[r] = "" /\ outcome # "SUCCEEDED"
  BY <1>1, <1>2, Zenon DEF Inv, Recorded
<1>8. Promise!PConclude(r, outcome, told)
  BY <1>2, <1>3, <1>5, <1>6, <1>7, Zenon DEF Promise!PConclude, Opened, Answer
<1> QED BY <1>1, <1>8, Zenon DEF Promise!PNext

\* The MFA session, stored after the commit.
LEMMA ChallengesKeeps ==
    ASSUME Inv, NEW r \in Requests, StoreMFASession(r)
    PROVE  Promise!PNext
<1>1. PICK told \in {"MFA_REQUIRED", "ErrSystemUpstream"} :
        /\ Respond(r, told)
        /\ mfaStore' = mfaStore \cup {r} \/ (mfaStore' = mfaStore /\ told = "ErrSystemUpstream")
  BY DEF StoreMFASession
<1>2. /\ req[r].stage = "mfaStore" /\ req[r].stage # "done"
      /\ sessions' = sessions /\ attempts' = attempts /\ clock' = clock
  BY DEF StoreMFASession, db
<1>3. told \in Answers
  BY Zenon DEF Answers, Responses
<1>4. req'[r].response = told /\ \A x \in Requests \ {r} : req'[x] = req[x]
  BY <1>1, <1>2, <1>3, RespondProper
<1>5. Answer[r] = "" /\ Answer' = [Answer EXCEPT ![r] = told]
  BY <1>2, <1>4, AnswerTo, Zenon
<1>6. Opened' = Opened
  BY <1>2 DEF Opened
<1>7. attempts[r] = "MFA_REQUIRED"
  BY <1>2, Zenon DEF Inv, Recorded
<1>8. CASE mfaStore' = mfaStore \cup {r}
  <2>1. Promise!PChallenge(r, told)
    BY <1>2, <1>5, <1>6, <1>7, <1>8, Zenon DEF Promise!PChallenge, Opened, Answer
  <2> QED BY <2>1, Zenon DEF Promise!PNext
<1>9. CASE mfaStore' = mfaStore /\ told = "ErrSystemUpstream"
  <2>1. told \in Promise!SystemErrors
    BY <1>9 DEF Promise!SystemErrors
  <2>2. Promise!PRefuse(r, told)
    BY <1>2, <1>5, <1>6, <1>9, <2>1, Zenon DEF Promise!PRefuse, Opened, Answer
  <2> QED BY <2>1, <2>2, Zenon DEF Promise!PNext
<1> QED BY <1>1, <1>8, <1>9

\* completeSession's transaction.
LEMMA OpensKeeps ==
    ASSUME Inv, NEW r \in Requests, Opens(r)
    PROVE  Promise!PNext
<1>1. PICK told \in {"COMPLETED", "ErrSystemDatabase"} : Respond(r, told)
  BY DEF Opens
<1>2. /\ req[r].stage # "done" /\ req[r].stage \in Open /\ mfaStore' = mfaStore /\ clock' = clock
  BY DEF Opens, Open, Stages
<1>3. attempts' = [attempts EXCEPT ![r] = "SUCCEEDED"]
  BY Zenon DEF Opens, SessionWrites
<1>4. /\ sessions'[r] # NilSession
      /\ \A x \in Requests \ {r} : sessions'[x] # NilSession <=> sessions[x] # NilSession
  BY RowsAfter, NotNil
<1>5. /\ Opened' = Opened \cup {r}
      /\ \A x \in Requests : sessions[x] # NilSession => sessions'[x] # NilSession
  BY <1>4 DEF Opened
<1>6. told \in Answers /\ told \in Promise!Told("SUCCEEDED") /\ "SUCCEEDED" \in Promise!Outcomes
  BY Zenon DEF Answers, Responses, Promise!Told, Promise!Outcomes
<1>7. req'[r].response = told /\ \A x \in Requests \ {r} : req'[x] = req[x]
  BY <1>1, <1>2, <1>5, <1>6, RespondProper
<1>8. Answer[r] = "" /\ Answer' = [Answer EXCEPT ![r] = told]
  BY <1>2, <1>7, AnswerTo, Zenon
<1>9. attempts[r] = ""
  BY <1>2, Zenon DEF Inv, Recorded
<1>10. Promise!PConclude(r, "SUCCEEDED", told)
  BY <1>2, <1>3, <1>5, <1>6, <1>8, <1>9, Zenon DEF Promise!PConclude, Opened, Answer
<1> QED BY <1>6, <1>10, Zenon DEF Promise!PNext

\* Nothing is promised at first.
LEMMA InitPromise == Init => Promise!PInit
<1> SUFFICES ASSUME Init PROVE Promise!PInit
  OBVIOUS
<1>1. Opened = {}
  BY Zenon DEF Init, Opened
<1>2. Answer = [x \in Requests |-> ""]
  BY Zenon DEF Init, Answer, Idle
<1> QED BY <1>1, <1>2, Zenon DEF Init, Promise!PInit, Opened, Answer

\* Every step of a login is a step of LoginPromise, or none.
LEMMA StepPromise == Inv /\ [Next]_vars => [Promise!PNext]_(Promise!pvars)
<1> SUFFICES ASSUME Inv, [Next]_vars
             PROVE  Promise!PNext \/ UNCHANGED Promise!pvars
  OBVIOUS
<1>1. ASSUME NEW r \in Requests,
             \/ Moves(r) \/ Fails(r) \/ Refuses(r) \/ Concludes(r)
             \/ StoreMFASession(r) \/ Opens(r)
      PROVE  Promise!PNext \/ UNCHANGED Promise!pvars
  BY <1>1, MovesKeeps, FailsKeeps, RefusesKeeps, ConcludesKeeps, ChallengesKeeps, OpensKeeps,
     Zenon
<1>2. CASE Tick \/ Elsewhere \/ UNCHANGED vars
  <2>1. sessions' = sessions /\ attempts' = attempts /\ mfaStore' = mfaStore /\ req' = req
    BY <1>2 DEF Tick, Elsewhere, vars, db
  <2>2. Answer' = Answer
    BY <2>1 DEF Answer
  <2> QED BY <2>1, <2>2, Quiet
<1> QED BY <1>1, <1>2, StepKinds, Zenon

-----------------------------------------------------------------------------
(* The second factor.                                                      *)

\* A login of time t may do without a second factor, given the factor and the
\* device: either was known only later.
Allowed(t, f, d) ==
    /\ f # NoTime => t <= f
    /\ d.trustStatus = "REVOKED" => t <= d.revokedAt
    /\ d.trustStatus # "none"

\* Those that open a session, and those that have, may.
AllAllowed ==
    \A r \in Requests :
        /\ req[r].stage \in SessionStages => Allowed(req[r].now, factor, device)
        /\ sessions[r] # NilSession =>
              sessions[r].createdAt <= clock /\ Allowed(sessions[r].createdAt, factor, device)

LEMMA InitAllowed == Init => AllAllowed
<1> SUFFICES ASSUME Init, NEW r \in Requests
             PROVE  req[r].stage \notin SessionStages /\ sessions[r] = NilSession
  BY Zenon DEF AllAllowed
<1>1. req[r] = Idle /\ sessions[r] = NilSession
  BY Zenon DEF Init
<1>2. Idle.stage \notin SessionStages
  BY DEF Idle, SessionStages
<1> QED BY <1>1, <1>2

\* What was allowed when the decision was made is still allowed.
LEMMA ElsewhereAllowed ==
    ASSUME Inv, Elsewhere, NEW t \in Nat, t <= clock, Allowed(t, factor, device)
    PROVE  Allowed(t, factor', device')
<1>1. device \in DeviceRow
  BY Zenon DEF Inv
<1>2. ~RegisterDevice
  BY Zenon DEF RegisterDevice, Allowed
<1>3. CASE RevokeDevice
  <2>1. device' = [device EXCEPT !.trustStatus = "REVOKED", !.revokedAt = clock] /\ factor' = factor
    BY <1>3, Zenon DEF RevokeDevice
  <2>2. device'.trustStatus # "none" /\ device'.revokedAt = clock
    BY <1>1, <2>1 DEF DeviceRow
  <2> QED BY <2>1, <2>2, Zenon DEF Allowed
<1>4. CASE EnrolFactor
  <2>1. factor' = clock /\ device' = device
    BY <1>4, Zenon DEF EnrolFactor
  <2> QED BY <2>1, Zenon DEF Allowed
<1> QED BY <1>2, <1>3, <1>4, Zenon DEF Elsewhere

\* A session opened is of a login that may open it.
LEMMA OpensAllowed ==
    ASSUME Inv, AllAllowed, NEW r \in Requests, Opens(r)
    PROVE  AllAllowed'
<1>1. req[r].stage = "txWrite" /\ "txWrite" \in SessionStages /\ SessionWrites(r) /\ clock' = clock
  BY DEF Opens, SessionStages
<1>2. factor' = factor /\ device' = TouchDevice(req[r].now)
  BY <1>1, Zenon DEF SessionWrites
<1>3. device'.trustStatus = device.trustStatus /\ device'.revokedAt = device.revokedAt
  <2>1. device \in DeviceRow
    BY Zenon DEF Inv
  <2> QED BY <1>2, <2>1 DEF TouchDevice, DeviceRow
<1>4. \A t : Allowed(t, factor, device) => Allowed(t, factor', device')
  BY <1>2, <1>3, Zenon DEF Allowed
<1>5. Allowed(req[r].now, factor, device) /\ req[r].now <= clock
  BY <1>1, Zenon DEF AllAllowed, Inv, Proper
<1>6. /\ sessions'[r].createdAt = req[r].now
      /\ \A x \in Requests \ {r} :
            sessions'[x] # NilSession =>
                sessions[x] # NilSession /\ sessions'[x].createdAt = sessions[x].createdAt
  BY RowsAfter, NotNil
<1>7. req'[r].stage \notin SessionStages /\ \A x \in Requests \ {r} : req'[x] = req[x]
  <2>1. \A x \in Requests : sessions[x] # NilSession => sessions'[x] # NilSession
    BY RowsAfter, NotNil
  <2>2. PICK told \in Answers : Respond(r, told)
    BY Zenon DEF Opens, Answers, Responses
  <2>3. req'[r].stage = "done" /\ \A x \in Requests \ {r} : req'[x] = req[x]
    BY <1>1, <2>1, <2>2, RespondProper
  <2>4. "done" \notin SessionStages
    BY DEF SessionStages
  <2> QED BY <2>3, <2>4, Zenon
<1>8. ASSUME NEW x \in Requests
      PROVE  /\ req'[x].stage \in SessionStages => Allowed(req'[x].now, factor', device')
             /\ sessions'[x] # NilSession =>
                   sessions'[x].createdAt <= clock' /\ Allowed(sessions'[x].createdAt, factor', device')
  <2>1. CASE x = r
    BY <1>1, <1>4, <1>5, <1>6, <1>7, <2>1, Zenon
  <2>2. CASE x # r
    BY <1>1, <1>4, <1>6, <1>7, <2>2, Zenon DEF AllAllowed
  <2> QED BY <2>1, <2>2
<1> QED BY <1>8, Zenon DEF AllAllowed

\* No other step lets a login open a session that may not.
LEMMA StepAllowed == Inv /\ AllAllowed /\ [Next]_vars => AllAllowed'
<1> SUFFICES ASSUME Inv, AllAllowed, [Next]_vars PROVE AllAllowed'
  OBVIOUS
<1>1. ASSUME sessions' = sessions, factor' = factor, device' = device, clock' \in Nat, clock <= clock',
             \A x \in Requests : req'[x].stage \in SessionStages =>
                \/ req[x].stage \in SessionStages /\ req'[x].now = req[x].now
                \/ ~MFARequired
      PROVE  AllAllowed'
  <2>1. ~MFARequired => \A t : Allowed(t, factor, device)
    <3>1. ~MFARequired => factor = NoTime /\ device.trustStatus \notin {"none", "REVOKED"}
      BY Zenon DEF MFARequired, HasActiveFactor, FindByFingerprint
    <3>2. device.trustStatus \notin {"none", "REVOKED"} =>
             device.trustStatus # "none" /\ device.trustStatus # "REVOKED"
      OBVIOUS
    <3> QED BY <3>1, <3>2, Zenon DEF Allowed
  <2>2. ASSUME NEW x \in Requests, sessions[x] # NilSession PROVE sessions[x].createdAt <= clock'
    <3>1. sessions[x] \in Session /\ clock \in Nat
      BY <2>2, Zenon DEF Inv
    <3>2. sessions[x].createdAt \in Nat
      BY <3>1, Zenon DEF Session
    <3>3. sessions[x].createdAt <= clock
      BY <2>2, Zenon DEF AllAllowed
    <3> QED BY <1>1, <3>1, <3>2, <3>3
  <2>3. ASSUME NEW x \in Requests, req'[x].stage \in SessionStages
        PROVE  Allowed(req'[x].now, factor, device)
    BY <1>1, <2>1, <2>3, Zenon DEF AllAllowed
  <2>4. ASSUME NEW x \in Requests, sessions[x] # NilSession
        PROVE  Allowed(sessions[x].createdAt, factor, device)
    BY <2>4, Zenon DEF AllAllowed
  <2> QED BY <1>1, <2>2, <2>3, <2>4, Zenon DEF AllAllowed
<1>2. ASSUME NEW r \in Requests, sessions' = sessions, factor' = factor, device' = device, clock' = clock,
             \A x \in Requests \ {r} : req'[x] = req[x],
             req'[r].stage \in SessionStages =>
                \/ req[r].stage \in SessionStages /\ req'[r].now = req[r].now
                \/ ~MFARequired
      PROVE  AllAllowed'
  <2>1. clock \in Nat
    BY Zenon DEF Inv
  <2>2. clock' \in Nat /\ clock <= clock'
    BY <1>2, <2>1
  <2>3. \A x \in Requests : req'[x].stage \in SessionStages =>
           \/ req[x].stage \in SessionStages /\ req'[x].now = req[x].now
           \/ ~MFARequired
    BY <1>2, Zenon
  <2> QED BY <1>1, <1>2, <2>2, <2>3, Zenon
<1>3. ASSUME NEW r \in Requests, Moves(r) PROVE AllAllowed'
  <2>1. PICK m \in Request :
          /\ req[r].stage # "idle" => m.now = req[r].now
          /\ m.stage \in SessionStages => req[r].stage \in SessionStages \/ ~MFARequired
          /\ req' = [req EXCEPT ![r] = m]
    BY <1>3, Zenon DEF Moves
  <2>2. sessions' = sessions /\ factor' = factor /\ device' = device /\ clock' = clock
    BY <1>3 DEF Moves, db
  <2>3. req'[r] = m /\ \A x \in Requests \ {r} : req'[x] = req[x]
    BY <2>1, Zenon DEF Inv
  <2>4. "idle" \notin SessionStages
    BY DEF SessionStages
  <2> QED BY <1>2, <2>1, <2>2, <2>3, <2>4, Zenon
<1>4. ASSUME NEW r \in Requests, NEW told \in Answers, Respond(r, told),
             sessions' = sessions, factor' = factor, device' = device, clock' = clock
      PROVE  AllAllowed'
  <2>1. req'[r].stage = "done" /\ \A x \in Requests \ {r} : req'[x] = req[x]
    BY <1>4, RespondProper
  <2>2. "done" \notin SessionStages
    BY DEF SessionStages
  <2> QED BY <1>2, <1>4, <2>1, <2>2, Zenon
<1>5. ASSUME NEW r \in Requests, Fails(r) \/ Refuses(r) \/ StoreMFASession(r) PROVE AllAllowed'
  <2>1. sessions' = sessions /\ factor' = factor /\ device' = device /\ clock' = clock
    BY <1>5, Zenon DEF Fails, Refuses, StoreMFASession, db
  <2>2. PICK told \in Answers : Respond(r, told)
    BY <1>5, Zenon DEF Fails, Refuses, InvalidCredentials, StoreMFASession, Answers, Responses
  <2> QED BY <1>4, <2>1, <2>2, Zenon
<1>6. ASSUME NEW r \in Requests, Concludes(r) PROVE AllAllowed'
  <2>1. sessions' = sessions /\ factor' = factor /\ device' = device /\ clock' = clock
    BY <1>6, Zenon DEF Concludes, CredentialWrites
  <2>2. (\E told \in Answers : Respond(r, told)) \/ Goto(r, "mfaStore")
    BY <1>6, Zenon DEF Concludes, Answers, Responses
  <2>3. CASE Goto(r, "mfaStore")
    <3>1. /\ req' = [req EXCEPT ![r].stage = "mfaStore"] /\ req \in [Requests -> Request]
          /\ req[r] \in Request
      BY <2>3, Zenon DEF Goto, Inv, Proper
    <3>2. req'[r] = [req[r] EXCEPT !.stage = "mfaStore"] /\ \A x \in Requests \ {r} : req'[x] = req[x]
      BY <3>1
    <3>3. req'[r].stage = "mfaStore"
      BY <3>1, <3>2, Zenon DEF Request
    <3>4. "mfaStore" \notin SessionStages
      BY DEF SessionStages
    <3> QED BY <1>2, <2>1, <3>2, <3>3, <3>4, Zenon
  <2> QED BY <1>4, <2>1, <2>2, <2>3, Zenon
<1>7. ASSUME Tick \/ UNCHANGED vars PROVE AllAllowed'
  <2>1. sessions' = sessions /\ factor' = factor /\ device' = device /\ req' = req
    BY <1>7 DEF Tick, vars, db
  <2>2. clock \in Nat /\ (clock' = clock + 1 \/ clock' = clock)
    BY <1>7, Zenon DEF Tick, vars, Inv
  <2>3. clock' \in Nat /\ clock <= clock'
    BY <2>2
  <2> QED BY <1>1, <2>1, <2>3, Zenon
<1>8. ASSUME Elsewhere PROVE AllAllowed'
  <2>1. clock' = clock /\ req' = req /\ sessions' = sessions
    BY <1>8, ElsewhereRows
  <2>2. ASSUME NEW x \in Requests, req[x].stage \in SessionStages
        PROVE  Allowed(req[x].now, factor', device')
    <3>1. Allowed(req[x].now, factor, device) /\ req[x].now <= clock /\ req[x] \in Request
      BY <2>2, Zenon DEF AllAllowed, Inv, Proper
    <3>2. req[x].now \in Nat
      BY <3>1, Zenon DEF Request
    <3> QED BY <1>8, <3>1, <3>2, ElsewhereAllowed
  <2>3. ASSUME NEW x \in Requests, sessions[x] # NilSession
        PROVE  sessions[x].createdAt <= clock /\ Allowed(sessions[x].createdAt, factor', device')
    <3>1. sessions[x] \in Session
      BY <2>3, Zenon DEF Inv
    <3>2. sessions[x].createdAt \in Nat
      BY <3>1, Zenon DEF Session
    <3>3. sessions[x].createdAt <= clock /\ Allowed(sessions[x].createdAt, factor, device)
      BY <2>3, Zenon DEF AllAllowed
    <3> QED BY <1>8, <3>2, <3>3, ElsewhereAllowed
  <2> QED BY <2>1, <2>2, <2>3, Zenon DEF AllAllowed
<1> QED BY <1>3, <1>5, <1>6, <1>7, <1>8, OpensAllowed, StepKinds, Zenon

-----------------------------------------------------------------------------
(* The rows of one login.                                                  *)

\* Request x's SessionCreated is among the rows q.
Tells(q, x) == \E i \in 1..Len(q) : q[i].aggregate = x /\ q[i].event.type = "SessionCreated"

LEMMA TellsConcat ==
    ASSUME NEW p \in Seq(OutboxEvent), NEW q \in Seq(OutboxEvent), NEW x
    PROVE  p \o q \in Seq(OutboxEvent) /\ (Tells(p \o q, x) <=> Tells(p, x) \/ Tells(q, x))
<1>1. p \o q \in Seq(OutboxEvent) /\ Len(p \o q) = Len(p) + Len(q) /\ Len(p) \in Nat /\ Len(q) \in Nat
  OBVIOUS
<1>2. \A i \in 1..Len(p) : i \in 1..Len(p \o q) /\ (p \o q)[i] = p[i]
  BY <1>1
<1>3. \A i \in 1..Len(q) : i + Len(p) \in 1..Len(p \o q) /\ (p \o q)[i + Len(p)] = q[i]
  BY <1>1
<1>4. \A i \in 1..Len(p \o q) : i \in 1..Len(p) \/ i - Len(p) \in 1..Len(q)
  BY <1>1
<1>5. \A i \in 1..Len(p \o q) : i - Len(p) \in 1..Len(q) => (p \o q)[i] = q[i - Len(p)]
  BY <1>1
<1>6. Tells(p, x) => Tells(p \o q, x)
  BY <1>2, Zenon DEF Tells
<1>7. Tells(q, x) => Tells(p \o q, x)
  BY <1>3, Zenon DEF Tells
<1>8. Tells(p \o q, x) => Tells(p, x) \/ Tells(q, x)
  <2> SUFFICES ASSUME NEW i \in 1..Len(p \o q), (p \o q)[i].aggregate = x,
                      (p \o q)[i].event.type = "SessionCreated"
               PROVE  Tells(p, x) \/ Tells(q, x)
    BY Zenon DEF Tells
  <2>1. CASE i \in 1..Len(p)
    BY <1>2, <2>1, Zenon DEF Tells
  <2>2. CASE i - Len(p) \in 1..Len(q)
    BY <1>5, <2>2, Zenon DEF Tells
  <2> QED BY <1>4, <2>1, <2>2, Zenon
<1> QED BY <1>1, <1>6, <1>7, <1>8, Zenon

\* A credential's events are no session's.
LEMMA CredentialRows ==
    ASSUME NEW events \in Seq(CredentialEvent)
    PROVE  /\ OutboxRows("credential", events) \in Seq(OutboxEvent)
           /\ \A x : ~Tells(OutboxRows("credential", events), x)
<1> DEFINE q == OutboxRows("credential", events)
<1>1. Len(events) \in Nat /\ \A i \in 1..Len(events) : events[i] \in CredentialEvent
  OBVIOUS
<1>2. \A e \in CredentialEvent :
         OutboxRow("credential", e) \in OutboxEvent /\ OutboxRow("credential", e).event = e
  BY DEF OutboxRow, OutboxEvent
<1>3. \A e \in CredentialEvent : e.type # "SessionCreated"
  BY DEF CredentialEvent
<1>4. /\ q = [i \in 1..Len(events) |-> OutboxRow("credential", events[i])]
      /\ \A i \in 1..Len(events) : q[i] = OutboxRow("credential", events[i])
  BY DEF OutboxRows
<1>5. q \in [1..Len(events) -> OutboxEvent]
  BY <1>1, <1>2, <1>4
<1>6. q \in Seq(OutboxEvent) /\ Len(q) = Len(events)
  BY <1>1, <1>5
<1> HIDE DEF q
<1>7. ASSUME NEW i \in 1..Len(events) PROVE q[i].event.type # "SessionCreated"
  <2>1. events[i] \in CredentialEvent /\ q[i] = OutboxRow("credential", events[i])
    BY <1>1, <1>4
  <2>2. q[i].event = events[i]
    BY <1>2, <2>1
  <2> QED BY <1>3, <2>1, <2>2
<1>8. \A x : ~Tells(q, x)
  BY <1>6, <1>7, Zenon DEF Tells
<1> QED BY <1>6, <1>8 DEF q

\* A new session has its one event.
LEMMA SessionRows ==
    ASSUME NEW r \in Requests, NEW e \in SessionEvent, e.type = "SessionCreated"
    PROVE  /\ OutboxRows(r, <<e>>) \in Seq(OutboxEvent)
           /\ \A x : Tells(OutboxRows(r, <<e>>), x) <=> x = r
<1> DEFINE q == OutboxRows(r, <<e>>)
<1>1. /\ OutboxRow(r, e) \in OutboxEvent /\ OutboxRow(r, e).event = e
      /\ OutboxRow(r, e).aggregate = r
  BY DEF OutboxRow, OutboxEvent
<1>2. Len(<<e>>) = 1 /\ <<e>>[1] = e
  OBVIOUS
<1>3. q = [i \in 1..1 |-> OutboxRow(r, <<e>>[i])]
  BY <1>2 DEF OutboxRows
<1>4. \A i \in 1..1 : i = 1
  OBVIOUS
<1>5. q \in [1..1 -> OutboxEvent] /\ q[1] = OutboxRow(r, e)
  BY <1>1, <1>2, <1>3, <1>4
<1> HIDE DEF q
<1>6. q \in Seq(OutboxEvent) /\ Len(q) = 1 /\ 1 \in 1..1
  <2>1. PICK n \in Nat : n = 1
    OBVIOUS
  <2>2. q \in [1..n -> OutboxEvent]
    BY <1>5, <2>1
  <2>3. q \in Seq(OutboxEvent) /\ Len(q) = n
    BY <2>2
  <2> QED BY <2>1, <2>3
<1>7. q[1].aggregate = r /\ q[1].event.type = "SessionCreated"
  BY <1>1, <1>5
<1>8. ASSUME NEW x, Tells(q, x) PROVE x = r
  <2>1. PICK i \in 1..Len(q) : q[i].aggregate = x
    BY <1>8 DEF Tells
  <2>2. i = 1
    BY <1>4, <1>6
  <2> QED BY <1>7, <2>1, <2>2
<1>9. Tells(q, r)
  BY <1>6, <1>7, Zenon DEF Tells
<1> QED BY <1>6, <1>8, <1>9 DEF q

\* The events and the device agree with the sessions.
OnRecord ==
    /\ outbox \in Seq(OutboxEvent)
    /\ \A r \in Requests : Tells(outbox, r) <=> sessions[r] # NilSession
    /\ \A r \in Requests : sessions[r] # NilSession =>
          \E x \in Requests :
             sessions[x] # NilSession /\ sessions[x].createdAt = device.lastSeenAt

LEMMA InitOnRecord == Init => OnRecord
<1> SUFFICES ASSUME Init PROVE OnRecord
  OBVIOUS
<1>1. outbox = << >> /\ \A r \in Requests : sessions[r] = NilSession
  BY Zenon DEF Init
<1>2. << >> \in Seq(OutboxEvent) /\ \A i \in 1..Len(<< >>) : FALSE
  OBVIOUS
<1> QED BY <1>1, <1>2, Zenon DEF OnRecord, Tells

\* The credential a request is about to save has well-formed events.
LEMMA PendingEvents ==
    ASSUME Inv, NEW r \in Requests, req[r].stage \in CredentialStages
    PROVE  req[r].cred.events \in Seq(CredentialEvent)
<1>1. Sound(req[r].cred)
  BY Zenon DEF Inv, Proper
<1> QED BY <1>1 DEF Sound, Credential

LEMMA StepOnRecord == Inv /\ AllAllowed /\ OnRecord /\ [Next]_vars => OnRecord'
<1> SUFFICES ASSUME Inv, AllAllowed, OnRecord, [Next]_vars PROVE OnRecord'
  OBVIOUS
<1>1. ASSUME sessions' = sessions, device'.lastSeenAt = device.lastSeenAt,
             outbox' \in Seq(OutboxEvent), \A x \in Requests : Tells(outbox', x) <=> Tells(outbox, x)
      PROVE  OnRecord'
  BY <1>1, Zenon DEF OnRecord
<1>2. ASSUME sessions' = sessions, device'.lastSeenAt = device.lastSeenAt, outbox' = outbox
      PROVE  OnRecord'
  BY <1>2, Zenon DEF OnRecord
<1>3. ASSUME NEW r \in Requests, Moves(r) \/ Fails(r) \/ Refuses(r) \/ StoreMFASession(r)
      PROVE  OnRecord'
  <2>1. sessions' = sessions /\ device' = device /\ outbox' = outbox
    BY <1>3, Zenon DEF Moves, Fails, Refuses, StoreMFASession, db
  <2> QED BY <1>2, <2>1, Zenon
<1>4. ASSUME Tick \/ UNCHANGED vars PROVE OnRecord'
  <2>1. sessions' = sessions /\ device' = device /\ outbox' = outbox
    BY <1>4 DEF Tick, vars, db
  <2> QED BY <1>2, <2>1, Zenon
<1>5. ASSUME Elsewhere PROVE OnRecord'
  <2>1. sessions' = sessions /\ outbox' = outbox
    BY <1>5, ElsewhereRows
  <2>2. CASE \E x \in Requests : sessions[x] # NilSession
    <3>1. device.trustStatus # "none"
      BY <2>2, Zenon DEF AllAllowed, Allowed
    <3>2. ~RegisterDevice
      BY <3>1, Zenon DEF RegisterDevice
    <3>3. CASE RevokeDevice
      <4>1. device' = [device EXCEPT !.trustStatus = "REVOKED", !.revokedAt = clock]
        BY <3>3, Zenon DEF RevokeDevice
      <4>2. device \in DeviceRow
        BY Zenon DEF Inv
      <4>3. device'.lastSeenAt = device.lastSeenAt
        BY <4>1, <4>2 DEF DeviceRow
      <4> QED BY <1>2, <2>1, <4>3, Zenon
    <3>4. CASE EnrolFactor
      <4>1. device' = device
        BY <3>4, Zenon DEF EnrolFactor
      <4> QED BY <1>2, <2>1, <4>1, Zenon
    <3> QED BY <1>5, <3>2, <3>3, <3>4, Zenon DEF Elsewhere
  <2>3. CASE \A x \in Requests : sessions[x] = NilSession
    BY <2>1, <2>3, Zenon DEF OnRecord
  <2> QED BY <2>2, <2>3, Zenon
<1>6. ASSUME NEW r \in Requests, Concludes(r) PROVE OnRecord'
  <2> DEFINE q == OutboxRows("credential", req[r].cred.events)
  <2>1. sessions' = sessions /\ device' = device /\ outbox' = outbox \o q
    BY <1>6, Zenon DEF Concludes, CredentialWrites
  <2>2. req[r].stage \in CredentialStages
    BY <1>6 DEF Concludes, CredentialStages
  <2>3. q \in Seq(OutboxEvent) /\ \A x : ~Tells(q, x)
    BY <2>2, PendingEvents, CredentialRows
  <2> HIDE DEF q
  <2>4. outbox \in Seq(OutboxEvent)
    BY Zenon DEF OnRecord
  <2>5. outbox' \in Seq(OutboxEvent) /\ \A x \in Requests : Tells(outbox', x) <=> Tells(outbox, x)
    BY <2>1, <2>3, <2>4, TellsConcat
  <2> QED BY <1>1, <2>1, <2>5, Zenon
<1>7. ASSUME NEW r \in Requests, Opens(r) PROVE OnRecord'
  <2> DEFINE session == NewAuthenticationSession("AAL1", {}, req[r].now).agg
             e == SessionCreated("AAL1", req[r].now + AbsoluteLifetime, req[r].now)
             p == OutboxRows("credential", req[r].cred.events)
             q == OutboxRows(r, <<e>>)
  <2>1. req[r].stage = "txWrite" /\ SessionWrites(r)
    BY <1>7 DEF Opens
  <2>2. "txWrite" \in CredentialStages /\ "txWrite" \in SessionStages
    BY DEF CredentialStages, SessionStages
  <2>3. SessionPolicyValid /\ req[r] \in Request
    BY <2>1, <2>2, Zenon DEF Inv, Proper
  <2>4. req[r].now \in Nat
    BY <2>3, Zenon DEF Request
  <2>5. session.events = <<e>> /\ session \in Session
    BY <2>3, <2>4, NewRow
  <2>6. outbox' = outbox \o p \o OutboxRows(r, session.events) /\ device' = TouchDevice(req[r].now)
    BY <2>1, Zenon DEF SessionWrites
  <2>7. outbox' = (outbox \o p) \o q
    BY <2>5, <2>6, Zenon
  <2>8. p \in Seq(OutboxEvent) /\ \A x : ~Tells(p, x)
    BY <2>1, <2>2, PendingEvents, CredentialRows
  <2>9. e \in SessionEvent /\ e.type = "SessionCreated"
    <3>1. req[r].now + AbsoluteLifetime \in Nat
      BY <2>4
    <3> QED BY <2>4, <3>1 DEF SessionCreated, SessionEvent, AAL
  <2> HIDE DEF e, session
  <2>10. q \in Seq(OutboxEvent) /\ \A x : Tells(q, x) <=> x = r
    BY <2>9, SessionRows
  <2> HIDE DEF p, q
  <2>11. outbox \in Seq(OutboxEvent)
    BY Zenon DEF OnRecord
  <2>12. outbox \o p \in Seq(OutboxEvent) /\ \A x : Tells(outbox \o p, x) <=> Tells(outbox, x)
    BY <2>8, <2>11, TellsConcat
  <2>13. outbox' \in Seq(OutboxEvent) /\ \A x : Tells(outbox', x) <=> Tells(outbox, x) \/ x = r
    BY <2>7, <2>10, <2>12, TellsConcat, Zenon
  <2>14. /\ sessions'[r] # NilSession /\ sessions'[r].createdAt = req[r].now
         /\ \A x \in Requests \ {r} : sessions'[x] # NilSession <=> sessions[x] # NilSession
    BY <1>7, RowsAfter, NotNil
  <2>15. device'.lastSeenAt = req[r].now
    <3>1. device \in DeviceRow
      BY Zenon DEF Inv
    <3> QED BY <2>6, <3>1 DEF TouchDevice, DeviceRow
  <2>16. \A x \in Requests : Tells(outbox', x) <=> sessions'[x] # NilSession
    BY <2>13, <2>14, Zenon DEF OnRecord
  <2> QED BY <2>13, <2>14, <2>15, <2>16, Zenon DEF OnRecord
<1> QED BY <1>3, <1>4, <1>5, <1>6, <1>7, StepKinds, Zenon

\* A session has its family, its event and its attempt.
LEMMA Atomic == Inv /\ OnRecord => LoginIsAtomic
<1> SUFFICES ASSUME Inv, OnRecord, NEW r \in Requests
             PROVE  /\ sessions[r] # NilSession <=> attempts[r] = "SUCCEEDED"
                    /\ r \in families <=> attempts[r] = "SUCCEEDED"
                    /\ HasEvent(r, "SessionCreated") <=> attempts[r] = "SUCCEEDED"
                    /\ attempts[r] = "SUCCEEDED" =>
                          \E x \in Requests :
                             sessions[x] # NilSession /\ sessions[x].createdAt = device.lastSeenAt
  BY Zenon DEF LoginIsAtomic
<1>1. Recorded(r)
  BY Zenon DEF Inv
<1>2. HasEvent(r, "SessionCreated") <=> Tells(outbox, r)
  BY Zenon DEF HasEvent, Tells
<1> QED BY <1>1, <1>2, Zenon DEF OnRecord, Recorded

-----------------------------------------------------------------------------
(* Session rows can be read back.                                          *)

RowsValid == \A x \in Requests : sessions[x] # NilSession => SessionSnapshotValid(sessions[x])

\* Cutting the idle timeout to whole seconds leaves a valid row, if it is a
\* second at least.
LEMMA NewRowValid ==
    ASSUME SessionPolicyValid, IdleTimeout >= Second, NEW now \in Nat
    PROVE  SessionSnapshotValid(SessionRow(NewAuthenticationSession("AAL1", {}, now).agg))
<1> DEFINE n == (IdleTimeout \div Second) * Second
           e == SessionCreated("AAL1", now + AbsoluteLifetime, now)
           s == [aal |-> "AAL1", factorsUsed |-> {}, status |-> SessionStatusActive,
                 createdAt |-> now, lastActivityAt |-> now, idleTimeout |-> IdleTimeout,
                 absoluteExpiresAt |-> now + AbsoluteLifetime, revokedAt |-> NoTime,
                 revokeReason |-> "", events |-> <<e>>]
           row == SessionRow(s)
<1>1. AALMatchesFactors("AAL1", {})
  BY DEF AALMatchesFactors
<1>2. NewAuthenticationSession("AAL1", {}, now).agg = s
  BY <1>1 DEF NewAuthenticationSession, Ok
<1>3. n > 0
  <2>1. IdleTimeout \div Second \in Nat /\ IdleTimeout \div Second >= 1
    OBVIOUS
  <2> DEFINE k == IdleTimeout \div Second
  <2> HIDE DEF k
  <2>2. k * Second >= Second
    BY <2>1 DEF k
  <2> QED BY <2>2 DEF k
<1> HIDE DEF n
<1>4. /\ row.status = SessionStatusActive /\ row.aal = "AAL1" /\ row.factorsUsed = {}
      /\ row.revokedAt = NoTime /\ row.revokeReason = "" /\ row.createdAt = now
      /\ row.lastActivityAt = now /\ row.absoluteExpiresAt = now + AbsoluteLifetime
      /\ row.idleTimeout = n
  BY DEF SessionRow, Snapshot, ClearEvents, n
<1> HIDE DEF row
<1>5. row.status \in SessionStatus /\ row.aal \in AAL
  BY <1>4, Zenon DEF SessionStatus, AAL
<1>6. row.status # SessionStatusRevoked /\ row.status # SessionStatusExpired
  BY <1>4, Zenon DEF SessionStatusActive, SessionStatusRevoked, SessionStatusExpired
<1>7. /\ row.idleTimeout > 0 /\ row.absoluteExpiresAt > row.createdAt
      /\ row.lastActivityAt >= row.createdAt
  <2>1. now + AbsoluteLifetime > now /\ now >= now
    BY DEF SessionPolicyValid
  <2> QED BY <1>3, <1>4, <2>1, Zenon
<1>8. SessionSnapshotValid(row)
  BY <1>1, <1>4, <1>5, <1>6, <1>7, Zenon DEF SessionSnapshotValid
<1> QED BY <1>2, <1>8, Zenon DEF row

\* An evicted row stays valid.
LEMMA EvictedValid ==
    ASSUME NEW s \in Session, SessionSnapshotValid(s), NEW now \in Nat
    PROVE  SessionSnapshotValid([s EXCEPT !.status = SessionStatusRevoked, !.revokedAt = now,
                                          !.revokeReason = "CONCURRENT_SESSION_LIMIT"])
<1> DEFINE d == [s EXCEPT !.status = SessionStatusRevoked, !.revokedAt = now,
                          !.revokeReason = "CONCURRENT_SESSION_LIMIT"]
<1>1. /\ d.status = SessionStatusRevoked /\ d.revokedAt = now
      /\ d.revokeReason = "CONCURRENT_SESSION_LIMIT" /\ d.aal = s.aal
      /\ d.factorsUsed = s.factorsUsed /\ d.idleTimeout = s.idleTimeout
      /\ d.absoluteExpiresAt = s.absoluteExpiresAt /\ d.createdAt = s.createdAt
      /\ d.lastActivityAt = s.lastActivityAt
  BY Zenon DEF Session
<1> HIDE DEF d
<1>2. now # NoTime
  BY DEF NoTime
<1>3. /\ SessionStatusRevoked \in SessionStatus /\ "CONCURRENT_SESSION_LIMIT" \in ManualReasons
      /\ SessionStatusRevoked # SessionStatusActive /\ SessionStatusRevoked # SessionStatusExpired
  BY DEF SessionStatus, SessionStatusActive, SessionStatusRevoked, SessionStatusExpired,
         ManualReasons
<1>4. SessionSnapshotValid(d)
  BY <1>1, <1>2, <1>3, Zenon DEF SessionSnapshotValid
<1> QED BY <1>4 DEF d

LEMMA StepRowsValid ==
    ASSUME IdleTimeout >= Second
    PROVE  Inv /\ RowsValid /\ [Next]_vars => RowsValid'
<1> SUFFICES ASSUME Inv, RowsValid, [Next]_vars PROVE RowsValid'
  OBVIOUS
<1>1. ASSUME sessions' = sessions PROVE RowsValid'
  BY <1>1, Zenon DEF RowsValid
<1>2. ASSUME NEW r \in Requests,
             Moves(r) \/ Fails(r) \/ Refuses(r) \/ Concludes(r) \/ StoreMFASession(r)
      PROVE  sessions' = sessions
  BY <1>2, Zenon DEF Moves, Fails, Refuses, Concludes, CredentialWrites, StoreMFASession, db
<1>3. ASSUME Tick \/ Elsewhere \/ UNCHANGED vars PROVE sessions' = sessions
  BY <1>3 DEF Tick, Elsewhere, vars, db
<1>4. ASSUME NEW r \in Requests, Opens(r) PROVE RowsValid'
  <2> DEFINE new == SessionRow(NewAuthenticationSession("AAL1", {}, req[r].now).agg)
             Evicted(x) == [sessions[x] EXCEPT !.status = SessionStatusRevoked,
                                               !.revokedAt = req[r].now,
                                               !.revokeReason = "CONCURRENT_SESSION_LIMIT"]
  <2>1. sessions' = [x \in Requests |-> IF x = r THEN new
                                        ELSE IF Holds(r, x) THEN Evicted(x)
                                        ELSE sessions[x]]
    BY <1>4, Zenon DEF Opens, SessionWrites
  <2>2. req[r].stage \in SessionStages
    BY <1>4 DEF Opens, SessionStages
  <2>3. /\ SessionPolicyValid /\ req[r] \in Request
        /\ \A x \in req[r].evicted : sessions[x] # NilSession
    BY <2>2, Zenon DEF Inv, Proper
  <2>4. req[r].now \in Nat
    BY <2>3, Zenon DEF Request
  <2>5. SessionSnapshotValid(new)
    BY <2>3, <2>4, NewRowValid, Zenon
  <2>6. ASSUME NEW x \in Requests, Holds(r, x) PROVE SessionSnapshotValid(Evicted(x))
    <3>1. sessions[x] # NilSession
      BY <2>3, <2>6 DEF Holds
    <3>2. sessions[x] \in Session /\ SessionSnapshotValid(sessions[x])
      BY <3>1, Zenon DEF Inv, RowsValid
    <3> QED BY <2>4, <3>2, EvictedValid, Zenon
  <2> HIDE DEF new, Evicted
  <2>7. ASSUME NEW x \in Requests
        PROVE  \/ sessions'[x] = new \/ sessions'[x] = sessions[x]
               \/ Holds(r, x) /\ sessions'[x] = Evicted(x)
    BY <2>1
  <2> QED BY <2>5, <2>6, <2>7, Zenon DEF RowsValid
<1> QED BY <1>1, <1>2, <1>3, <1>4, StepKinds, Zenon

\* Valid rows are what RehydrateSession accepts.
LEMMA ReadableRows == Inv /\ RowsValid => SessionRowsReadable
<1> SUFFICES ASSUME Inv, RowsValid, NEW x \in ActiveRows \ Unaddressed
             PROVE  Readable(x)
  BY Zenon DEF SessionRowsReadable
<1>1. x \in Requests /\ sessions[x] # NilSession
  BY DEF ActiveRows, NilSession, SessionStatusActive
<1>2. SessionSnapshotValid(sessions[x])
  BY <1>1, Zenon DEF RowsValid
<1>3. RehydrateSession(sessions[x]).err = ""
  BY <1>2 DEF RehydrateSession, Ok
<1> QED BY <1>3, Zenon DEF Readable

-----------------------------------------------------------------------------
(* What a step does to the credential, the session rows and the outbox.    *)

Quietly == UNCHANGED <<credRow, sessions, outbox>>

\* The request ends with nothing written.
Drops(r) == Quietly /\ \E response \in Answers : Respond(r, response)

\* It goes on to a stage that needs nothing from the tables.
Advances(r) ==
    /\ Quietly
    /\ \E st \in {"resolve", "load", "txForced", "txMFA", "txPolicy", "txOldest"} :
          /\ Goto(r, st)
          /\ st \in CredentialStages => req[r].stage \in CredentialStages
          /\ st = "txOldest" => ConcurrentPolicy = "LIMIT_N"
    /\ req[r].stage \notin {"txEvict", "txWrite"}

\* It reads the credential and verifies the password.
Loads(r) ==
    LET checked == EnsureVerifiable(credRow, req[r].now)
        failed  == RecordFailedAttempt(checked.agg, req[r].now)
        passed  == RecordSuccessfulVerification(checked.agg, req[r].now)
    IN  /\ Quietly
        /\ req[r].stage = "load" /\ checked.err = ""
        /\ \/ req' = [req EXCEPT ![r].stage = "txFail", ![r].cred = failed.agg]
           \/ req' = [req EXCEPT ![r].stage = "decide", ![r].cred = passed.agg]

\* It chooses the rows to revoke.
Selects(r) ==
    /\ Quietly
    /\ req[r].stage \in {"txPolicy", "txOldest"}
    /\ \/ /\ ConcurrentPolicy = "SINGLE" /\ req[r].stage = "txPolicy"
          /\ \E q \in ByCreation({x \in ActiveRows : Evictable(x, req[r].now)}) : EvictAll(r, q)
       \/ /\ ConcurrentPolicy # "SINGLE" /\ req[r].stage = "txPolicy"
          /\ ConcurrentPolicy = "LIMIT_N" => Cardinality(ActiveRows) < ConcurrentMax
          /\ Goto(r, "txWrite")
       \/ req[r].stage = "txOldest" /\ ActiveRows = {} /\ EvictAll(r, << >>)
       \/ /\ req[r].stage = "txOldest" /\ ActiveRows # {}
          /\ \E q \in ByCreation(ActiveRows) :
                EvictAll(r, IF Evictable(q[1], req[r].now) THEN <<q[1]>> ELSE << >>)

\* The rows a policy query selects have a number.
LEMMA ActiveCounted ==
    ASSUME Inv
    PROVE  Counted /\ ActiveRows \subseteq Requests /\ Cardinality(ActiveRows) \in Nat
<1>1. Counted
  BY Zenon DEF Inv
<1>2. ActiveRows \subseteq Requests
  BY DEF ActiveRows
<1> QED BY <1>1, <1>2 DEF Counted

\* Every step of a running request is of one of these kinds.
LEMMA FineSteps ==
    ASSUME Inv, NEW r \in Requests, Step(r) \/ CutOff(r)
    PROVE  /\ req[r].stage \notin {"idle", "done"}
           /\ \/ Drops(r) \/ Advances(r) \/ Loads(r) \/ Selects(r) \/ EvictNext(r)
              \/ Concludes(r) \/ Opens(r)
<1> DEFINE Fine == \/ Drops(r) \/ Advances(r) \/ Loads(r) \/ Selects(r) \/ EvictNext(r)
                   \/ Concludes(r) \/ Opens(r)
<1>1. ASSUME Fails(r) \/ Refuses(r) \/ StoreMFASession(r)
      PROVE  req[r].stage \notin {"idle", "done"} /\ Fine
  <2>1. Quietly
    BY <1>1, Zenon DEF Fails, Refuses, StoreMFASession, db, Quietly
  <2>2. req[r].stage \notin {"idle", "done"}
    BY <1>1, Zenon DEF Fails, Refuses, StoreMFASession
  <2>3. \E response \in Answers : Respond(r, response)
    BY <1>1, Zenon DEF Fails, Refuses, InvalidCredentials, StoreMFASession, Answers, Responses
  <2> QED BY <2>1, <2>2, <2>3, Zenon DEF Drops
<1>2. ASSUME Concludes(r) \/ Opens(r)
      PROVE  req[r].stage \notin {"idle", "done"} /\ Fine
  BY <1>2, Zenon DEF Concludes, Opens
<1>3. ASSUME NEW st \in {"resolve", "load", "txForced", "txMFA", "txPolicy", "txOldest"},
             Goto(r, st), req[r].stage \notin {"idle", "done", "txEvict", "txWrite"},
             st \in CredentialStages => req[r].stage \in CredentialStages,
             st = "txOldest" => ConcurrentPolicy = "LIMIT_N",
             UNCHANGED <<clock, db, attempts, mfaStore>>
      PROVE  req[r].stage \notin {"idle", "done"} /\ Fine
  <2>1. Quietly
    BY <1>3, Zenon DEF db, Quietly
  <2> QED BY <1>3, <2>1, Zenon DEF Advances
<1>4. CASE CheckRateLimit(r) \/ ResolveIdentity(r)
  <2>1. CASE Goto(r, "resolve") /\ CheckRateLimit(r)
    <3>1. UNCHANGED <<clock, db, attempts, mfaStore>> \/ Fails(r) \/ Refuses(r)
      BY <2>1, ZenonT(30) DEF CheckRateLimit, Fails, Refuses
    <3>2. req[r].stage = "rateLimit"
      BY <2>1, ZenonT(30) DEF CheckRateLimit
    <3> QED BY <1>1, <1>3, <2>1, <3>1, <3>2, Zenon DEF CredentialStages, SessionStages
  <2>2. CASE Goto(r, "load") /\ ResolveIdentity(r)
    <3>1. UNCHANGED <<clock, db, attempts, mfaStore>> \/ Fails(r) \/ Refuses(r)
      BY <2>2, Zenon DEF ResolveIdentity, Fails, Refuses
    <3>2. req[r].stage = "resolve"
      BY <2>2 DEF ResolveIdentity
    <3> QED BY <1>1, <1>3, <2>2, <3>1, <3>2, Zenon DEF CredentialStages, SessionStages
  <2>3. CASE ~(Goto(r, "resolve") /\ CheckRateLimit(r)) /\ ~(Goto(r, "load") /\ ResolveIdentity(r))
    BY <1>1, <1>4, <2>3, Zenon DEF CheckRateLimit, ResolveIdentity, Fails, Refuses
  <2> QED BY <2>1, <2>2, <2>3, Zenon
<1>5. CASE LoadAndVerify(r)
  <2> DEFINE loaded  == RehydrateCredential(credRow)
             checked == EnsureVerifiable(loaded.agg, req[r].now)
             failed  == RecordFailedAttempt(checked.agg, req[r].now)
             passed  == RecordSuccessfulVerification(checked.agg, req[r].now)
  <2>1. loaded.agg = credRow
    BY DEF RehydrateCredential, Ok, Fail
  <2>2. /\ req[r].stage = "load" /\ UNCHANGED <<clock, db, mfaStore>>
        /\ \/ Respond(r, "ErrSystemDatabase") /\ UNCHANGED attempts
           \/ Respond(r, "ErrLoginAccountLocked") /\ RecordAttemptBestEffort(r, "LOCKED")
           \/ /\ checked.err = ""
              /\ \/ req' = [req EXCEPT ![r].stage = "txFail", ![r].cred = failed.agg]
                 \/ req' = [req EXCEPT ![r].stage = "decide", ![r].cred = passed.agg]
    BY <1>5, Zenon DEF LoadAndVerify
  <2>3. Quietly
    BY <2>2, Zenon DEF db, Quietly
  <2> HIDE DEF loaded
  <2>4. CASE Respond(r, "ErrSystemDatabase") /\ UNCHANGED attempts
    BY <1>1, <2>2, <2>4, Zenon DEF Fails
  <2>5. CASE Respond(r, "ErrLoginAccountLocked") /\ RecordAttemptBestEffort(r, "LOCKED")
    BY <1>1, <2>2, <2>5, Zenon DEF Refuses
  <2>6. CASE /\ checked.err = ""
             /\ \/ req' = [req EXCEPT ![r].stage = "txFail", ![r].cred = failed.agg]
                \/ req' = [req EXCEPT ![r].stage = "decide", ![r].cred = passed.agg]
    <3>1. Loads(r)
      BY <2>1, <2>2, <2>3, <2>6, Zenon DEF Loads
    <3> QED BY <2>2, <3>1, Zenon
  <2> QED BY <2>2, <2>4, <2>5, <2>6, Zenon
<1>6. CASE Decide(r)
  <2>1. /\ req[r].stage = "decide" /\ UNCHANGED <<clock, db, attempts, mfaStore>>
        /\ \/ \E st \in {"txForced", "txMFA", "txPolicy"} : Goto(r, st)
           \/ Respond(r, "ErrSystemDatabase") \/ Respond(r, "ErrSystemInternal")
    BY <1>6, Zenon DEF Decide
  <2>2. CASE \E st \in {"txForced", "txMFA", "txPolicy"} : Goto(r, st)
    BY <1>3, <2>1, <2>2, Zenon DEF CredentialStages
  <2>3. CASE Respond(r, "ErrSystemDatabase") \/ Respond(r, "ErrSystemInternal")
    BY <1>1, <2>1, <2>3, Zenon DEF Fails
  <2> QED BY <2>1, <2>2, <2>3, Zenon
<1>7. CASE ApplyPolicy(r)
  <2>1. req[r].stage = "txPolicy" /\ UNCHANGED <<clock, db, attempts, mfaStore>>
    BY <1>7, Zenon DEF ApplyPolicy, TxRollback
  <2>2. Quietly
    BY <2>1, Zenon DEF db, Quietly
  <2>3. CASE /\ ConcurrentPolicy = "SINGLE"
             /\ \E q \in ByCreation({x \in ActiveRows : Evictable(x, req[r].now)}) : EvictAll(r, q)
    <3>1. Selects(r)
      BY <2>1, <2>2, <2>3, Zenon DEF Selects
    <3> QED BY <2>1, <3>1, Zenon
  <2>4. CASE /\ ConcurrentPolicy = "LIMIT_N"
             /\ Goto(r, IF Cardinality(ActiveRows) >= ConcurrentMax THEN "txOldest" ELSE "txWrite")
    <3>1. CASE Cardinality(ActiveRows) >= ConcurrentMax
      BY <1>3, <2>1, <2>4, <3>1, Zenon DEF CredentialStages, SessionStages
    <3>2. CASE ~(Cardinality(ActiveRows) >= ConcurrentMax)
      <4>1. Goto(r, "txWrite")
        BY <2>4, <3>2, Zenon
      <4>2. ConcurrentPolicy # "SINGLE"
        BY <2>4
      <4>3. Cardinality(ActiveRows) < ConcurrentMax
        BY <3>2, ActiveCounted
      <4>4. Selects(r)
        BY <2>1, <2>2, <4>1, <4>2, <4>3, Zenon DEF Selects
      <4> QED BY <2>1, <4>4
    <3> QED BY <3>1, <3>2, Zenon
  <2>5. CASE ConcurrentPolicy \notin {"SINGLE", "LIMIT_N"} /\ Goto(r, "txWrite")
    <3>1. Selects(r)
      BY <2>1, <2>2, <2>5 DEF Selects
    <3> QED BY <2>1, <3>1
  <2>6. CASE TxRollback(r)
    BY <1>1, <2>1, <2>6, Zenon DEF TxRollback, Fails
  <2> QED BY <1>7, <2>3, <2>4, <2>5, <2>6, Zenon DEF ApplyPolicy
<1>8. CASE FindOldest(r)
  <2>1. req[r].stage = "txOldest" /\ UNCHANGED <<clock, db, attempts, mfaStore>>
    BY <1>8, Zenon DEF FindOldest, TxRollback
  <2>2. Quietly
    BY <2>1 DEF db, Quietly
  <2>3. CASE TxRollback(r)
    BY <1>1, <2>1, <2>3, Zenon DEF TxRollback, Fails
  <2>4. CASE ~TxRollback(r)
    <3>1. Selects(r)
      BY <1>8, <2>1, <2>2, <2>4, Zenon DEF FindOldest, Selects
    <3> QED BY <2>1, <3>1
  <2> QED BY <2>3, <2>4, Zenon
<1>9. CASE EvictNext(r)
  BY <1>9 DEF EvictNext
<1>10. CASE \/ TxFail(r) \/ TxForcedChange(r) \/ TxMFARequired(r)
            \/ AbortEviction(r) \/ TxSession(r) \/ CutOff(r)
  BY <1>1, <1>2, <1>10, TxSteps, Zenon
<1>11. CASE StoreMFASession(r)
  BY <1>1, <1>11
<1> QED BY <1>4, <1>5, <1>6, <1>7, <1>8, <1>9, <1>10, <1>11, Zenon DEF Step

-----------------------------------------------------------------------------
(* Running requests.                                                       *)

\* The stages in which the rows to revoke are chosen.
Evicting == {"txEvict", "txWrite"}

\* A request has chosen rows only in those stages, has revoked all of them when
\* it comes to write, and asks for the oldest session under LIMIT_N only.
Plan(m) ==
    /\ m.stage \notin Evicting => m.evict = << >> /\ m.evicted = {}
    /\ m.stage = "txWrite" => m.evict = << >>
    /\ m.stage = "txOldest" => ConcurrentPolicy = "LIMIT_N"

Planned == \A r \in Requests : Plan(req[r])

\* What a step leaves of the request's local state.
LEMMA LocalState ==
    ASSUME Inv, NEW r \in Requests
    PROVE  /\ req[r] \in Request /\ req[r].now \in Nat
           /\ \A response : Respond(r, response) =>
                 /\ req'[r].stage = "done" /\ req'[r].evict = << >> /\ req'[r].evicted = {}
                 /\ \A o \in Requests \ {r} : req'[o] = req[o]
           /\ \A st : Goto(r, st) =>
                 /\ req'[r].stage = st /\ req'[r].now = req[r].now /\ req'[r].cred = req[r].cred
                 /\ req'[r].evict = req[r].evict /\ req'[r].evicted = req[r].evicted
                 /\ \A o \in Requests \ {r} : req'[o] = req[o]
           /\ \A rows : EvictAll(r, rows) =>
                 /\ req'[r].stage = (IF rows = << >> THEN "txWrite" ELSE "txEvict")
                 /\ req'[r].now = req[r].now /\ req'[r].cred = req[r].cred
                 /\ req'[r].evict = rows /\ req'[r].evicted = req[r].evicted
                 /\ \A o \in Requests \ {r} : req'[o] = req[o]
<1>1. req \in [Requests -> Request] /\ req[r] \in Request
  BY Zenon DEF Inv
<1>2. req[r].now \in Nat
  BY <1>1, Zenon DEF Request
<1>3. ASSUME NEW response, Respond(r, response)
      PROVE  /\ req'[r].stage = "done" /\ req'[r].evict = << >> /\ req'[r].evicted = {}
             /\ \A o \in Requests \ {r} : req'[o] = req[o]
  BY <1>1, <1>3 DEF Respond, Idle
<1>4. ASSUME NEW st, Goto(r, st)
      PROVE  /\ req'[r].stage = st /\ req'[r].now = req[r].now /\ req'[r].cred = req[r].cred
             /\ req'[r].evict = req[r].evict /\ req'[r].evicted = req[r].evicted
             /\ \A o \in Requests \ {r} : req'[o] = req[o]
  BY <1>1, <1>4, Zenon DEF Goto, Request
<1>5. ASSUME NEW rows, EvictAll(r, rows)
      PROVE  /\ req'[r].stage = (IF rows = << >> THEN "txWrite" ELSE "txEvict")
             /\ req'[r].now = req[r].now /\ req'[r].cred = req[r].cred
             /\ req'[r].evict = rows /\ req'[r].evicted = req[r].evicted
             /\ \A o \in Requests \ {r} : req'[o] = req[o]
  BY <1>1, <1>5, Zenon DEF EvictAll, Request
<1> QED BY <1>1, <1>2, <1>3, <1>4, <1>5, Zenon

\* A request that loads the credential keeps its time and has no rows chosen.
LEMMA LoadState ==
    ASSUME Inv, NEW r \in Requests, Loads(r)
    PROVE  /\ req'[r].stage \in {"txFail", "decide"} /\ req'[r].now = req[r].now
           /\ req'[r].evict = req[r].evict /\ req'[r].evicted = req[r].evicted
           /\ \A o \in Requests \ {r} : req'[o] = req[o]
<1>1. req \in [Requests -> Request] /\ req[r] \in Request
  BY Zenon DEF Inv
<1>2. PICK st \in {"txFail", "decide"} :
         \E c : req' = [req EXCEPT ![r].stage = st, ![r].cred = c]
  BY Zenon DEF Loads
<1>3. PICK c : req' = [req EXCEPT ![r].stage = st, ![r].cred = c]
  BY <1>2, Zenon
<1> QED BY <1>1, <1>2, <1>3, Zenon DEF Request

\* A request that starts reads the clock.
LEMMA StartState ==
    ASSUME Inv, NEW r \in Requests, Start(r)
    PROVE  /\ req'[r].stage = "rateLimit" /\ req'[r].now = clock
           /\ req'[r].evict = req[r].evict /\ req'[r].evicted = req[r].evicted
           /\ \A o \in Requests \ {r} : req'[o] = req[o]
           /\ req[r].stage = "idle" /\ Quietly /\ clock' = clock
<1>1. req \in [Requests -> Request] /\ req[r] \in Request
  BY Zenon DEF Inv
<1>2. PICK c \in BOOLEAN :
         req' = [req EXCEPT ![r].stage = "rateLimit", ![r].now = clock, ![r].correct = c]
  BY Zenon DEF Start
<1>3. req[r].stage = "idle" /\ Quietly /\ clock' = clock
  BY DEF Start, Quietly, db
<1> QED BY <1>1, <1>2, <1>3, Zenon DEF Request

\* An eviction moves the first of the rows to those that are held.
LEMMA EvictState ==
    ASSUME Inv, NEW r \in Requests, EvictNext(r)
    PROVE  /\ req[r].stage = "txEvict" /\ req[r].evict \in Seq(Requests) /\ req[r].evict # << >>
           /\ req'[r].stage = (IF Len(req[r].evict) = 1 THEN "txWrite" ELSE "txEvict")
           /\ req'[r].now = req[r].now /\ req'[r].cred = req[r].cred
           /\ req'[r].evict = Tail(req[r].evict)
           /\ req'[r].evicted = req[r].evicted \cup {Head(req[r].evict)}
           /\ \A o \in Requests \ {r} : req'[o] = req[o]
           /\ Quietly /\ clock' = clock
<1>1. req \in [Requests -> Request] /\ req[r] \in Request /\ Proper(req[r], clock, sessions)
  BY Zenon DEF Inv
<1>2. req[r].stage = "txEvict" /\ Quietly /\ clock' = clock
  BY DEF EvictNext, Quietly, db
<1>3. req[r].evict \in Seq(Requests) /\ req[r].evict # << >>
  BY <1>1, <1>2, Zenon DEF Request, Proper
<1>4. req' = [req EXCEPT ![r].evicted = @ \cup {Head(req[r].evict)},
                         ![r].evict = Tail(@),
                         ![r].stage = IF Len(req[r].evict) = 1 THEN "txWrite" ELSE "txEvict"]
  BY DEF EvictNext
<1> QED BY <1>1, <1>2, <1>3, <1>4, Zenon DEF Request

\* No step of a request moves the clock.
LEMMA ClockStays ==
    ASSUME NEW r \in Requests, Step(r) \/ CutOff(r)
    PROVE  clock' = clock
BY Zenon DEF Step, CutOff, CheckRateLimit, ResolveIdentity, LoadAndVerify, Decide, TxFail,
       TxForcedChange, TxMFARequired, StoreMFASession, ApplyPolicy, FindOldest, EvictNext,
       AbortEviction, TxSession

\* The rest of the system leaves requests, credential, sessions and outbox alone.
LEMMA Bystanders ==
    ASSUME Inv, Tick \/ Elsewhere \/ Finished \/ UNCHANGED vars
    PROVE  Quietly /\ req' = req /\ clock' \in Nat /\ clock <= clock'
<1>1. clock \in Nat
  BY Zenon DEF Inv
<1>2. Quietly /\ req' = req /\ (clock' = clock \/ clock' = clock + 1)
  BY Zenon DEF Tick, Elsewhere, Finished, vars, Quietly, db
<1> QED BY <1>1, <1>2

\* How a committed transaction leaves the request.
LEMMA CommitState ==
    ASSUME Inv, NEW r \in Requests, Concludes(r) \/ Opens(r)
    PROVE  /\ req'[r].stage \in {"done", "mfaStore"}
           /\ \/ req'[r].evict = << >> /\ req'[r].evicted = {}
              \/ /\ req[r].stage = "txMFA"
                 /\ req'[r].evict = req[r].evict /\ req'[r].evicted = req[r].evicted
           /\ req'[r].stage = "mfaStore" => req'[r].now = req[r].now
           /\ \A o \in Requests \ {r} : req'[o] = req[o]
<1>1. CASE \E response : Respond(r, response)
  BY <1>1, LocalState, Zenon
<1>2. CASE Goto(r, "mfaStore") /\ req[r].stage = "txMFA"
  BY <1>2, LocalState, Zenon
<1> QED BY <1>1, <1>2, Zenon DEF Concludes, Opens

LEMMA InitPlanned == Init => Planned
<1> SUFFICES ASSUME Init, NEW r \in Requests PROVE Plan(req[r])
  BY Zenon DEF Planned
<1>1. req[r] = Idle
  BY Zenon DEF Init
<1>2. Idle.stage = "idle" /\ Idle.evict = << >> /\ Idle.evicted = {}
  BY DEF Idle
<1>3. "idle" \notin Evicting /\ "idle" # "txWrite" /\ "idle" # "txOldest"
  BY DEF Evicting
<1> QED BY <1>1, <1>2, <1>3, Zenon DEF Plan

\* A sequence of length zero is the empty one.
LEMMA EmptyOnly ==
    ASSUME NEW S, NEW q \in Seq(S), Len(q) = 0
    PROVE  q = << >>
OBVIOUS

\* Nothing is left of a sequence of one after its head.
LEMMA LastOne ==
    ASSUME NEW S, NEW q \in Seq(S), Len(q) = 1
    PROVE  Tail(q) = << >>
<1>1. q # << >>
  OBVIOUS
<1>2. Tail(q) \in Seq(S) /\ Len(Tail(q)) = 0
  BY <1>1
<1> QED BY <1>2, EmptyOnly, Zenon

LEMMA StepPlanned == Inv /\ Planned /\ [Next]_vars => Planned'
<1> SUFFICES ASSUME Inv, Planned, [Next]_vars PROVE Planned'
  OBVIOUS
<1>1. ASSUME NEW r \in Requests, \A o \in Requests \ {r} : req'[o] = req[o], Plan(req'[r])
      PROVE  Planned'
  BY <1>1 DEF Planned, Plan
<1>2. ASSUME NEW m, m.stage \notin {"txEvict", "txWrite", "txOldest"}, m.evict = << >>, m.evicted = {}
      PROVE  Plan(m)
  BY <1>2 DEF Plan, Evicting
<1>3. ASSUME NEW r \in Requests, Start(r) PROVE Planned'
  <2>1. Plan(req[r])
    BY DEF Planned
  <2>2. /\ req'[r].stage = "rateLimit" /\ req'[r].evict = req[r].evict
        /\ req'[r].evicted = req[r].evicted /\ req[r].stage = "idle"
        /\ \A o \in Requests \ {r} : req'[o] = req[o]
    BY <1>3, StartState
  <2>3. req[r].evict = << >> /\ req[r].evicted = {}
    BY <2>1, <2>2 DEF Plan, Evicting
  <2>4. req'[r].stage \notin {"txEvict", "txWrite", "txOldest"}
    BY <2>2
  <2> QED BY <1>1, <1>2, <2>2, <2>3, <2>4
<1>4. ASSUME NEW r \in Requests, Step(r) \/ CutOff(r) PROVE Planned'
  <2>1. Plan(req[r])
    BY DEF Planned
  <2>2. req[r].stage \notin Evicting => req[r].evict = << >> /\ req[r].evicted = {}
    BY <2>1 DEF Plan
  <2>3. CASE Drops(r)
    <3>1. PICK response \in Answers : Respond(r, response)
      BY <2>3 DEF Drops
    <3>2. /\ req'[r].stage = "done" /\ req'[r].evict = << >> /\ req'[r].evicted = {}
          /\ \A o \in Requests \ {r} : req'[o] = req[o]
      BY <3>1, LocalState, Zenon
    <3>3. req'[r].stage \notin {"txEvict", "txWrite", "txOldest"}
      BY <3>2
    <3> QED BY <1>1, <1>2, <3>2, <3>3
  <2>4. CASE Advances(r)
    <3>1. PICK st \in {"resolve", "load", "txForced", "txMFA", "txPolicy", "txOldest"} :
             Goto(r, st) /\ (st = "txOldest" => ConcurrentPolicy = "LIMIT_N")
      BY <2>4 DEF Advances
    <3>2. req[r].evict = << >> /\ req[r].evicted = {}
      BY <2>2, <2>4 DEF Advances, Evicting
    <3>3. /\ req'[r].stage = st /\ req'[r].evict = << >> /\ req'[r].evicted = {}
          /\ \A o \in Requests \ {r} : req'[o] = req[o]
      BY <3>1, <3>2, LocalState, Zenon
    <3>4. Plan(req'[r])
      BY <3>1, <3>3 DEF Plan, Evicting
    <3> QED BY <1>1, <3>3, <3>4
  <2>5. CASE Loads(r)
    <3>1. req[r].stage = "load"
      BY <2>5, Zenon DEF Loads
    <3>2. req[r].evict = << >> /\ req[r].evicted = {}
      BY <2>2, <3>1 DEF Evicting
    <3>3. /\ req'[r].stage \in {"txFail", "decide"}
          /\ req'[r].evict = << >> /\ req'[r].evicted = {}
          /\ \A o \in Requests \ {r} : req'[o] = req[o]
      BY <2>5, <3>2, LoadState
    <3>4. req'[r].stage \notin {"txEvict", "txWrite", "txOldest"}
      BY <3>3
    <3> QED BY <1>1, <1>2, <3>3, <3>4
  <2>6. CASE Selects(r)
    <3>1. req[r].evict = << >> /\ req[r].evicted = {}
      BY <2>2, <2>6 DEF Selects, Evicting
    <3>2. CASE Goto(r, "txWrite")
      <4>1. /\ req'[r].stage = "txWrite" /\ req'[r].evict = << >>
            /\ \A o \in Requests \ {r} : req'[o] = req[o]
        BY <3>1, <3>2, LocalState
      <4>2. Plan(req'[r])
        BY <4>1 DEF Plan, Evicting
      <4> QED BY <1>1, <4>1, <4>2
    <3>3. CASE \E rows : EvictAll(r, rows)
      <4>1. PICK rows : EvictAll(r, rows)
        BY <3>3
      <4>2. /\ req'[r].stage = (IF rows = << >> THEN "txWrite" ELSE "txEvict")
            /\ req'[r].evict = rows
            /\ \A o \in Requests \ {r} : req'[o] = req[o]
        BY <4>1, LocalState, Zenon
      <4>3. Plan(req'[r])
        BY <4>2 DEF Plan, Evicting
      <4> QED BY <1>1, <4>2, <4>3
    <3> QED BY <2>6, <3>2, <3>3, Zenon DEF Selects
  <2>7. CASE EvictNext(r)
    <3>1. /\ req[r].evict \in Seq(Requests) /\ req[r].evict # << >>
          /\ req'[r].stage = (IF Len(req[r].evict) = 1 THEN "txWrite" ELSE "txEvict")
          /\ req'[r].evict = Tail(req[r].evict)
          /\ \A o \in Requests \ {r} : req'[o] = req[o]
      BY <2>7, EvictState
    <3>2. Len(req[r].evict) = 1 => Tail(req[r].evict) = << >>
      BY <3>1, LastOne
    <3>3. Plan(req'[r])
      BY <3>1, <3>2 DEF Plan, Evicting
    <3> QED BY <1>1, <3>1, <3>3
  <2>8. CASE Concludes(r) \/ Opens(r)
    <3>1. req[r].stage = "txMFA" => req[r].evict = << >> /\ req[r].evicted = {}
      BY <2>2 DEF Evicting
    <3>2. /\ req'[r].stage \in {"done", "mfaStore"}
          /\ req'[r].evict = << >> /\ req'[r].evicted = {}
          /\ \A o \in Requests \ {r} : req'[o] = req[o]
      BY <2>8, <3>1, CommitState
    <3>3. req'[r].stage \notin {"txEvict", "txWrite", "txOldest"}
      BY <3>2
    <3> QED BY <1>1, <1>2, <3>2, <3>3
  <2> QED BY <1>4, <2>3, <2>4, <2>5, <2>6, <2>7, <2>8, FineSteps
<1>5. ASSUME Tick \/ Elsewhere \/ Finished \/ UNCHANGED vars PROVE Planned'
  BY <1>5, Bystanders DEF Planned, Plan
<1> QED BY <1>3, <1>4, <1>5 DEF Next

\* Only Start adds to the running requests, and no step touches another one.
LEMMA OwnStep ==
    ASSUME Inv, NEW r \in Requests, Step(r) \/ CutOff(r)
    PROVE  /\ r \in InFlight /\ InFlight' \subseteq InFlight
           /\ \A o \in Requests \ {r} : req'[o] = req[o]
<1>1. r \in InFlight
  BY FineSteps DEF InFlight
<1>2. \A o \in Requests \ {r} : req'[o] = req[o]
  <2>1. ASSUME Drops(r) PROVE \A o \in Requests \ {r} : req'[o] = req[o]
    BY <2>1, LocalState, Zenon DEF Drops
  <2>2. ASSUME Advances(r) PROVE \A o \in Requests \ {r} : req'[o] = req[o]
    BY <2>2, LocalState DEF Advances
  <2>3. ASSUME Selects(r) PROVE \A o \in Requests \ {r} : req'[o] = req[o]
    <3>1. Goto(r, "txWrite") \/ \E rows : EvictAll(r, rows)
      BY <2>3, Zenon DEF Selects
    <3> QED BY <3>1, LocalState
  <2> QED BY <2>1, <2>2, <2>3, FineSteps, LoadState, EvictState, CommitState, Zenon
<1> QED BY <1>1, <1>2 DEF InFlight

\* One login at a time.
Alone == \A r, o \in InFlight : r = o

\* With room for one request only, none overlaps another.
LEMMA StepAlone ==
    ASSUME MaxInFlight <= 1
    PROVE  /\ Init => Alone
           /\ Inv /\ Alone /\ [Next]_vars => Alone'
<1>1. Init => Alone
  <2>1. Idle.stage = "idle"
    BY DEF Idle
  <2>2. Init => InFlight = {}
    BY <2>1, Zenon DEF Init, InFlight
  <2> QED BY <2>2 DEF Alone
<1>2. ASSUME Inv, Alone, [Next]_vars PROVE Alone'
  <2>1. ASSUME NEW r \in Requests, Start(r) PROVE Alone'
    <3>1. Cardinality(InFlight) < MaxInFlight
      BY <2>1 DEF Start
    <3>2. InFlight \in SUBSET Requests
      BY DEF InFlight
    <3>3. Counted
      BY <1>2, Zenon DEF Inv
    <3>4. InFlight = {}
      BY <3>1, <3>2, <3>3 DEF Counted
    <3>5. \A o \in Requests \ {r} : req'[o] = req[o]
      BY <1>2, <2>1, StartState
    <3> QED BY <3>4, <3>5 DEF Alone, InFlight
  <2>2. ASSUME NEW r \in Requests, Step(r) \/ CutOff(r) PROVE Alone'
    BY <1>2, <2>2, OwnStep DEF Alone
  <2>3. ASSUME Tick \/ Elsewhere \/ Finished \/ UNCHANGED vars PROVE Alone'
    BY <1>2, <2>3, Bystanders DEF Alone, InFlight
  <2> QED BY <1>2, <2>1, <2>2, <2>3 DEF Next
<1> QED BY <1>1, <1>2

\* No step but a commit writes the credential or the outbox.
LEMMA NoCommit ==
    ASSUME Inv, NEW r \in Requests, Step(r) \/ CutOff(r), ~Concludes(r), ~Opens(r)
    PROVE  Quietly
BY FineSteps, EvictState, Zenon DEF Drops, Advances, Loads, Selects

\* The other requests hold no credential while one takes a step.
LEMMA OthersOut ==
    ASSUME Inv, Alone, NEW r \in Requests, Step(r) \/ CutOff(r), NEW o \in Requests \ {r}
    PROVE  req'[o] = req[o] /\ req[o].stage \in {"idle", "done"}
<1>1. r \in InFlight /\ req'[o] = req[o]
  BY OwnStep
<1>2. o \notin InFlight
  BY <1>1 DEF Alone
<1> QED BY <1>1, <1>2 DEF InFlight

-----------------------------------------------------------------------------
(* The rows a login has chosen to evict.                                   *)

\* The rows a request has revoked and those it is about to.
Chosen(m) == m.evicted \cup {m.evict[i] : i \in 1..Len(m.evict)}

LEMMA ChosenNone ==
    ASSUME NEW m, m.evict = << >>, m.evicted = {}
    PROVE  Chosen(m) = {}
<1>1. \A i \in 1..Len(<< >>) : FALSE
  OBVIOUS
<1> QED BY <1>1, Zenon DEF Chosen

\* Revoking the next row chooses no other.
LEMMA ChosenNext ==
    ASSUME NEW S, NEW m, NEW d, m.evict \in Seq(S), m.evict # << >>,
           d.evict = Tail(m.evict), d.evicted = m.evicted \cup {Head(m.evict)}
    PROVE  Chosen(d) = Chosen(m)
<1> DEFINE q == m.evict
<1>1. /\ Len(q) \in Nat /\ Len(q) >= 1 /\ Head(q) = q[1]
      /\ Len(Tail(q)) = Len(q) - 1 /\ \A i \in 1..Len(Tail(q)) : Tail(q)[i] = q[i + 1]
  OBVIOUS
<1> HIDE DEF q
<1>2. \A i \in 1..Len(Tail(q)) : i + 1 \in 1..Len(q)
  BY <1>1
<1>3. \A i \in 1..Len(q) : i = 1 \/ (i - 1 \in 1..Len(Tail(q)) /\ Tail(q)[i - 1] = q[i])
  BY <1>1
<1>4. 1 \in 1..Len(q)
  BY <1>1
<1>5. {q[i] : i \in 1..Len(q)} = {q[1]} \cup {Tail(q)[i] : i \in 1..Len(Tail(q))}
  <2>1. ASSUME NEW i \in 1..Len(q)
        PROVE  q[i] \in {q[1]} \cup {Tail(q)[j] : j \in 1..Len(Tail(q))}
    <3>1. CASE i = 1
      BY <3>1
    <3>2. CASE i - 1 \in 1..Len(Tail(q)) /\ Tail(q)[i - 1] = q[i]
      BY <3>2, Zenon
    <3> QED BY <1>3, <3>1, <3>2
  <2>2. \A x \in {Tail(q)[i] : i \in 1..Len(Tail(q))} : x \in {q[i] : i \in 1..Len(q)}
    BY <1>1, <1>2
  <2>3. q[1] \in {q[i] : i \in 1..Len(q)}
    BY <1>4
  <2> QED BY <2>1, <2>2, <2>3, Zenon
<1>6. Chosen(d) = (m.evicted \cup {q[1]}) \cup {Tail(q)[i] : i \in 1..Len(Tail(q))}
  BY <1>1, Zenon DEF Chosen, q
<1>7. Chosen(m) = m.evicted \cup {q[i] : i \in 1..Len(q)}
  BY DEF Chosen, q
<1> HIDE DEF Chosen
<1> QED BY <1>5, <1>6, <1>7, Zenon

\* A query returns every row of S.
LEMMA AllRows ==
    ASSUME Counted, NEW S \in SUBSET Requests, NEW q \in ByCreation(S)
    PROVE  \A x \in S : \E i \in 1..Cardinality(S) : q[i] = x
<1> DEFINE n == Cardinality(S)
<1>1. n \in Nat
  BY DEF Counted
<1> HIDE DEF n
<1>2. q \in [1..n -> S] /\ \A i, j \in 1..n : i < j => q[i] # q[j]
  BY DEF ByCreation, n
<1>3. \A i, j \in 1..n : q[i] = q[j] => i = j
  <2> SUFFICES ASSUME NEW i \in 1..n, NEW j \in 1..n, q[i] = q[j], i # j PROVE FALSE
    OBVIOUS
  <2>1. i < j \/ j < i
    BY <1>1
  <2> QED BY <1>2, <2>1
<1> QED BY <1>2, <1>3 DEF Counted, n

\* The first one is as old as any.
LEMMA OldestFirst ==
    ASSUME Counted, NEW S \in SUBSET Requests, S # {}, NEW q \in ByCreation(S),
           \A x \in S : sessions[x].createdAt \in Nat
    PROVE  q[1] \in S /\ \A y \in S : sessions[q[1]].createdAt <= sessions[y].createdAt
<1> DEFINE n == Cardinality(S)
<1>1. n \in Nat /\ n # 0
  BY DEF Counted
<1>2. 1 \in 1..n
  BY <1>1
<1>3. q \in [1..n -> S]
  BY DEF ByCreation
<1>4. \A i \in 1..n : 1 < i => sessions[q[1]].createdAt <= sessions[q[i]].createdAt
  BY <1>2 DEF ByCreation
<1>5. q[1] \in S
  BY <1>2, <1>3
<1>6. ASSUME NEW y \in S PROVE sessions[q[1]].createdAt <= sessions[y].createdAt
  <2>1. PICK i \in 1..n : q[i] = y
    BY AllRows
  <2>2. i = 1 \/ 1 < i
    BY <1>1
  <2>3. sessions[q[1]].createdAt <= sessions[q[1]].createdAt
    BY <1>5
  <2> QED BY <1>4, <2>1, <2>2, <2>3
<1> QED BY <1>5, <1>6

\* A row that a policy query selects is a session, and Revoke takes it unless it
\* has expired.
LEMMA ActiveRow ==
    ASSUME Inv, NEW x \in ActiveRows, NEW now \in Nat
    PROVE  /\ x \in Requests /\ sessions[x] \in Session /\ sessions[x] # NilSession
           /\ sessions[x].status = SessionStatusActive /\ sessions[x].createdAt \in Nat
           /\ Evictable(x, now) <=> IsActive(sessions[x], now)
<1> DEFINE s == sessions[x]
<1>1. x \in Requests /\ s.status = SessionStatusActive /\ s \in Session \cup {NilSession}
  BY Zenon DEF ActiveRows, Inv
<1>2. s # NilSession
  BY <1>1 DEF NilSession, SessionStatusActive
<1>3. s \in Session /\ s.createdAt \in Nat
  BY <1>1, <1>2, Zenon DEF Session
<1> HIDE DEF s
<1>4. "CONCURRENT_SESSION_LIMIT" \in ManualReasons
  BY DEF ManualReasons
<1>5. s.status # SessionStatusRevoked /\ s.status # SessionStatusExpired
  BY <1>1 DEF SessionStatusActive, SessionStatusRevoked, SessionStatusExpired
<1>6. ensureActive(s, now) =
         IF EnforceExpiry(s, now).done THEN Fail("ErrSessionExpired", EnforceExpiry(s, now).agg) ELSE Ok(s)
  BY <1>1, <1>5, Zenon DEF ensureActive
<1>7. CASE ExpiryAt(s, now).expired
  <2>1. EnforceExpiry(s, now).done
    BY <1>1, <1>7 DEF EnforceExpiry
  <2>2. ensureActive(s, now) = Fail("ErrSessionExpired", EnforceExpiry(s, now).agg)
    BY <1>6, <2>1, Zenon
  <2>3. ensureActive(s, now).err # ""
    BY <2>2 DEF Fail
  <2>4. Revoke(s, "CONCURRENT_SESSION_LIMIT", "", now).err # ""
    BY <1>4, <2>3, Zenon DEF Revoke
  <2> QED BY <1>1, <1>2, <1>3, <1>7, <2>4, Zenon DEF Evictable, IsActive, s
<1>8. CASE ~ExpiryAt(s, now).expired
  <2>1. ~EnforceExpiry(s, now).done
    BY <1>8 DEF EnforceExpiry
  <2>2. ensureActive(s, now) = Ok(s)
    BY <1>6, <2>1, Zenon
  <2>3. ensureActive(s, now).err = ""
    BY <2>2, OkFields, Zenon
  <2>4. Revoke(s, "CONCURRENT_SESSION_LIMIT", "", now) =
           Ok(terminate(s, SessionStatusRevoked, "CONCURRENT_SESSION_LIMIT", "", now))
    BY <1>4, <2>3, Zenon DEF Revoke
  <2>5. Revoke(s, "CONCURRENT_SESSION_LIMIT", "", now).err = ""
    BY <2>4, OkFields, Zenon
  <2> QED BY <1>1, <1>2, <1>3, <1>8, <2>5, Zenon DEF Evictable, IsActive, s
<1> QED BY <1>7, <1>8

\* What has expired stays expired.
LEMMA ExpiryStays ==
    ASSUME NEW s \in Session, NEW t \in Nat, NEW u \in Nat, t <= u, IsActive(s, u)
    PROVE  IsActive(s, t)
<1>1. s.absoluteExpiresAt \in Nat /\ IdleExpiresAt(s) \in Nat
  <2>1. s.absoluteExpiresAt \in Nat /\ s.lastActivityAt \in Nat /\ s.idleTimeout \in Nat
    BY Zenon DEF Session
  <2> QED BY <2>1 DEF IdleExpiresAt
<1>2. \A v : ExpiryAt(s, v).expired <=> (v >= s.absoluteExpiresAt \/ v >= IdleExpiresAt(s))
  BY Zenon DEF ExpiryAt
<1>3. ~(u >= s.absoluteExpiresAt) /\ ~(u >= IdleExpiresAt(s))
  BY <1>2, Zenon DEF IsActive
<1>4. ~(t >= s.absoluteExpiresAt) /\ ~(t >= IdleExpiresAt(s))
  BY <1>1, <1>3
<1> QED BY <1>2, <1>4, Zenon DEF IsActive

\* How completeSession's transaction leaves the session table.
LEMMA OpenRows ==
    ASSUME Inv, NEW r \in Requests, Opens(r)
    PROVE  /\ sessions'[r].status = SessionStatusActive /\ sessions'[r].createdAt = req[r].now
           /\ \A x \in Requests \ {r} :
                 /\ x \notin req[r].evicted => sessions'[x] = sessions[x]
                 /\ x \in req[r].evicted =>
                       /\ sessions[x] # NilSession
                       /\ sessions'[x].status = SessionStatusRevoked
                       /\ sessions'[x].createdAt = sessions[x].createdAt
           /\ ActiveRows' = (ActiveRows \ req[r].evicted) \cup {r}
<1> DEFINE session == NewAuthenticationSession("AAL1", {}, req[r].now).agg
           Evicted(x) == [sessions[x] EXCEPT !.status = SessionStatusRevoked,
                                             !.revokedAt = req[r].now,
                                             !.revokeReason = "CONCURRENT_SESSION_LIMIT"]
<1>1. sessions' = [x \in Requests |-> IF x = r THEN SessionRow(session)
                                      ELSE IF Holds(r, x) THEN Evicted(x)
                                      ELSE sessions[x]]
  BY Zenon DEF Opens, SessionWrites
<1>2. /\ req[r] \in Request /\ SessionPolicyValid
      /\ \A x \in req[r].evicted : sessions[x] # NilSession
  <2>1. req[r] \in Request /\ Proper(req[r], clock, sessions) /\ req[r].stage \in SessionStages
    BY Zenon DEF Inv, Opens, SessionStages
  <2> QED BY <2>1, Zenon DEF Proper
<1>3. req[r].now \in Nat
  BY <1>2, Zenon DEF Request
<1>4. SessionRow(session).createdAt = req[r].now /\ SessionRow(session).status = session.status
  <2>1. session \in Session /\ SessionRow(session).createdAt = req[r].now
    BY <1>2, <1>3, NewRow
  <2> HIDE DEF session
  <2> QED BY <2>1, Zenon DEF SessionRow, Snapshot, ClearEvents, Session
<1>5. session.status = SessionStatusActive
  <2>1. AALMatchesFactors("AAL1", {})
    BY DEF AALMatchesFactors
  <2> QED BY <1>2, <2>1, Zenon DEF NewAuthenticationSession, Ok
<1> HIDE DEF session
<1>6. ASSUME NEW x \in Requests \ {r}, x \in req[r].evicted
      PROVE  /\ Evicted(x).status = SessionStatusRevoked
             /\ Evicted(x).createdAt = sessions[x].createdAt
  <2>1. sessions[x] \in Session
    BY <1>2, <1>6, Zenon DEF Inv
  <2> QED BY <2>1, Zenon DEF Session
<1> HIDE DEF Evicted
<1>7. sessions'[r].status = SessionStatusActive /\ sessions'[r].createdAt = req[r].now
  BY <1>1, <1>4, <1>5, Zenon
<1>8. ASSUME NEW x \in Requests \ {r}
      PROVE  /\ x \notin req[r].evicted => sessions'[x] = sessions[x]
             /\ x \in req[r].evicted =>
                   /\ sessions[x] # NilSession
                   /\ sessions'[x].status = SessionStatusRevoked
                   /\ sessions'[x].createdAt = sessions[x].createdAt
  BY <1>1, <1>2, <1>6 DEF Holds
<1>9. ActiveRows' = (ActiveRows \ req[r].evicted) \cup {r}
  BY <1>7, <1>8 DEF ActiveRows, SessionStatusActive, SessionStatusRevoked
<1> QED BY <1>7, <1>8, <1>9

\* A request keeps the time it read when it started.
LEMMA NowStays ==
    ASSUME Inv, NEW r \in Requests, Step(r) \/ CutOff(r), req'[r].stage # "done"
    PROVE  req'[r].now = req[r].now
<1>1. ASSUME Drops(r) PROVE FALSE
  BY <1>1, LocalState, SMTT(20) DEF Drops
<1>2. ASSUME Advances(r) PROVE req'[r].now = req[r].now
  BY <1>2, LocalState DEF Advances
<1>3. ASSUME Selects(r) PROVE req'[r].now = req[r].now
  <2>1. Goto(r, "txWrite") \/ \E rows : EvictAll(r, rows)
    BY <1>3, Zenon DEF Selects
  <2> QED BY <2>1, LocalState
<1>4. ASSUME Concludes(r) \/ Opens(r) PROVE req'[r].now = req[r].now
  BY <1>4, CommitState
<1> QED BY <1>1, <1>2, <1>3, <1>4, FineSteps, LoadState, EvictState, Zenon

\* Rows are chosen by Selects; from then on they stay the same.
LEMMA EvictingStep ==
    ASSUME Inv, NEW r \in Requests, Step(r) \/ CutOff(r), req'[r].stage \in Evicting
    PROVE  /\ ~Concludes(r) /\ ~Opens(r) /\ req'[r].now = req[r].now
           /\ Selects(r) \/ (req[r].stage \in Evicting /\ Chosen(req'[r]) = Chosen(req[r]))
<1>1. req'[r].stage \in {"txEvict", "txWrite"}
  BY DEF Evicting
<1>2. ~Concludes(r) /\ ~Opens(r)
  BY <1>1, CommitState
<1>3. req'[r].now = req[r].now
  BY <1>1, NowStays
<1>4. ~Drops(r)
  BY <1>1, LocalState DEF Drops
<1>5. ~Advances(r)
  BY <1>1, LocalState DEF Advances
<1>6. ~Loads(r)
  BY <1>1, LoadState
<1>7. ASSUME EvictNext(r) PROVE req[r].stage \in Evicting /\ Chosen(req'[r]) = Chosen(req[r])
  <2>1. /\ req[r].stage = "txEvict" /\ req[r].evict \in Seq(Requests) /\ req[r].evict # << >>
        /\ req'[r].evict = Tail(req[r].evict)
        /\ req'[r].evicted = req[r].evicted \cup {Head(req[r].evict)}
    BY <1>7, EvictState
  <2> QED BY <2>1, ChosenNext, Zenon DEF Evicting
<1> QED BY <1>2, <1>3, <1>4, <1>5, <1>6, <1>7, FineSteps, Zenon

\* Outside those stages no row is chosen.
LEMMA NoneChosen ==
    ASSUME Planned, NEW r \in Requests, req[r].stage \notin Evicting
    PROVE  Chosen(req[r]) = {}
<1>1. req[r].evict = << >> /\ req[r].evicted = {}
  BY Zenon DEF Planned, Plan
<1> QED BY <1>1, ChosenNone

\* What Selects has chosen.
LEMMA SelectedRows ==
    ASSUME Inv, Planned, NEW r \in Requests, Selects(r)
    PROVE  \/ /\ ConcurrentPolicy = "SINGLE"
              /\ Chosen(req'[r]) = {x \in ActiveRows : Evictable(x, req[r].now)}
           \/ /\ ConcurrentPolicy # "SINGLE" /\ Chosen(req'[r]) = {}
              /\ ConcurrentPolicy = "LIMIT_N" => Cardinality(ActiveRows) < ConcurrentMax
           \/ ConcurrentPolicy = "LIMIT_N" /\ ActiveRows = {} /\ Chosen(req'[r]) = {}
           \/ /\ ConcurrentPolicy = "LIMIT_N" /\ ActiveRows # {}
              /\ \E q \in ByCreation(ActiveRows) :
                    Chosen(req'[r]) = IF Evictable(q[1], req[r].now) THEN {q[1]} ELSE {}
<1>1. req[r].stage \in {"txPolicy", "txOldest"} /\ Plan(req[r])
  BY DEF Selects, Planned
<1>2. req[r].evict = << >> /\ req[r].evicted = {}
  BY <1>1 DEF Plan, Evicting
<1>3. ASSUME NEW rows, EvictAll(r, rows)
      PROVE  Chosen(req'[r]) = {rows[i] : i \in 1..Len(rows)}
  <2>1. req'[r].evict = rows /\ req'[r].evicted = {}
    BY <1>2, <1>3, LocalState
  <2> QED BY <2>1, Zenon DEF Chosen
<1>4. {<< >>[i] : i \in 1..Len(<< >>)} = {}
  OBVIOUS
<1>5. CASE /\ ConcurrentPolicy = "SINGLE"
           /\ \E q \in ByCreation({x \in ActiveRows : Evictable(x, req[r].now)}) : EvictAll(r, q)
  <2> DEFINE S == {x \in ActiveRows : Evictable(x, req[r].now)}
  <2>1. PICK q \in ByCreation(S) : EvictAll(r, q)
    BY <1>5, Zenon
  <2>2. Counted /\ S \subseteq ActiveRows /\ S \in SUBSET Requests
    BY ActiveCounted
  <2> HIDE DEF S
  <2>3. Len(q) = Cardinality(S)
    BY <2>2, Rows
  <2>4. \A x \in S : \E i \in 1..Len(q) : q[i] = x
    BY <2>2, <2>3, AllRows
  <2>5. \A i \in 1..Len(q) : q[i] \in S
    BY <2>3 DEF ByCreation
  <2>6. Chosen(req'[r]) = S
    <3>1. {q[i] : i \in 1..Len(q)} = S
      BY <2>4, <2>5
    <3> QED BY <1>3, <2>1, <3>1, Zenon
  <2> QED BY <1>5, <2>6, Zenon DEF S
<1>6. CASE /\ ConcurrentPolicy # "SINGLE" /\ Goto(r, "txWrite")
           /\ ConcurrentPolicy = "LIMIT_N" => Cardinality(ActiveRows) < ConcurrentMax
  <2>1. req'[r].evict = << >> /\ req'[r].evicted = {}
    BY <1>2, <1>6, LocalState
  <2>2. Chosen(req'[r]) = {}
    BY <2>1, ChosenNone
  <2> QED BY <1>6, <2>2, SMTT(20)
<1>7. CASE req[r].stage = "txOldest" /\ ActiveRows = {} /\ EvictAll(r, << >>)
  <2>1. Chosen(req'[r]) = {}
    BY <1>3, <1>4, <1>7, Zenon
  <2>2. ConcurrentPolicy = "LIMIT_N"
    BY <1>1, <1>7 DEF Plan
  <2> QED BY <1>7, <2>1, <2>2
<1>8. CASE /\ req[r].stage = "txOldest" /\ ActiveRows # {}
           /\ \E q \in ByCreation(ActiveRows) :
                 EvictAll(r, IF Evictable(q[1], req[r].now) THEN <<q[1]>> ELSE << >>)
  <2>1. PICK q \in ByCreation(ActiveRows) :
           EvictAll(r, IF Evictable(q[1], req[r].now) THEN <<q[1]>> ELSE << >>)
    BY <1>8
  <2>2. ConcurrentPolicy = "LIMIT_N"
    BY <1>1, <1>8 DEF Plan
  <2>3. CASE Evictable(q[1], req[r].now)
    <3>1. EvictAll(r, <<q[1]>>)
      BY <2>1, <2>3, Zenon
    <3> DEFINE x == q[1]
    <3> HIDE DEF x
    <3>2. {<<x>>[i] : i \in 1..Len(<<x>>)} = {x}
      OBVIOUS
    <3>3. Chosen(req'[r]) = {x}
      BY <1>3, <3>1, <3>2, Zenon DEF x
    <3> QED BY <1>8, <2>2, <2>3, <3>3, Zenon DEF x
  <2>4. CASE ~Evictable(q[1], req[r].now)
    <3>1. EvictAll(r, << >>)
      BY <2>1, <2>4, Zenon
    <3>2. Chosen(req'[r]) = {}
      BY <1>3, <1>4, <3>1, Zenon
    <3> QED BY <1>8, <2>2, <2>4, <3>2, Zenon
  <2> QED BY <2>3, <2>4, Zenon
<1> QED BY <1>5, <1>6, <1>7, <1>8, Zenon DEF Selects

-----------------------------------------------------------------------------
(* A lock in force, one login after the other.                             *)

\* What a step leaves of the credential a request holds: the same one, a freshly
\* verified one, or none.
LEMMA HeldCredential ==
    ASSUME Inv, NEW r \in Requests, Step(r) \/ CutOff(r), ~Concludes(r), ~Opens(r),
           req'[r].stage \in CredentialStages
    PROVE  \/ Loads(r)
           \/ req[r].stage \in CredentialStages /\ req'[r].cred = req[r].cred
<1>1. ASSUME Drops(r) PROVE FALSE
  <2>1. req'[r].stage = "done"
    BY <1>1, LocalState DEF Drops
  <2> QED BY <2>1 DEF CredentialStages, SessionStages
<1>2. ASSUME Advances(r) PROVE req[r].stage \in CredentialStages /\ req'[r].cred = req[r].cred
  <2>1. PICK st \in {"resolve", "load", "txForced", "txMFA", "txPolicy", "txOldest"} :
           Goto(r, st) /\ (st \in CredentialStages => req[r].stage \in CredentialStages)
    BY <1>2, SMTT(20) DEF Advances
  <2>2. req'[r].stage = st /\ req'[r].cred = req[r].cred
    BY <2>1, LocalState, ZenonT(30)
  <2> QED BY <2>1, <2>2
<1>3. ASSUME Selects(r) PROVE req[r].stage \in CredentialStages /\ req'[r].cred = req[r].cred
  <2>1. Goto(r, "txWrite") \/ \E rows : EvictAll(r, rows)
    BY <1>3, Zenon DEF Selects
  <2>2. req'[r].cred = req[r].cred
    BY <2>1, LocalState, Zenon
  <2>3. req[r].stage \in CredentialStages
    BY <1>3 DEF Selects, CredentialStages, SessionStages
  <2> QED BY <2>2, <2>3
<1>4. ASSUME EvictNext(r) PROVE req[r].stage \in CredentialStages /\ req'[r].cred = req[r].cred
  BY <1>4, EvictState DEF CredentialStages, SessionStages
<1> QED BY <1>1, <1>2, <1>3, <1>4, FineSteps, Zenon

\* A lock that is in force now was in force before.
LEMMA LockElapses ==
    ASSUME NEW c \in Credential, NEW s \in Nat, NEW t \in Nat, s <= t, IsLocked(c, t)
    PROVE  IsLocked(c, s)
<1>1. c.lockedUntil \in Int
  BY DEF Credential, OptTime, NoTime
<1>2. t < c.lockedUntil => s < c.lockedUntil
  BY <1>1
<1> QED BY <1>2, Zenon DEF IsLocked

\* A request holds a credential only if the row it read was not locked.
Unbarred ==
    \A r \in Requests : req[r].stage \in CredentialStages => ~IsLocked(credRow, req[r].now)

LEMMA InitUnbarred == Init => Unbarred
<1>1. Init => \A r \in Requests : req[r] = Idle
  BY Zenon DEF Init
<1>2. Idle.stage \notin CredentialStages
  BY DEF Idle, CredentialStages, SessionStages
<1> QED BY <1>1, <1>2, Zenon DEF Unbarred

\* A step keeps it so, and writes no row that is locked.
LEMMA StepUnbarred ==
    ASSUME Inv, Alone, Unbarred, [Next]_vars
    PROVE  Unbarred' /\ (IsLocked(credRow, clock) => credRow' = credRow)
<1> DEFINE Kept == Unbarred' /\ (IsLocked(credRow, clock) => credRow' = credRow)
<1>1. ASSUME Quietly, \A o \in Requests : req'[o].stage \in CredentialStages =>
                \/ req[o].stage \in CredentialStages /\ req'[o].now = req[o].now
                \/ ~IsLocked(credRow, req'[o].now)
      PROVE  Kept
  <2>1. credRow' = credRow
    BY <1>1 DEF Quietly
  <2>2. Unbarred'
    BY <1>1, <2>1, Zenon DEF Unbarred
  <2> QED BY <2>1, <2>2
<1>2. ASSUME NEW r \in Requests, Start(r) PROVE Kept
  BY <1>1, <1>2, StartState DEF CredentialStages, SessionStages
<1>3. ASSUME NEW r \in Requests, Step(r) \/ CutOff(r), ~Concludes(r), ~Opens(r) PROVE Kept
  <2>1. Quietly
    BY <1>3, NoCommit
  <2>2. \A o \in Requests \ {r} : req'[o] = req[o]
    BY <1>3, OwnStep
  <2>3. ASSUME req'[r].stage \in CredentialStages
        PROVE  Loads(r) \/ req[r].stage \in CredentialStages
    BY <1>3, <2>3, HeldCredential
  <2>4. ASSUME req'[r].stage \in CredentialStages PROVE req'[r].now = req[r].now
    <3>1. req'[r].stage # "done"
      BY <2>4 DEF CredentialStages, SessionStages
    <3> QED BY <1>3, <3>1, NowStays
  <2>5. ASSUME Loads(r) PROVE ~IsLocked(credRow, req[r].now)
    <3>1. EnsureVerifiable(credRow, req[r].now).err = ""
      BY <2>5 DEF Loads
    <3> QED BY <3>1, Zenon DEF EnsureVerifiable, Fail
  <2> HIDE DEF Kept
  <2> QED BY <1>1, <2>1, <2>2, <2>3, <2>4, <2>5, Zenon
<1>4. ASSUME NEW r \in Requests, Step(r) \/ CutOff(r), Concludes(r) \/ Opens(r) PROVE Kept
  <2>1. req[r].stage \in CredentialStages
    BY <1>4 DEF Concludes, Opens, CredentialStages, SessionStages
  <2>2. /\ req[r].now \in Nat /\ clock \in Nat /\ req[r].now <= clock
        /\ credRow \in Credential
    BY Zenon DEF Inv, Proper, Request, Sound
  <2>3. ~IsLocked(credRow, clock)
    BY <2>1, <2>2, LockElapses DEF Unbarred
  <2>4. \A o \in Requests : req'[o].stage \notin CredentialStages
    <3>1. req'[r].stage \notin CredentialStages
      BY <1>4, CommitState DEF CredentialStages, SessionStages
    <3>2. \A o \in Requests \ {r} : req'[o].stage \in {"idle", "done"}
      BY <1>4, OthersOut
    <3>3. "idle" \notin CredentialStages /\ "done" \notin CredentialStages
      BY DEF CredentialStages, SessionStages
    <3> QED BY <3>1, <3>2, <3>3
  <2> QED BY <2>3, <2>4, ZenonT(30) DEF Unbarred
<1>5. ASSUME Tick \/ Elsewhere \/ Finished \/ UNCHANGED vars PROVE Kept
  <2>1. Quietly /\ req' = req
    BY <1>5, Bystanders
  <2> QED BY <1>1, <2>1
<1> HIDE DEF Kept
<1>6. Kept
  BY <1>2, <1>3, <1>4, <1>5, Zenon DEF Next
<1> QED BY <1>6 DEF Kept

-----------------------------------------------------------------------------
(* Why a login ends: it goes from stage to stage, and waits for running    *)
(* requests only.                                                          *)

\* How far Login() has got.
Rank ==
    [idle |-> 0, rateLimit |-> 1, resolve |-> 2, load |-> 3, decide |-> 4,
     txFail |-> 5, txForced |-> 5, txMFA |-> 5, txPolicy |-> 5,
     mfaStore |-> 6, txOldest |-> 6, txEvict |-> 7, txWrite |-> 8, done |-> 9]

\* From local state m to n: a later stage, or one row fewer to evict.
MovesOn(m, n) ==
    \/ Rank[n.stage] > Rank[m.stage]
    \/ n.stage = m.stage /\ Len(n.evict) < Len(m.evict)

\* Every call comes after those it follows, and the end after all.
LEMMA Ranks ==
    /\ Rank["rateLimit"] > Rank["idle"] /\ Rank["resolve"] > Rank["rateLimit"]
    /\ Rank["load"] > Rank["resolve"]
    /\ Rank["txFail"] > Rank["load"] /\ Rank["decide"] > Rank["load"]
    /\ Rank["txForced"] > Rank["decide"] /\ Rank["txMFA"] > Rank["decide"]
    /\ Rank["txPolicy"] > Rank["decide"] /\ Rank["mfaStore"] > Rank["txMFA"]
    /\ Rank["txOldest"] > Rank["txPolicy"] /\ Rank["txEvict"] > Rank["txPolicy"]
    /\ Rank["txWrite"] > Rank["txPolicy"] /\ Rank["txEvict"] > Rank["txOldest"]
    /\ Rank["txWrite"] > Rank["txOldest"] /\ Rank["txWrite"] > Rank["txEvict"]
    /\ \A st \in Stages \ {"done"} : Rank["done"] > Rank[st]
<1>1. /\ Rank["idle"] = 0 /\ Rank["rateLimit"] = 1 /\ Rank["resolve"] = 2 /\ Rank["load"] = 3
      /\ Rank["decide"] = 4 /\ Rank["txFail"] = 5 /\ Rank["txForced"] = 5 /\ Rank["txMFA"] = 5
      /\ Rank["txPolicy"] = 5 /\ Rank["mfaStore"] = 6 /\ Rank["txOldest"] = 6
      /\ Rank["txEvict"] = 7 /\ Rank["txWrite"] = 8 /\ Rank["done"] = 9
  BY DEF Rank
<1>2. /\ 9 > 0 /\ 9 > 1 /\ 9 > 2 /\ 9 > 3 /\ 9 > 4 /\ 9 > 5 /\ 9 > 6 /\ 9 > 7 /\ 9 > 8
      /\ 1 > 0 /\ 2 > 1 /\ 3 > 2 /\ 5 > 3 /\ 4 > 3 /\ 5 > 4 /\ 6 > 5 /\ 7 > 5 /\ 8 > 5
      /\ 7 > 6 /\ 8 > 6 /\ 8 > 7
  OBVIOUS
<1>3. ASSUME NEW st \in Stages \ {"done"} PROVE Rank["done"] > Rank[st]
  BY <1>1, <1>2, ZenonT(30) DEF Stages
<1> QED BY <1>1, <1>2, <1>3, ZenonT(30)

\* The stages a step that only changes the stage, or ends the request, leads to.
LEMMA StageAfter ==
    ASSUME Inv, NEW r \in Requests, NEW S,
           \/ \E response : Respond(r, response)
           \/ \E st \in S : Goto(r, st)
    PROVE  req'[r].stage \in S \cup {"done"}
<1>1. ASSUME NEW response, Respond(r, response) PROVE req'[r].stage = "done"
  BY <1>1, LocalState, ZenonT(30)
<1>2. ASSUME NEW st \in S, Goto(r, st) PROVE req'[r].stage \in S
  BY <1>2, LocalState
<1> QED BY <1>1, <1>2, Zenon

\* The steps up to the transactions.
LEMMA EarlyOnward ==
    ASSUME Inv, NEW r \in Requests,
           CheckRateLimit(r) \/ ResolveIdentity(r) \/ LoadAndVerify(r) \/ Decide(r)
    PROVE  Rank[req'[r].stage] > Rank[req[r].stage]
<1>1. CASE CheckRateLimit(r)
  <2>1. req[r].stage = "rateLimit" /\ req'[r].stage \in {"resolve"} \cup {"done"}
    BY <1>1, StageAfter, Zenon DEF CheckRateLimit
  <2> QED BY <2>1, Ranks, Zenon DEF Stages
<1>2. CASE ResolveIdentity(r)
  <2>1. req[r].stage = "resolve" /\ req'[r].stage \in {"load"} \cup {"done"}
    BY <1>2, StageAfter, Zenon DEF ResolveIdentity, InvalidCredentials
  <2> QED BY <2>1, Ranks, Zenon DEF Stages
<1>3. CASE LoadAndVerify(r)
  <2>1. req[r].stage = "load"
    BY <1>3, Zenon DEF LoadAndVerify
  <2>2. \/ \E response : Respond(r, response)
        \/ \E st \in {"txFail", "decide"} : \E c : req' = [req EXCEPT ![r].stage = st, ![r].cred = c]
    BY <1>3, Zenon DEF LoadAndVerify
  <2>3. ASSUME NEW st \in {"txFail", "decide"}, NEW c,
               req' = [req EXCEPT ![r].stage = st, ![r].cred = c]
        PROVE  req'[r].stage = st
    <3>1. req \in [Requests -> Request] /\ req[r] \in Request
      BY Zenon DEF Inv
    <3> QED BY <2>3, <3>1, Zenon DEF Request
  <2>4. req'[r].stage \in {"txFail", "decide", "done"}
    BY <2>2, <2>3, LocalState, ZenonT(30)
  <2> QED BY <2>1, <2>4, Ranks, Zenon DEF Stages
<1>4. CASE Decide(r)
  <2>1. req[r].stage = "decide" /\ req'[r].stage \in {"txForced", "txMFA", "txPolicy"} \cup {"done"}
    BY <1>4, StageAfter, Zenon DEF Decide
  <2> QED BY <2>1, Ranks, Zenon DEF Stages
<1> QED BY <1>1, <1>2, <1>3, <1>4

\* The transactions, but for the statements that revoke a row.
LEMMA TxOnward ==
    ASSUME Inv, NEW r \in Requests,
           \/ TxFail(r) \/ TxForcedChange(r) \/ TxMFARequired(r) \/ StoreMFASession(r)
           \/ ApplyPolicy(r) \/ FindOldest(r) \/ AbortEviction(r) \/ TxSession(r) \/ CutOff(r)
    PROVE  Rank[req'[r].stage] > Rank[req[r].stage]
<1>1. CASE TxFail(r) \/ TxForcedChange(r) \/ StoreMFASession(r) \/ AbortEviction(r) \/ TxSession(r)
  <2>1. /\ req[r].stage \in {"txFail", "txForced", "mfaStore", "txEvict", "txWrite"}
        /\ \E response : Respond(r, response)
    BY <1>1, Zenon DEF TxFail, TxForcedChange, StoreMFASession, AbortEviction, TxSession, TxUnknown,
                      TxRollback
  <2>2. req'[r].stage = "done"
    BY <2>1, LocalState, Zenon
  <2> QED BY <2>1, <2>2, Ranks, Zenon DEF Stages
<1>2. CASE TxMFARequired(r)
  <2>1. req[r].stage = "txMFA" /\ req'[r].stage \in {"mfaStore"} \cup {"done"}
    BY <1>2, StageAfter, Zenon DEF TxMFARequired, TxUnknown, TxRollback
  <2> QED BY <2>1, Ranks, Zenon DEF Stages
<1>3. ASSUME NEW rows, EvictAll(r, rows) PROVE req'[r].stage \in {"txEvict", "txWrite"}
  BY <1>3, LocalState, Zenon
<1>4. CASE ApplyPolicy(r)
  <2>1. /\ req[r].stage = "txPolicy"
        /\ \/ \E rows : EvictAll(r, rows)
           \/ \E st \in {"txOldest", "txWrite"} : Goto(r, st)
           \/ Respond(r, "ErrSystemDatabase")
    BY <1>4, ZenonT(30) DEF ApplyPolicy, TxRollback
  <2>2. req'[r].stage \in {"txOldest", "txEvict", "txWrite", "done"}
    BY <1>3, <2>1, LocalState, Zenon
  <2> QED BY <2>1, <2>2, Ranks, ZenonT(30) DEF Stages
<1>5. CASE FindOldest(r)
  <2>1. /\ req[r].stage = "txOldest"
        /\ (\E rows : EvictAll(r, rows)) \/ Respond(r, "ErrSystemDatabase")
    BY <1>5, Zenon DEF FindOldest, TxRollback
  <2>2. req'[r].stage \in {"txEvict", "txWrite", "done"}
    BY <1>3, <2>1, LocalState, Zenon
  <2> QED BY <2>1, <2>2, Ranks, Zenon DEF Stages
<1>6. CASE CutOff(r)
  <2>1. r \in InFlight /\ Respond(r, "") /\ req[r] \in Request
    BY <1>6, LocalState, Zenon DEF CutOff
  <2>2. req[r].stage \in Stages \ {"idle", "done"} /\ req'[r].stage = "done"
    BY <2>1, LocalState, ZenonT(30) DEF InFlight, Request
  <2> QED BY <2>2, Ranks, Zenon
<1> QED BY <1>1, <1>2, <1>4, <1>5, <1>6

\* A step moves the request that takes it on, and no other.
LEMMA StepOnward ==
    ASSUME Inv, [Next]_vars, NEW r \in Requests, req'[r] # req[r]
    PROVE  MovesOn(req[r], req'[r])
<1>1. ASSUME NEW o \in Requests, Start(o) PROVE MovesOn(req[r], req'[r])
  <2>1. o = r
    BY <1>1, StartState
  <2>2. req[r].stage = "idle" /\ req'[r].stage = "rateLimit"
    BY <1>1, <2>1, StartState
  <2> QED BY <2>2, Ranks, Zenon DEF MovesOn
<1>2. ASSUME NEW o \in Requests, Step(o) \/ CutOff(o) PROVE MovesOn(req[r], req'[r])
  <2>1. o = r
    BY <1>2, OwnStep
  <2>2. CASE EvictNext(r)
    <3>1. /\ req[r].stage = "txEvict" /\ req[r].evict \in Seq(Requests) /\ req[r].evict # << >>
          /\ req'[r].stage \in {"txEvict", "txWrite"} /\ req'[r].evict = Tail(req[r].evict)
      BY <2>2, EvictState, Zenon
    <3>2. Len(req'[r].evict) < Len(req[r].evict)
      BY <3>1
    <3>3. CASE req'[r].stage = "txWrite"
      BY <3>1, <3>3, Ranks, ZenonT(30) DEF MovesOn
    <3> QED BY <3>1, <3>2, <3>3, Zenon DEF MovesOn
  <2>3. CASE ~EvictNext(r)
    BY <1>2, <2>1, <2>3, EarlyOnward, TxOnward, ZenonT(30) DEF MovesOn, Step
  <2> QED BY <2>2, <2>3
<1>3. ASSUME Tick \/ Elsewhere \/ Finished \/ UNCHANGED vars PROVE FALSE
  BY <1>3, Bystanders
<1> QED BY <1>1, <1>2, <1>3, ZenonT(30) DEF Next

\* Whoever holds a row is running.
LEMMA HoldersRun ==
    ASSUME Planned, NEW r \in Requests, NEW o \in Requests, Waits(r, o)
    PROVE  o \in InFlight
<1>1. req[o].evicted # {} /\ Plan(req[o])
  BY DEF Waits, Holds, Planned
<1> QED BY <1>1 DEF Plan, Evicting, InFlight

-----------------------------------------------------------------------------
(* What logins do to the sessions there are.                               *)

\* Only completeSession's transaction writes the session table.
LEMMA SessionsStay ==
    ASSUME Inv, NEW r \in Requests, Start(r) \/ Step(r) \/ CutOff(r), ~Opens(r)
    PROVE  sessions' = sessions /\ clock' = clock
<1>1. ASSUME Concludes(r) PROVE sessions' = sessions
  BY <1>1, ZenonT(30) DEF Concludes, CredentialWrites
<1> QED BY <1>1, NoCommit, StartState, ClockStays, SMTT(20) DEF Quietly

\* The row of a session that is evicted at the given time.
EvictedRow(s, at) ==
    [s EXCEPT !.status = SessionStatusRevoked, !.revokedAt = at,
              !.revokeReason = "CONCURRENT_SESSION_LIMIT"]

\* The row of a session changes when a login that chose it commits.
LEMMA OnlyEvicted ==
    ASSUME Inv, [Next]_vars, NEW x \in Requests, sessions[x] # NilSession, sessions'[x] # sessions[x]
    PROVE  \E r \in Requests : /\ Opens(r) /\ x \in req[r].evicted
                              /\ sessions'[x] = EvictedRow(sessions[x], req[r].now)
<1>1. PICK r \in Requests : Opens(r)
  <2>1. ASSUME Tick \/ Elsewhere \/ Finished \/ UNCHANGED vars PROVE FALSE
    BY <2>1, Bystanders DEF Quietly
  <2> QED BY <2>1, SessionsStay DEF Next
<1>2. sessions[r] = NilSession
  <2>1. Recorded(r) /\ req[r].stage = "txWrite"
    BY <1>1, Zenon DEF Inv, Opens
  <2>2. "txWrite" \in Open /\ "" # "SUCCEEDED"
    BY DEF Open, Stages
  <2> QED BY <2>1, <2>2, Zenon DEF Recorded
<1>3. x # r
  BY <1>2
<1>4. x \in req[r].evicted
  BY <1>1, <1>3, OpenRows
<1>5. sessions'[x] = EvictedRow(sessions[x], req[r].now)
  BY <1>1, <1>3, <1>4, Zenon DEF Opens, SessionWrites, Holds, EvictedRow
<1> QED BY <1>1, <1>4, <1>5

\* Session s, ended by the concurrent-session policy at the given time, is t: its
\* level, its times and its limits are as they were.
Ends(s, t, at) ==
    /\ t.status = SessionStatusRevoked /\ t.revokedAt = at
    /\ t.revokeReason = "CONCURRENT_SESSION_LIMIT"
    /\ t.aal = s.aal /\ t.createdAt = s.createdAt /\ t.lastActivityAt = s.lastActivityAt
    /\ t.idleTimeout = s.idleTimeout /\ t.absoluteExpiresAt = s.absoluteExpiresAt

\* What an eviction does to a row.
LEMMA EvictedFields ==
    ASSUME NEW s \in Session, NEW at
    PROVE  Ends(s, EvictedRow(s, at), at)
BY Zenon DEF Session, EvictedRow, Ends

\* Of logins that do not overlap, what one has chosen is still active.
ChosenActive == \A r \in Requests : Chosen(req[r]) \subseteq ActiveRows

\* What Selects chooses is active.
LEMMA SelectedActive ==
    ASSUME Inv, Planned, NEW r \in Requests, Selects(r)
    PROVE  Chosen(req'[r]) \subseteq ActiveRows
<1>1. ASSUME NEW q \in ByCreation(ActiveRows), ActiveRows # {} PROVE q[1] \in ActiveRows
  <2>1. Cardinality(ActiveRows) \in Nat /\ Cardinality(ActiveRows) # 0
    BY <1>1, ActiveCounted DEF Counted
  <2>2. q \in [1..Cardinality(ActiveRows) -> ActiveRows] /\ 1 \in 1..Cardinality(ActiveRows)
    BY <2>1 DEF ByCreation
  <2> QED BY <2>2
<1>2. CASE Chosen(req'[r]) = {}
  BY <1>2
<1>3. CASE Chosen(req'[r]) = {x \in ActiveRows : Evictable(x, req[r].now)}
  BY <1>3
<1>4. CASE /\ ActiveRows # {}
           /\ \E q \in ByCreation(ActiveRows) :
                 Chosen(req'[r]) = IF Evictable(q[1], req[r].now) THEN {q[1]} ELSE {}
  <2>1. PICK q \in ByCreation(ActiveRows) :
           Chosen(req'[r]) = IF Evictable(q[1], req[r].now) THEN {q[1]} ELSE {}
    BY <1>4, ZenonT(30)
  <2>2. q[1] \in ActiveRows
    BY <1>1, <1>4
  <2>3. Chosen(req'[r]) = {q[1]} \/ Chosen(req'[r]) = {}
    BY <2>1, Zenon
  <2> QED BY <2>2, <2>3, Zenon
<1> QED BY <1>2, <1>3, <1>4, SelectedRows, Zenon

LEMMA InitChosenActive == Init /\ Planned => ChosenActive
<1> SUFFICES ASSUME Init, Planned, NEW r \in Requests PROVE Chosen(req[r]) \subseteq ActiveRows
  BY DEF ChosenActive
<1>1. req[r].stage = "idle"
  BY Zenon DEF Init, Idle
<1>2. Chosen(req[r]) = {}
  BY <1>1, NoneChosen DEF Evicting
<1> QED BY <1>2

LEMMA StepChosenActive ==
    ASSUME Inv, Planned, Planned', Alone, ChosenActive, [Next]_vars
    PROVE  ChosenActive'
<1>1. ASSUME NEW o \in Requests, req'[o].stage \notin Evicting PROVE Chosen(req'[o]) = {}
  <2>1. Plan(req[o])'
    BY Zenon DEF Planned
  <2>2. req'[o].evict = << >> /\ req'[o].evicted = {}
    BY <1>1, <2>1, Zenon DEF Plan
  <2> QED BY <2>2, ChosenNone
<1>2. ASSUME sessions' = sessions, NEW o \in Requests, req'[o] = req[o]
      PROVE  Chosen(req'[o]) \subseteq ActiveRows'
  BY <1>2, Zenon DEF ChosenActive, ActiveRows
<1>3. ASSUME NEW r \in Requests, Start(r) PROVE ChosenActive'
  <2>1. /\ sessions' = sessions /\ req'[r].stage = "rateLimit"
        /\ \A o \in Requests \ {r} : req'[o] = req[o]
    BY <1>3, StartState DEF Quietly
  <2>2. Chosen(req'[r]) = {}
    BY <1>1, <2>1 DEF Evicting
  <2>3. ASSUME NEW o \in Requests PROVE Chosen(req'[o]) \subseteq ActiveRows'
    BY <1>2, <2>1, <2>2, Zenon
  <2> QED BY <2>3, Zenon DEF ChosenActive
<1>4. ASSUME NEW r \in Requests, Step(r) \/ CutOff(r) PROVE ChosenActive'
  <2>1. ASSUME NEW o \in Requests \ {r} PROVE Chosen(req'[o]) = {}
    <3>1. req'[o].stage \in {"idle", "done"}
      BY <1>4, OthersOut
    <3> QED BY <1>1, <3>1 DEF Evicting
  <2>2. Chosen(req'[r]) \subseteq ActiveRows'
    <3>1. CASE req'[r].stage \notin Evicting
      BY <1>1, <3>1
    <3>2. CASE req'[r].stage \in Evicting
      <4>1. ~Opens(r) /\ (Selects(r) \/ Chosen(req'[r]) = Chosen(req[r]))
        BY <1>4, <3>2, EvictingStep, SMTT(20)
      <4>2. ActiveRows' = ActiveRows
        BY <1>4, <4>1, SessionsStay DEF ActiveRows
      <4>3. Chosen(req'[r]) \subseteq ActiveRows
        BY <4>1, SelectedActive DEF ChosenActive
      <4> QED BY <4>2, <4>3
    <3> QED BY <3>1, <3>2
  <2> QED BY <2>1, <2>2, Zenon DEF ChosenActive
<1>5. ASSUME Tick \/ Elsewhere \/ Finished \/ UNCHANGED vars PROVE ChosenActive'
  <2>1. sessions' = sessions /\ req' = req
    BY <1>5, Bystanders DEF Quietly
  <2>2. ASSUME NEW o \in Requests PROVE Chosen(req'[o]) \subseteq ActiveRows'
    BY <1>2, <2>1
  <2> QED BY <2>2, Zenon DEF ChosenActive
<1> QED BY <1>3, <1>4, <1>5, Zenon DEF Next

-----------------------------------------------------------------------------
(* What a client may conclude from its answer.                             *)

\* The answer to a request, in accordance with the outcome on record, the
\* session and the challenge.
Agree(record, open, challenge, told) ==
    /\ open <=> told \in {"COMPLETED", "ErrSystemDatabase"} /\ record = "SUCCEEDED"
    /\ told = "COMPLETED" => open
    /\ told = "MFA_REQUIRED" => challenge
    /\ challenge => record = "MFA_REQUIRED" /\ told \in {"MFA_REQUIRED", "ErrSystemUpstream"}
    /\ told = "PASSWORD_CHANGE_REQUIRED" => record = told
    /\ told = "ErrLoginInvalidCredentials" => record \in {"", "FAILED_CREDENTIALS"}
    /\ told = "ErrLoginAccountLocked" => record \in {"", "LOCKED"}
    /\ told = "ErrRateLimited" => record \in {"", "RATE_LIMITED"}

AnswersAgree ==
    \A r \in Requests : Agree(attempts[r], r \in Opened, r \in mfaStore, Answer[r])

LEMMA InitAgree == Init => AnswersAgree
<1> SUFFICES ASSUME Init, NEW r \in Requests
             PROVE  Agree(attempts[r], r \in Opened, r \in mfaStore, Answer[r])
  BY Zenon DEF AnswersAgree
<1>1. attempts[r] = "" /\ r \notin Opened /\ r \notin mfaStore
  BY Zenon DEF Init, Opened
<1>2. Answer[r] = ""
  BY Zenon DEF Init, Answer, Idle
<1> QED BY <1>1, <1>2 DEF Agree

\* The promise keeps the answers in accordance: an answer is the last that
\* happens to a request.
LEMMA PromiseAgree ==
    ASSUME Inv, AnswersAgree, [Promise!PNext]_(Promise!pvars)
    PROVE  AnswersAgree'
<1>1. attempts \in [Requests -> Outcomes \cup {""}] /\ Answer \in [Requests -> Answers]
  <2>1. req \in [Requests -> Request] /\ attempts \in [Requests -> Outcomes \cup {""}]
    BY Zenon DEF Inv
  <2>2. \A m \in Request : m.response \in Answers
    BY DEF Request, Answers
  <2> QED BY <2>1, <2>2, Zenon DEF Answer
<1>2. CASE UNCHANGED Promise!pvars
  BY <1>2, Zenon DEF Promise!pvars, AnswersAgree, Answer, Opened
<1>3. ASSUME NEW r \in Requests,
             \A x \in Requests \ {r} :
                /\ attempts'[x] = attempts[x] /\ Answer'[x] = Answer[x]
                /\ x \in Opened' <=> x \in Opened
                /\ x \in mfaStore' <=> x \in mfaStore,
             Agree(attempts'[r], r \in Opened', r \in mfaStore', Answer'[r])
      PROVE  AnswersAgree'
  <2>1. ASSUME NEW x \in Requests
        PROVE  Agree(attempts'[x], x \in Opened', x \in mfaStore', Answer'[x])
    <3>1. CASE x = r
      BY <1>3, <3>1
    <3>2. CASE x # r
      <4>1. Agree(attempts[x], x \in Opened, x \in mfaStore, Answer[x])
        BY Zenon DEF AnswersAgree
      <4> QED BY <1>3, <3>2, <4>1, Zenon DEF Agree
    <3> QED BY <3>1, <3>2
  <2> QED BY <2>1, Zenon DEF AnswersAgree
<1>4. ASSUME NEW r \in Requests, NEW outcome \in Promise!Outcomes, NEW told \in Promise!Told(outcome),
             Promise!PConclude(r, outcome, told)
      PROVE  AnswersAgree'
  <2>1. /\ attempts[r] = "" /\ Answer[r] = "" /\ mfaStore' = mfaStore
        /\ attempts' = [attempts EXCEPT ![r] = outcome] /\ Answer' = [Answer EXCEPT ![r] = told]
        /\ Opened' = IF outcome = "SUCCEEDED" THEN Opened \cup {r} ELSE Opened
    BY <1>4 DEF Promise!PConclude, Answer, Opened
  <2>2. Agree(attempts[r], r \in Opened, r \in mfaStore, Answer[r])
    BY Zenon DEF AnswersAgree
  <2>3. r \notin Opened /\ r \notin mfaStore
    BY <2>1, <2>2 DEF Agree
  <2>4. r \in Opened' <=> outcome = "SUCCEEDED"
    BY <2>1, <2>3
  <2>5. Agree(outcome, outcome = "SUCCEEDED", FALSE, told)
    BY <1>4 DEF Promise!Outcomes, Promise!Told, Agree
  <2>6. attempts'[r] = outcome /\ Answer'[r] = told
    BY <1>1, <2>1, Zenon
  <2>7. Agree(attempts'[r], r \in Opened', r \in mfaStore', Answer'[r])
    BY <2>1, <2>3, <2>4, <2>5, <2>6, Zenon DEF Agree
  <2>8. \A x \in Requests \ {r} :
           /\ attempts'[x] = attempts[x] /\ Answer'[x] = Answer[x]
           /\ x \in Opened' <=> x \in Opened
           /\ x \in mfaStore' <=> x \in mfaStore
    BY <1>1, <2>1
  <2> QED BY <1>3, <2>7, <2>8
<1>5. ASSUME NEW r \in Requests, NEW told,
             Promise!PChallenge(r, told) \/ Promise!PRefuse(r, told)
      PROVE  AnswersAgree'
  <2>1. /\ Answer[r] = "" /\ attempts' = attempts /\ Opened' = Opened
        /\ Answer' = [Answer EXCEPT ![r] = told]
        /\ \/ /\ mfaStore' = mfaStore \cup {r} /\ attempts[r] = "MFA_REQUIRED"
              /\ told \in {"MFA_REQUIRED", "ErrSystemUpstream"}
           \/ /\ mfaStore' = mfaStore
              /\ \/ told \in Promise!SystemErrors
                 \/ attempts[r] = "" /\ told \in {"ErrLoginInvalidCredentials",
                                                 "ErrLoginAccountLocked", "ErrRateLimited"}
    BY <1>5 DEF Promise!PChallenge, Promise!PRefuse, Answer, Opened
  <2>2. Agree(attempts[r], r \in Opened, r \in mfaStore, Answer[r])
    BY Zenon DEF AnswersAgree
  <2>3. r \notin Opened /\ r \notin mfaStore
    BY <2>1, <2>2 DEF Agree
  <2>4. attempts'[r] = attempts[r] /\ Answer'[r] = told /\ r \notin Opened'
    BY <1>1, <2>1, <2>3, Zenon
  <2>5. Agree(attempts'[r], r \in Opened', r \in mfaStore', Answer'[r])
    <3>1. CASE r \in mfaStore'
      <4>1. attempts[r] = "MFA_REQUIRED" /\ told \in {"MFA_REQUIRED", "ErrSystemUpstream"}
        BY <2>1, <2>3, <3>1
      <4>2. Agree(attempts[r], FALSE, TRUE, told)
        BY <4>1 DEF Agree
      <4> QED BY <2>4, <3>1, <4>2, Zenon DEF Agree
    <3>2. CASE r \notin mfaStore'
      <4>1. \/ told \in Promise!SystemErrors
            \/ attempts[r] = "" /\ told \in {"ErrLoginInvalidCredentials",
                                            "ErrLoginAccountLocked", "ErrRateLimited"}
        BY <2>1, <3>2
      <4>2. attempts[r] # "SUCCEEDED"
        BY <2>3, Zenon DEF Inv, Recorded, Opened
      <4>3. Agree(attempts[r], FALSE, FALSE, told)
        BY <4>1, <4>2 DEF Agree, Promise!SystemErrors
      <4> QED BY <2>4, <3>2, <4>3, Zenon DEF Agree
    <3> QED BY <3>1, <3>2
  <2>6. \A x \in Requests \ {r} :
           /\ attempts'[x] = attempts[x] /\ Answer'[x] = Answer[x]
           /\ x \in Opened' <=> x \in Opened
           /\ x \in mfaStore' <=> x \in mfaStore
    BY <1>1, <2>1
  <2> QED BY <1>3, <2>5, <2>6
<1> QED BY <1>2, <1>4, <1>5, Zenon DEF Promise!PNext

-----------------------------------------------------------------------------
(* What the steps of logins never do.                                      *)

\* A stored session stays as it is or is ended by the concurrent-session policy,
\* at a time that has passed.
Stays(s, t) == t = s \/ \E at \in Nat : at <= clock /\ Ends(s, t, at)

LEMMA StepStays ==
    ASSUME Inv, [Next]_vars, NEW x \in Requests, sessions[x] # NilSession
    PROVE  Stays(sessions[x], sessions'[x])
<1>1. CASE sessions'[x] = sessions[x]
  BY <1>1 DEF Stays
<1>2. CASE sessions'[x] # sessions[x]
  <2>1. PICK r \in Requests : sessions'[x] = EvictedRow(sessions[x], req[r].now)
    BY <1>2, OnlyEvicted
  <2>2. sessions[x] \in Session /\ req[r].now <= clock
    BY ZenonT(30) DEF Inv, Proper
  <2>3. req[r].now \in Nat
    BY LocalState, ZenonT(30)
  <2>4. Ends(sessions[x], sessions'[x], req[r].now)
    BY <2>1, <2>2, EvictedFields
  <2> QED BY <2>2, <2>3, <2>4, Zenon DEF Stays
<1> QED BY <1>1, <1>2

\* Of logins that do not overlap, the row written was active.
LEMMA StepEnded ==
    ASSUME Inv, Planned, ChosenActive, [Next]_vars, NEW x \in Requests, sessions[x] # NilSession,
           sessions'[x] # sessions[x]
    PROVE  sessions[x].status = SessionStatusActive
<1>1. PICK r \in Requests : x \in req[r].evicted
  BY OnlyEvicted
<1>2. x \in ActiveRows
  BY <1>1, Zenon DEF ChosenActive, Chosen
<1> QED BY <1>2 DEF ActiveRows

\* Under a policy that NewAuthenticationSession refuses no session is opened.
LEMMA StepRefusedPolicy ==
    ASSUME ~SessionPolicyValid, Inv, [Next]_vars, Opened = {}
    PROVE  Opened' = {}
<1>1. ASSUME NEW r \in Requests, Opens(r) PROVE FALSE
  <2>1. req[r].stage = "txWrite" /\ Proper(req[r], clock, sessions)
    BY <1>1, Zenon DEF Inv, Opens
  <2>2. "txWrite" \in SessionStages
    BY DEF SessionStages
  <2> QED BY <2>1, <2>2, Zenon DEF Proper
<1>2. sessions' = sessions
  <2>1. ASSUME Tick \/ Elsewhere \/ Finished \/ UNCHANGED vars PROVE sessions' = sessions
    BY <2>1, Bystanders DEF Quietly
  <2> QED BY <1>1, <2>1, SessionsStay DEF Next
<1> QED BY <1>2 DEF Opened

=============================================================================
