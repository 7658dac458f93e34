----------------------------- MODULE LoginProofs -----------------------------
(***************************************************************************)
(* Logins keep the credential row, their records and their promise, for    *)
(* any number of requests, every policy and every failure; what they keep  *)
(* of the locks on record and of the session policies, overlapping or one  *)
(* after the other.                                                        *)
(***************************************************************************)
EXTENDS LoginSteps

USE LoginAssumption, SessionPolicyType

-----------------------------------------------------------------------------
(* The oldest session goes first, one login after the other.               *)

\* A running request started no earlier than any session was created.
Latest == \A r \in InFlight : \A x \in Requests :
              sessions[x] # NilSession => sessions[x].createdAt <= req[r].now

\* The rows chosen are active and as old as any that is.
ChosenOldest ==
    \A r \in Requests : \A x \in Chosen(req[r]) :
        x \in ActiveRows /\ \A y \in ActiveRows : sessions[x].createdAt <= sessions[y].createdAt

Aged == Latest /\ ChosenOldest /\ OldestEvicted

LEMMA InitAged == Init /\ Planned => Aged
<1> SUFFICES ASSUME Init, Planned PROVE Aged
  OBVIOUS
<1>1. \A x \in Requests : req[x] = Idle /\ sessions[x] = NilSession
  BY Zenon DEF Init
<1>2. Idle.stage = "idle" /\ "idle" \notin Evicting
  BY DEF Idle, Evicting
<1>3. ActiveRows = {} /\ \A x \in Requests : sessions[x].status # SessionStatusRevoked
  BY <1>1 DEF ActiveRows, NilSession, SessionStatusActive, SessionStatusRevoked
<1>4. \A r \in Requests : Chosen(req[r]) = {}
  BY <1>1, <1>2, NoneChosen
<1>5. Latest
  BY <1>1 DEF Latest
<1>6. ChosenOldest /\ OldestEvicted
  BY <1>3, <1>4, Zenon DEF ChosenOldest, OldestEvicted
<1> QED BY <1>5, <1>6 DEF Aged

LEMMA StepLatest == Inv /\ AllAllowed /\ Alone /\ Latest /\ [Next]_vars => Latest'
<1> SUFFICES ASSUME Inv, AllAllowed, Alone, Latest, [Next]_vars PROVE Latest'
  OBVIOUS
<1>1. ASSUME NEW r \in Requests, Start(r) PROVE Latest'
  <2>1. /\ req'[r].now = clock /\ sessions' = sessions
        /\ \A o \in Requests \ {r} : req'[o] = req[o]
    BY <1>1, StartState DEF Quietly
  <2>2. \A x \in Requests : sessions[x] # NilSession => sessions[x].createdAt <= clock
    BY Zenon DEF AllAllowed
  <2>3. \A o \in InFlight' : o = r \/ (o \in InFlight /\ req'[o] = req[o])
    BY <2>1 DEF InFlight
  <2> QED BY <2>1, <2>2, <2>3, Zenon DEF Latest
<1>2. ASSUME NEW r \in Requests, Step(r) \/ CutOff(r), ~Opens(r) PROVE Latest'
  <2>1. sessions' = sessions
    <3>1. ASSUME Concludes(r) PROVE sessions' = sessions
      BY <3>1 DEF Concludes, CredentialWrites
    <3> QED BY <1>2, <3>1, NoCommit DEF Quietly
  <2>2. /\ r \in InFlight /\ InFlight' \subseteq InFlight
        /\ \A o \in Requests \ {r} : req'[o] = req[o]
    BY <1>2, OwnStep
  <2>3. r \in InFlight' => req'[r].now = req[r].now
    BY <1>2, NowStays DEF InFlight
  <2>4. \A o \in InFlight' : o \in InFlight /\ req'[o].now = req[o].now
    BY <2>2, <2>3 DEF InFlight
  <2> QED BY <2>1, <2>4, Zenon DEF Latest
<1>3. ASSUME NEW r \in Requests, Step(r) \/ CutOff(r), Opens(r) PROVE Latest'
  <2>1. req'[r].stage = "done"
    <3>1. \E response : Respond(r, response)
      BY <1>3, Zenon DEF Opens
    <3> QED BY <3>1, LocalState
  <2>2. \A o \in Requests \ {r} : req'[o].stage \in {"idle", "done"}
    BY <1>3, OthersOut
  <2>3. InFlight' = {}
    BY <2>1, <2>2 DEF InFlight
  <2> QED BY <2>3 DEF Latest
<1>4. ASSUME Tick \/ Elsewhere \/ Finished \/ UNCHANGED vars PROVE Latest'
  BY <1>4, Bystanders DEF Latest, InFlight, Quietly
<1> QED BY <1>1, <1>2, <1>3, <1>4, Zenon DEF Next

LEMMA StepChosenOldest ==
    ASSUME ConcurrentPolicy # "SINGLE", Inv, Planned, Planned', Alone, ChosenOldest, [Next]_vars
    PROVE  ChosenOldest'
<1>1. ASSUME sessions' = sessions,
             \A o \in Requests : \/ Chosen(req'[o]) = {} \/ Chosen(req'[o]) = Chosen(req[o])
                                 \/ \A x \in Chosen(req'[o]) :
                                       /\ x \in ActiveRows
                                       /\ \A y \in ActiveRows :
                                             sessions[x].createdAt <= sessions[y].createdAt
      PROVE  ChosenOldest'
  <2>1. ActiveRows' = ActiveRows
    BY <1>1 DEF ActiveRows
  <2> QED BY <1>1, <2>1, Zenon DEF ChosenOldest
<1>2. ASSUME NEW o \in Requests, req'[o].stage \notin Evicting PROVE Chosen(req'[o]) = {}
  <2>1. Plan(req[o])'
    BY DEF Planned
  <2>2. req'[o].evict = << >> /\ req'[o].evicted = {}
    BY <1>2, <2>1, Zenon DEF Plan, Evicting
  <2> QED BY <2>2, ChosenNone
<1>3. ASSUME NEW r \in Requests, Start(r) PROVE ChosenOldest'
  <2>1. /\ req'[r].stage = "rateLimit" /\ sessions' = sessions
        /\ \A o \in Requests \ {r} : req'[o] = req[o]
    BY <1>3, StartState DEF Quietly
  <2>2. Chosen(req'[r]) = {}
    BY <1>2, <2>1 DEF Evicting
  <2> QED BY <1>1, <2>1, <2>2
<1>4. ASSUME NEW r \in Requests, Step(r) \/ CutOff(r), req'[r].stage \in Evicting PROVE ChosenOldest'
  <2>1. /\ ~Concludes(r) /\ ~Opens(r)
        /\ Selects(r) \/ (req[r].stage \in Evicting /\ Chosen(req'[r]) = Chosen(req[r]))
    BY <1>4, EvictingStep
  <2>2. sessions' = sessions
    BY <1>4, <2>1, NoCommit DEF Quietly
  <2>3. \A o \in Requests \ {r} : req'[o] = req[o]
    BY <1>4, OwnStep
  <2>4. CASE Chosen(req'[r]) = Chosen(req[r])
    BY <1>1, <2>2, <2>3, <2>4
  <2>5. CASE Selects(r)
    <3>1. \/ Chosen(req'[r]) = {}
          \/ /\ ActiveRows # {}
             /\ \E q \in ByCreation(ActiveRows) :
                   Chosen(req'[r]) = IF Evictable(q[1], req[r].now) THEN {q[1]} ELSE {}
      BY <2>5, SelectedRows, Zenon
    <3>2. ASSUME ActiveRows # {}, NEW q \in ByCreation(ActiveRows)
          PROVE  /\ q[1] \in ActiveRows
                 /\ \A y \in ActiveRows : sessions[q[1]].createdAt <= sessions[y].createdAt
      <4>1. \A x \in ActiveRows : sessions[x].createdAt \in Nat
        BY ActiveRow, LocalState
      <4> QED BY <3>2, <4>1, ActiveCounted, OldestFirst
    <3>3. \A x \in Chosen(req'[r]) :
             x \in ActiveRows /\ \A y \in ActiveRows : sessions[x].createdAt <= sessions[y].createdAt
      BY <3>1, <3>2, Zenon
    <3> QED BY <1>1, <2>2, <2>3, <3>3
  <2> QED BY <2>1, <2>4, <2>5
<1>5. ASSUME NEW r \in Requests, Step(r) \/ CutOff(r), req'[r].stage \notin Evicting PROVE ChosenOldest'
  <2>1. Chosen(req'[r]) = {}
    BY <1>2, <1>5
  <2>2. \A o \in Requests \ {r} : req'[o].stage \notin Evicting
    BY <1>5, OthersOut DEF Evicting
  <2>3. \A o \in Requests : Chosen(req'[o]) = {}
    BY <1>2, <2>1, <2>2
  <2> QED BY <2>3, Zenon DEF ChosenOldest
<1>6. ASSUME Tick \/ Elsewhere \/ Finished \/ UNCHANGED vars PROVE ChosenOldest'
  BY <1>1, <1>6, Bystanders DEF Quietly
<1> QED BY <1>3, <1>4, <1>5, <1>6, Zenon DEF Next

LEMMA StepOldest ==
    Inv /\ Planned /\ Latest /\ ChosenOldest /\ OldestEvicted /\ [Next]_vars => OldestEvicted'
<1> SUFFICES ASSUME Inv, Planned, Latest, ChosenOldest, OldestEvicted, [Next]_vars
             PROVE  OldestEvicted'
  OBVIOUS
<1>1. ASSUME sessions' = sessions PROVE OldestEvicted'
  BY <1>1 DEF OldestEvicted, ActiveRows
<1>2. ASSUME NEW r \in Requests, Opens(r) PROVE OldestEvicted'
  <2>1. /\ sessions'[r].status = SessionStatusActive /\ sessions'[r].createdAt = req[r].now
        /\ \A x \in Requests \ {r} :
              /\ x \notin req[r].evicted => sessions'[x] = sessions[x]
              /\ x \in req[r].evicted =>
                    /\ sessions[x] # NilSession
                    /\ sessions'[x].status = SessionStatusRevoked
                    /\ sessions'[x].createdAt = sessions[x].createdAt
        /\ ActiveRows' = (ActiveRows \ req[r].evicted) \cup {r}
    BY <1>2, OpenRows
  <2>2. r \in InFlight
    BY <1>2 DEF Opens, InFlight
  <2>3. \A x \in req[r].evicted : x \in Chosen(req[r])
    BY DEF Chosen
  <2>4. SessionStatusActive # SessionStatusRevoked /\ NilSession.status # SessionStatusRevoked
    BY DEF SessionStatusActive, SessionStatusRevoked, NilSession
  <2> SUFFICES ASSUME NEW x \in Requests, sessions'[x].status = SessionStatusRevoked,
                      NEW y \in ActiveRows'
               PROVE  sessions'[x].createdAt <= sessions'[y].createdAt
    BY Zenon DEF OldestEvicted
  <2>5. x # r
    BY <2>1, <2>4
  <2>6. sessions[x] # NilSession /\ sessions'[x].createdAt = sessions[x].createdAt
    BY <2>1, <2>4, <2>5
  <2>7. CASE y = r
    <3>1. sessions[x].createdAt <= req[r].now
      BY <2>2, <2>6, Zenon DEF Latest
    <3> QED BY <2>1, <2>6, <2>7, <3>1
  <2>8. CASE y # r
    <3>1. y \in ActiveRows /\ y \notin req[r].evicted /\ y \in Requests
      BY <2>1, <2>8 DEF ActiveRows
    <3>2. sessions'[y] = sessions[y]
      BY <2>1, <2>8, <3>1
    <3>3. CASE x \in req[r].evicted
      <4>1. sessions[x].createdAt <= sessions[y].createdAt
        BY <2>3, <3>1, <3>3, Zenon DEF ChosenOldest
      <4> QED BY <2>6, <3>2, <4>1
    <3>4. CASE x \notin req[r].evicted
      <4>1. sessions[x].status = SessionStatusRevoked
        BY <2>1, <2>5, <3>4
      <4>2. sessions[x].createdAt <= sessions[y].createdAt
        BY <3>1, <4>1, Zenon DEF OldestEvicted
      <4> QED BY <2>6, <3>2, <4>2
    <3> QED BY <3>3, <3>4
  <2> QED BY <2>7, <2>8
<1>3. ASSUME NEW r \in Requests, Step(r) \/ CutOff(r), ~Opens(r) PROVE sessions' = sessions
  <2>1. ASSUME Concludes(r) PROVE sessions' = sessions
    BY <2>1 DEF Concludes, CredentialWrites
  <2> QED BY <1>3, <2>1, NoCommit DEF Quietly
<1>4. ASSUME NEW r \in Requests, Start(r) PROVE sessions' = sessions
  BY <1>4, StartState DEF Quietly
<1>5. ASSUME Tick \/ Elsewhere \/ Finished \/ UNCHANGED vars PROVE sessions' = sessions
  BY <1>5, Bystanders DEF Quietly
<1> QED BY <1>1, <1>2, <1>3, <1>4, <1>5, Zenon DEF Next

-----------------------------------------------------------------------------
(* One session, one login after the other.                                 *)

\* Under SINGLE every session that was in use when the request started is chosen.
Cleared ==
    \A r \in Requests : req[r].stage \in Evicting =>
        \A x \in ActiveRows : x \in Chosen(req[r]) \/ ~IsActive(sessions[x], req[r].now)

OneLive == \A x, y \in LiveSessions : x = y

LEMMA StepCleared ==
    ASSUME ConcurrentPolicy = "SINGLE", Inv, Planned, Alone, Cleared, [Next]_vars
    PROVE  Cleared'
<1>1. ASSUME sessions' = sessions,
             \A o \in Requests : req'[o].stage \in Evicting =>
                \/ /\ req[o].stage \in Evicting /\ req'[o].now = req[o].now
                   /\ Chosen(req'[o]) = Chosen(req[o])
                \/ \A x \in ActiveRows : x \in Chosen(req'[o]) \/ ~IsActive(sessions[x], req'[o].now)
      PROVE  Cleared'
  <2>1. ActiveRows' = ActiveRows
    BY <1>1 DEF ActiveRows
  <2> QED BY <1>1, <2>1, Zenon DEF Cleared
<1>2. ASSUME NEW r \in Requests, Start(r) PROVE Cleared'
  <2>1. /\ req'[r].stage = "rateLimit" /\ sessions' = sessions
        /\ \A o \in Requests \ {r} : req'[o] = req[o]
    BY <1>2, StartState DEF Quietly
  <2>2. req'[r].stage \notin Evicting
    BY <2>1 DEF Evicting
  <2> QED BY <1>1, <2>1, <2>2
<1>3. ASSUME NEW r \in Requests, Step(r) \/ CutOff(r), req'[r].stage \in Evicting PROVE Cleared'
  <2>1. /\ ~Concludes(r) /\ ~Opens(r) /\ req'[r].now = req[r].now
        /\ Selects(r) \/ (req[r].stage \in Evicting /\ Chosen(req'[r]) = Chosen(req[r]))
    BY <1>3, EvictingStep
  <2>2. sessions' = sessions
    BY <1>3, <2>1, SessionsStay
  <2>3. \A o \in Requests \ {r} : req'[o] = req[o]
    BY <1>3, OwnStep
  <2>4. CASE req[r].stage \in Evicting /\ Chosen(req'[r]) = Chosen(req[r])
    BY <1>1, <2>1, <2>2, <2>3, <2>4
  <2>5. CASE Selects(r)
    <3>1. Chosen(req'[r]) = {x \in ActiveRows : Evictable(x, req[r].now)}
      BY <2>5, SelectedRows
    <3>2. \A x \in ActiveRows : Evictable(x, req[r].now) <=> IsActive(sessions[x], req[r].now)
      BY ActiveRow, LocalState
    <3>3. \A x \in ActiveRows : x \in Chosen(req'[r]) \/ ~IsActive(sessions[x], req'[r].now)
      BY <2>1, <3>1, <3>2, Zenon
    <3> QED BY <1>1, <2>2, <2>3, <3>3
  <2> QED BY <2>1, <2>4, <2>5
<1>4. ASSUME NEW r \in Requests, Step(r) \/ CutOff(r), req'[r].stage \notin Evicting PROVE Cleared'
  <2>1. \A o \in Requests \ {r} : req'[o].stage \notin Evicting
    BY <1>4, OthersOut DEF Evicting
  <2> QED BY <1>4, <2>1, Zenon DEF Cleared
<1>5. ASSUME Tick \/ Elsewhere \/ Finished \/ UNCHANGED vars PROVE Cleared'
  BY <1>1, <1>5, Bystanders DEF Quietly
<1> QED BY <1>2, <1>3, <1>4, <1>5, Zenon DEF Next

LEMMA StepOneLive == Inv /\ Planned /\ Cleared /\ OneLive /\ [Next]_vars => OneLive'
<1> SUFFICES ASSUME Inv, Planned, Cleared, OneLive, [Next]_vars PROVE OneLive'
  OBVIOUS
<1>1. clock \in Nat
  BY Zenon DEF Inv
<1>2. ASSUME sessions' = sessions, clock' \in Nat, clock <= clock' PROVE OneLive'
  <2>1. ActiveRows' = ActiveRows
    BY <1>2 DEF ActiveRows
  <2>2. ASSUME NEW x \in ActiveRows, IsActive(sessions[x], clock') PROVE IsActive(sessions[x], clock)
    <3>1. sessions[x] \in Session
      BY <1>1, ActiveRow
    <3> QED BY <1>1, <1>2, <2>2, <3>1, ExpiryStays
  <2>3. LiveSessions' \subseteq LiveSessions
    BY <1>2, <2>1, <2>2, Zenon DEF LiveSessions
  <2> QED BY <2>3 DEF OneLive
<1>3. ASSUME NEW r \in Requests, Opens(r) PROVE OneLive'
  <2>1. /\ \A x \in Requests \ {r} : x \notin req[r].evicted => sessions'[x] = sessions[x]
        /\ ActiveRows' = (ActiveRows \ req[r].evicted) \cup {r}
    BY <1>3, OpenRows
  <2>2. req[r].stage = "txWrite" /\ clock' = clock
    BY <1>3 DEF Opens
  <2>3. req[r].evict = << >>
    BY <2>2, Zenon DEF Planned, Plan
  <2>4. Chosen(req[r]) = req[r].evicted
    <3>1. {<< >>[i] : i \in 1..Len(<< >>)} = {}
      OBVIOUS
    <3> QED BY <2>3, <3>1, Zenon DEF Chosen
  <2>5. req[r].now \in Nat /\ req[r].now <= clock
    BY LocalState, Zenon DEF Inv, Proper
  <2>6. ASSUME NEW x \in LiveSessions' PROVE x = r
    <3> SUFFICES ASSUME x # r PROVE FALSE
      OBVIOUS
    <3>1. x \in ActiveRows /\ x \notin req[r].evicted /\ x \in Requests
      BY <2>1 DEF LiveSessions, ActiveRows
    <3>2. IsActive(sessions[x], clock)
      BY <2>1, <2>2, <3>1 DEF LiveSessions
    <3>3. sessions[x] \in Session
      BY <1>1, <3>1, ActiveRow
    <3>4. IsActive(sessions[x], req[r].now)
      BY <1>1, <2>5, <3>2, <3>3, ExpiryStays
    <3>5. "txWrite" \in Evicting
      BY DEF Evicting
    <3> QED BY <2>2, <2>4, <3>1, <3>4, <3>5, Zenon DEF Cleared
  <2> QED BY <2>6 DEF OneLive
<1>4. ASSUME NEW r \in Requests, Start(r) \/ Step(r) \/ CutOff(r), ~Opens(r) PROVE OneLive'
  <2>1. sessions' = sessions /\ clock' = clock
    BY <1>4, SessionsStay
  <2>2. clock <= clock
    BY <1>1
  <2> QED BY <1>1, <1>2, <2>1, <2>2
<1>5. ASSUME Tick \/ Elsewhere \/ Finished \/ UNCHANGED vars PROVE OneLive'
  BY <1>2, <1>5, Bystanders DEF Quietly
<1> QED BY <1>3, <1>4, <1>5, Zenon DEF Next

-----------------------------------------------------------------------------
(* The invariants hold.                                                    *)

\* Sizes matter from here on.
INSTANCE FiniteSetTheorems

\* The requests are finitely many.
LEMMA Counts == Counted
<1> SUFFICES ASSUME NEW S \in SUBSET Requests
             PROVE  /\ Cardinality(S) \in Nat /\ (S # {} => Cardinality(S) # 0)
                    /\ \A q \in [1..Cardinality(S) -> S] :
                          (\A i, j \in 1..Cardinality(S) : q[i] = q[j] => i = j)
                              => \A x \in S : \E i \in 1..Cardinality(S) : q[i] = x
  BY DEF Counted
<1>1. IsFiniteSet(S)
  BY FS_Subset
<1>2. Cardinality(S) \in Nat /\ (S # {} => Cardinality(S) # 0)
  BY <1>1, FS_CardinalityType, FS_EmptySet
<1>3. ASSUME NEW n \in Nat, n = Cardinality(S), NEW q \in [1..n -> S],
             \A i, j \in 1..n : q[i] = q[j] => i = j
      PROVE  \A x \in S : \E i \in 1..n : q[i] = x
  <2>1. q \in Injection(1..n, S)
    BY <1>3 DEF Injection, IsInjective
  <2>2. IsFiniteSet(1..n) /\ Cardinality(1..n) = n
    BY FS_Interval
  <2>3. q \in Surjection(1..n, S)
    BY <1>1, <1>3, <2>1, <2>2, FS_Injection
  <2> QED BY <2>3 DEF Surjection
<1> QED BY <1>2, <1>3

\* Every behaviour starts with the invariant.
LEMMA InitAll == Init => Inv
BY Counts, InitInv

\* Overlapping logins write back old copies of the credential, but never a row
\* whose counter, lock and ladder disagree, or that cannot be read back.
THEOREM CredentialRowAlwaysSound == Spec => []CredentialRowSound
BY SoundRow, InitAll, StepInv, PTL DEF Spec

\* Every login keeps its promise, through every failed call, unreported commit
\* and cut: Login implements LoginPromise.
THEOREM LoginKeepsPromise == Spec => KeepsPromise
BY InitPromise, StepPromise, InitAll, StepInv, PTL DEF Spec, KeepsPromise, Promise!PSpec

\* A login that began after a factor was enrolled or the device revoked opens
\* no session by password alone, whatever it read before.
THEOREM SecondFactorAlwaysDemanded == Spec => []SecondFactorDemanded
<1>1. AllAllowed => SecondFactorDemanded
  BY Zenon DEF AllAllowed, Allowed, SecondFactorDemanded
<1> QED BY <1>1, InitAll, StepInv, InitAllowed, StepAllowed, PTL DEF Spec

\* The session, token family, attempt and event of a login exist together or not
\* at all, whichever call fails and wherever the request is cut off.
THEOREM LoginAlwaysAtomic == Spec => []LoginIsAtomic
BY Atomic, InitAll, StepInv, InitAllowed, StepAllowed, InitOnRecord, StepOnRecord, PTL DEF Spec

\* The tables and the requests' locals keep their types.
THEOREM LoginTypeCorrect == Spec => []TypeOK
<1>1. Inv /\ OnRecord => TypeOK
  BY Zenon DEF Inv, OnRecord, TypeOK, Sound, DeviceRow
<1> QED BY <1>1, InitAll, StepInv, InitAllowed, StepAllowed, InitOnRecord, StepOnRecord, PTL DEF Spec

\* Where the idle timeout is at least a second, every row that a policy query
\* selects can be read back, unless its client had no address.
THEOREM RowsAlwaysReadable ==
    ASSUME IdleTimeout >= Second
    PROVE  Spec => []SessionRowsReadable
<1>1. Init => RowsValid
  BY Zenon DEF Init, RowsValid
<1> QED BY <1>1, ReadableRows, InitAll, StepInv, StepRowsValid, PTL DEF Spec

\* The answer to a login agrees with what is stored, at every moment and through
\* every failure: COMPLETED only with a session, which is otherwise hidden only
\* by a commit that went unreported; MFA_REQUIRED only with a stored challenge,
\* and then with no session; a refusal only with its own outcome on record or
\* none (login.go:29-385).
THEOREM AnswersAlwaysAgree == Spec => []AnswersAgree
<1>1. AnswersAgree /\ Inv /\ [Next]_vars => AnswersAgree'
  BY StepPromise, PromiseAgree
<1> QED BY <1>1, InitAgree, InitAll, StepInv, PTL DEF Spec

\* A login's steps only lead forward: to a later stage, or to one row fewer to
\* evict.  No call is repeated, so a request has finitely many steps.
RequestsMoveOn == [][\A r \in Requests : req'[r] # req[r] => MovesOn(req[r], req'[r])]_vars

\* Whatever fails, Login moves on from call to call and never goes back
\* (login.go:29-385): the measure behind its termination.
THEOREM RequestsAlwaysMoveOn == Spec => RequestsMoveOn
<1>1. Inv /\ [Next]_vars =>
         [\A r \in Requests : req'[r] # req[r] => MovesOn(req[r], req'[r])]_vars
  BY StepOnward
<1> QED BY <1>1, InitAll, StepInv, PTL DEF Spec, RequestsMoveOn

\* A request waits for a row lock of a request that is still running, and when
\* all that run wait, they wait for each other in a circle, which Postgres
\* breaks.
NoStandstill ==
    /\ \A r, o \in Requests : Waits(r, o) => o \in InFlight
    /\ (\A r \in InFlight : \E o \in Requests : Waits(r, o)) =>
          \A r \in InFlight : \E cycle \in SUBSET Requests :
              r \in cycle /\ \A x \in cycle : \E o \in cycle : Waits(x, o)

\* Logins never stand still for good: a row lock is let go with the transaction
\* that took it, so whoever waits waits for one that can go on or for a circle
\* that the deadlock detector ends (session.go:53-71, login.go:391-428).
THEOREM LoginsNeverStandStill == Spec => []NoStandstill
<1>1. Planned => NoStandstill
  <2> SUFFICES ASSUME Planned PROVE NoStandstill
    OBVIOUS
  <2>1. \A r, o \in Requests : Waits(r, o) => o \in InFlight
    BY HoldersRun
  <2>2. ASSUME \A r \in InFlight : \E o \in Requests : Waits(r, o), NEW r \in InFlight
        PROVE  \E cycle \in SUBSET Requests :
                  r \in cycle /\ \A x \in cycle : \E o \in cycle : Waits(x, o)
    <3>1. InFlight \in SUBSET Requests
      BY DEF InFlight
    <3>2. \A x \in InFlight : \E o \in InFlight : Waits(x, o)
      BY <2>1, <2>2, <3>1, Zenon
    <3> QED BY <3>1, <3>2, Zenon
  <2> QED BY <2>1, <2>2, Zenon DEF NoStandstill
<1> QED BY <1>1, InitAll, StepInv, InitPlanned, StepPlanned, PTL DEF Spec

\* A session once stored is never deleted, renewed or otherwise altered by a
\* login, however many overlap: the policy's eviction is all that can happen to
\* it, and leaves its level, its times and its limits as they were.
LoginsOnlyEnd ==
    [][\A x \in Requests : sessions[x] # NilSession => Stays(sessions[x], sessions'[x])]_vars

\* The UPDATE of session.go:53-71, which applyConcurrentSessionPolicy issues for
\* the rows it chose (login.go:391-428), is the only write to an existing session.
THEOREM LoginsAlwaysOnlyEnd == Spec => LoginsOnlyEnd
<1>1. Inv /\ [Next]_vars =>
         [\A x \in Requests : sessions[x] # NilSession => Stays(sessions[x], sessions'[x])]_vars
  BY StepStays
<1> QED BY <1>1, InitAll, StepInv, PTL DEF Spec, LoginsOnlyEnd

\* What has ended stays as it ended.
EndedStays ==
    [][\A x \in Requests :
          sessions[x] # NilSession /\ sessions[x].status # SessionStatusActive
              => sessions'[x] = sessions[x]]_vars

\* Of logins that do not overlap, an ended session keeps the time and the reason
\* of its end.  The UPDATE (session.go:53-71) does not ask for the row's status:
\* that the row is still active follows from how it was chosen.
THEOREM SerialEndedStays ==
    ASSUME MaxInFlight <= 1
    PROVE  Spec => EndedStays
<1>1. Init => Alone
  BY StepAlone
<1>2. Inv /\ Alone /\ [Next]_vars => Alone'
  BY StepAlone
<1>3. Inv /\ Planned /\ Planned' /\ Alone /\ ChosenActive /\ [Next]_vars => ChosenActive'
  BY StepChosenActive
<1>4. Inv /\ Planned /\ ChosenActive /\ [Next]_vars =>
         [\A x \in Requests :
             sessions[x] # NilSession /\ sessions[x].status # SessionStatusActive
                 => sessions'[x] = sessions[x]]_vars
  BY StepEnded
<1> QED BY <1>1, <1>2, <1>3, <1>4, InitAll, StepInv, InitPlanned, StepPlanned, InitChosenActive,
           PTL DEF Spec, EndedStays

\* Of logins that do not overlap, none writes the credential while it is locked:
\* an attempt during a lock neither prolongs it nor adds to the counter
\* (login.go:63-88, 156-182).
THEOREM SerialLockedRowUntouched ==
    ASSUME MaxInFlight <= 1
    PROVE  Spec => LockedRowUntouched
<1>1. Init => Alone
  BY StepAlone
<1>2. Inv /\ Alone /\ [Next]_vars => Alone'
  BY StepAlone
<1>3. Inv /\ Alone /\ Unbarred /\ [Next]_vars =>
         Unbarred' /\ [IsLocked(credRow, clock) => credRow' = credRow]_vars
  BY StepUnbarred
<1> QED BY <1>1, <1>2, <1>3, InitAll, StepInv, InitUnbarred, PTL DEF Spec, LockedRowUntouched

\* No session exists and nobody was told of one.
NoneOpened == Opened = {}
NobodyIn == NoneOpened /\ \A r \in Requests : req[r].response # "COMPLETED"

\* validate (config.go:215-294) accepts an idle timeout above the absolute
\* lifetime, which SessionPolicy.Validate refuses at every login: under such a
\* configuration the service runs, and no login ever completes.
THEOREM RefusedPolicyAdmitsNobody ==
    ASSUME ~SessionPolicyValid
    PROVE  Spec => []NobodyIn
<1>1. Init => NoneOpened
  BY Zenon DEF Init, Opened, NoneOpened
<1>2. Inv /\ NoneOpened /\ [Next]_vars => NoneOpened'
  BY StepRefusedPolicy DEF NoneOpened
<1>3. AnswersAgree /\ NoneOpened => NobodyIn
  <2> SUFFICES ASSUME AnswersAgree, NoneOpened, NEW r \in Requests
               PROVE  req[r].response # "COMPLETED"
    BY DEF NobodyIn
  <2>1. Agree(attempts[r], r \in Opened, r \in mfaStore, Answer[r])
    BY Zenon DEF AnswersAgree
  <2>2. Answer[r] # "COMPLETED"
    BY <2>1 DEF Agree, NoneOpened
  <2> QED BY <2>2 DEF Answer
<1> QED BY <1>1, <1>2, <1>3, AnswersAlwaysAgree, InitAll, StepInv, PTL DEF Spec

-----------------------------------------------------------------------------
(* Counting the locks on record.                                           *)

\* In the outbox, and among an aggregate's pending events.
Locks(q) == {i \in 1..Len(q) : q[i].event.type = "AccountLocked"}

LocksIn(events) == {i \in 1..Len(events) : events[i].type = "AccountLocked"}

LEMMA LocksFinite ==
    ASSUME NEW E, NEW q \in Seq(E)
    PROVE  /\ IsFiniteSet(Locks(q)) /\ Cardinality(Locks(q)) \in Nat
           /\ IsFiniteSet(LocksIn(q)) /\ Cardinality(LocksIn(q)) \in Nat
<1>1. IsFiniteSet(1..Len(q))
  BY FS_Interval
<1>2. Locks(q) \in SUBSET (1..Len(q)) /\ LocksIn(q) \in SUBSET (1..Len(q))
  BY DEF Locks, LocksIn
<1> QED BY <1>1, <1>2, FS_Subset, FS_CardinalityType

LEMMA CountConcat ==
    ASSUME NEW E, NEW p \in Seq(E), NEW q \in Seq(E)
    PROVE  Cardinality(Locks(p \o q)) = Cardinality(Locks(p)) + Cardinality(Locks(q))
<1> DEFINE n == Len(p)
           f == [i \in Locks(q) |-> i + n]
           T == {i \in (n + 1)..(n + Len(q)) : i - n \in Locks(q)}
<1>1. n \in Nat /\ Len(q) \in Nat /\ p \o q \in Seq(E) /\ Len(p \o q) = n + Len(q)
  OBVIOUS
<1>2. /\ \A i \in 1..n : (p \o q)[i] = p[i]
      /\ \A i \in (n + 1)..(n + Len(q)) : (p \o q)[i] = q[i - n]
  OBVIOUS
<1> HIDE DEF n
<1>3. Locks(p \o q) = Locks(p) \cup T
  <2>1. ASSUME NEW i PROVE i \in Locks(p \o q) <=> i \in Locks(p) \cup T
    <3>1. CASE i \in 1..n
      <4>1. i \in 1..(n + Len(q)) /\ i \notin T /\ (p \o q)[i] = p[i]
        BY <1>1, <1>2, <3>1
      <4> QED BY <1>1, <3>1, <4>1 DEF Locks, n
    <3>2. CASE i \in (n + 1)..(n + Len(q))
      <4>1. /\ i \in 1..(n + Len(q)) /\ i \notin 1..n /\ i - n \in 1..Len(q)
            /\ (p \o q)[i] = q[i - n]
        BY <1>1, <1>2, <3>2
      <4> QED BY <1>1, <3>2, <4>1 DEF Locks, n
    <3>3. CASE i \notin 1..n /\ i \notin (n + 1)..(n + Len(q))
      <4>1. i \notin 1..(n + Len(q))
        BY <1>1, <3>3
      <4> QED BY <1>1, <3>3, <4>1 DEF Locks, n
    <3> QED BY <3>1, <3>2, <3>3
  <2> QED BY <2>1
<1>4. Locks(p) \cap T = {}
  BY <1>1 DEF Locks, n
<1>5. ExistsBijection(Locks(q), T)
  <2>1. \A i \in Locks(q) : i \in 1..Len(q)
    BY DEF Locks
  <2>2. f \in [Locks(q) -> T]
    <3>1. \A i \in Locks(q) : i + n \in (n + 1)..(n + Len(q)) /\ (i + n) - n = i
      BY <1>1, <2>1
    <3> QED BY <3>1
  <2>3. f \in Injection(Locks(q), T)
    <3>1. \A i, j \in Locks(q) : f[i] = f[j] => i = j
      BY <1>1, <2>1
    <3> QED BY <2>2, <3>1 DEF Injection, IsInjective
  <2>4. f \in Surjection(Locks(q), T)
    <3>1. \A t \in T : \E i \in Locks(q) : f[i] = t
      <4>1. \A t \in T : t - n \in Locks(q) /\ (t - n) + n = t
        BY <1>1
      <4> QED BY <4>1
    <3> QED BY <2>2, <3>1 DEF Surjection
  <2>5. f \in Bijection(Locks(q), T)
    BY <2>3, <2>4 DEF Bijection
  <2> QED BY <2>5 DEF ExistsBijection
<1>6. /\ IsFiniteSet(Locks(p)) /\ Cardinality(Locks(p)) \in Nat
      /\ IsFiniteSet(Locks(q)) /\ Cardinality(Locks(q)) \in Nat
  BY LocksFinite
<1> HIDE DEF T, f
<1>7. IsFiniteSet(T) /\ Cardinality(T) = Cardinality(Locks(q))
  BY <1>5, <1>6, FS_Bijection
<1>8. Cardinality(Locks(p) \cup T) = Cardinality(Locks(p)) + Cardinality(T) - Cardinality(Locks(p) \cap T)
  BY <1>6, <1>7, FS_Union
<1>9. Cardinality(Locks(p) \cap T) = 0
  BY <1>4, FS_EmptySet, Zenon
<1> QED BY <1>3, <1>6, <1>7, <1>8, <1>9

LEMMA CountAppend ==
    ASSUME NEW E, NEW q \in Seq(E), NEW e \in E
    PROVE  /\ e.type # "AccountLocked" => LocksIn(Append(q, e)) = LocksIn(q)
           /\ e.type = "AccountLocked" =>
                 Cardinality(LocksIn(Append(q, e))) = Cardinality(LocksIn(q)) + 1
<1> DEFINE n == Len(q) + 1
           a == Append(q, e)
<1>1. /\ Len(q) \in Nat /\ Len(a) = n /\ a[n] = e /\ \A i \in 1..Len(q) : a[i] = q[i]
      /\ 1..n = 1..Len(q) \cup {n} /\ n \notin 1..Len(q)
  OBVIOUS
<1> HIDE DEF n, a
<1>2. e.type # "AccountLocked" => LocksIn(a) = LocksIn(q)
  BY <1>1 DEF LocksIn
<1>3. e.type = "AccountLocked" => LocksIn(a) = LocksIn(q) \cup {n} /\ n \notin LocksIn(q)
  BY <1>1 DEF LocksIn
<1>4. IsFiniteSet(LocksIn(q)) /\ Cardinality(LocksIn(q)) \in Nat
  BY LocksFinite
<1>5. n \notin LocksIn(q) => Cardinality(LocksIn(q) \cup {n}) = Cardinality(LocksIn(q)) + 1
  BY <1>4, FS_AddElement, Zenon
<1> QED BY <1>2, <1>3, <1>5, Zenon DEF a

LEMMA CountNone == Cardinality(LocksIn(<< >>)) = 0 /\ Cardinality(Locks(<< >>)) = 0
<1>1. \A i \in 1..Len(<< >>) : FALSE
  OBVIOUS
<1>2. LocksIn(<< >>) = {} /\ Locks(<< >>) = {}
  BY <1>1, Zenon DEF LocksIn, Locks
<1> QED BY <1>2, FS_EmptySet, Zenon

\* An aggregate's events become rows of the outbox one by one.
LEMMA CountRows ==
    ASSUME NEW aggregate, NEW E, NEW events \in Seq(E)
    PROVE  Locks(OutboxRows(aggregate, events)) = LocksIn(events)
<1>1. Len(OutboxRows(aggregate, events)) = Len(events)
  BY DEF OutboxRows
<1>2. \A i \in 1..Len(events) : OutboxRows(aggregate, events)[i].event = events[i]
  BY DEF OutboxRows, OutboxRow
<1> QED BY <1>1, <1>2 DEF Locks, LocksIn

-----------------------------------------------------------------------------
(* The locks of one verification.                                          *)

\* The lock that c is under is among its pending events.
Told(c) ==
    c.lockoutStatus # LockoutUnlocked =>
        \E i \in 1..Len(c.events) : c.events[i] = AccountLocked(c.lockoutStatus, c.lockedUntil)

\* Lifting an elapsed lock records no lock.
LEMMA LiftTally ==
    ASSUME NEW c, Sound(c), NEW now \in Nat
    PROVE  LocksIn(EnsureVerifiable(c, now).agg.events) = LocksIn(c.events)
<1>1. c \in Credential /\ c.events \in Seq(CredentialEvent)
  BY DEF Sound, Credential
<1>2. CASE IsLocked(c, now)
  BY <1>2 DEF EnsureVerifiable, Fail
<1>3. CASE ~IsLocked(c, now) /\ c.lockoutStatus = LockoutUnlocked
  BY <1>3 DEF EnsureVerifiable, Ok
<1>4. CASE ~IsLocked(c, now) /\ c.lockoutStatus # LockoutUnlocked
  <2> DEFINE e == AccountUnlocked("", c.lockoutStatus)
  <2>1. EnsureVerifiable(c, now) = Ok(unlock(c, ""))
    BY <1>4 DEF EnsureVerifiable
  <2>2. EnsureVerifiable(c, now).agg = unlock(c, "")
    BY <2>1, OkFields, Zenon
  <2>3. unlock(c, "").events = Append(c.events, e)
    BY <1>1, Zenon DEF unlock, Record, Credential
  <2>4. e \in CredentialEvent
    BY <1>1, EventTypes, Zenon DEF Credential, IdentityRef
  <2>5. e.type # "AccountLocked"
    BY DEF AccountUnlocked
  <2>6. LocksIn(Append(c.events, e)) = LocksIn(c.events)
    BY <1>1, <2>4, <2>5, CountAppend, Zenon
  <2> QED BY <2>2, <2>3, <2>6, Zenon
<1> QED BY <1>2, <1>3, <1>4

\* A counted failure either leaves the credential unlocked and records no lock,
\* or adds one to the escalation counter and records the lock it is under.
LEMMA FailureTally ==
    ASSUME NEW c, Sound(c), c.lockoutStatus = LockoutUnlocked, NEW now \in Nat
    PROVE  LET d == CountFailure(c, now)
           IN  \/ /\ d.lockoutHistoryCount = c.lockoutHistoryCount
                  /\ d.lockoutStatus = LockoutUnlocked
                  /\ LocksIn(d.events) = LocksIn(c.events)
               \/ /\ d.lockoutHistoryCount = c.lockoutHistoryCount + 1
                  /\ Cardinality(LocksIn(d.events)) = Cardinality(LocksIn(c.events)) + 1
                  /\ Told(d)
<1> DEFINE n == FailuresSoFar(c, now) + 1
           b == [c EXCEPT !.failedAttemptCount = n, !.lastFailedAt = now]
           e == LoginFailed("INVALID_CREDENTIALS", n)
           f == Record(b, e)
           d == CountFailure(c, now)
<1>1. n \in Nat /\ c.events \in Seq(CredentialEvent) /\ c \in Credential
  BY DEF FailuresSoFar, Sound, Credential
<1>2. e \in CredentialEvent /\ e.type # "AccountLocked"
  BY <1>1, EventTypes DEF LoginFailed
<1>3. d = IF n >= Threshold THEN lock(f, now) ELSE f
  BY DEF CountFailure
<1> HIDE DEF n
<1>4. /\ f.events = Append(c.events, e) /\ f.lockoutStatus = c.lockoutStatus
      /\ f.lockoutHistoryCount = c.lockoutHistoryCount
  BY <1>1 DEF Record, Credential
<1>5. b \in Credential
  BY <1>1, Zenon DEF Credential, OptTime
<1>6. f \in Credential
  BY <1>2, <1>5, RecordType
<1> HIDE DEF e, f, b, d
<1>7. LocksIn(f.events) = LocksIn(c.events) /\ f.events \in Seq(CredentialEvent)
  BY <1>1, <1>2, <1>4, CountAppend
<1>8. CASE ~(n >= Threshold)
  BY <1>3, <1>4, <1>7, <1>8, Zenon DEF d
<1>9. CASE n >= Threshold
  <2> DEFINE k    == f.lockoutHistoryCount + 1
             temp == k <= Len(TemporaryDurations)
             st   == IF temp THEN LockoutTemporary ELSE LockoutPermanent
             til  == IF temp THEN now + TemporaryDurations[k] ELSE NoTime
             a    == AccountLocked(st, til)
             g    == [f EXCEPT !.lockoutHistoryCount = k,
                               !.lockedAt = now,
                               !.lockoutStatus = st,
                               !.lockedUntil = til]
  <2>1. d = Record(g, a)
    BY <1>3, <1>9 DEF lock
  <2>2. k \in Nat /\ k >= 1
    BY <1>6 DEF Credential
  <2> HIDE DEF k
  <2>3. temp => TemporaryDurations[k] \in Nat
    <3>1. k <= Len(TemporaryDurations) => k \in 1..Len(TemporaryDurations)
      BY <2>2, LockoutPolicyValid
    <3> QED BY <3>1, LockoutPolicyValid
  <2>4. st \in LockoutStatus /\ til \in OptTime
    BY <2>2, <2>3 DEF LockoutStatus, OptTime
  <2>5. a \in CredentialEvent /\ a.type = "AccountLocked"
    BY <2>4, EventTypes DEF AccountLocked
  <2> HIDE DEF temp, st, til
  <2>6. /\ d.lockoutHistoryCount = k /\ d.lockoutStatus = st /\ d.lockedUntil = til
        /\ d.events = Append(f.events, a)
    BY <1>6, <2>1 DEF Record, Credential
  <2> HIDE DEF a, g
  <2>7. Cardinality(LocksIn(d.events)) = Cardinality(LocksIn(f.events)) + 1
    BY <1>7, <2>5, <2>6, CountAppend
  <2>8. Len(f.events) + 1 \in 1..Len(d.events) /\ d.events[Len(f.events) + 1] = a
    BY <1>7, <2>5, <2>6
  <2>9. Told(d)
    BY <2>6, <2>8, Zenon DEF Told, a
  <2>10. d.lockoutHistoryCount = c.lockoutHistoryCount + 1
    BY <1>4, <2>6 DEF k
  <2> QED BY <1>7, <2>7, <2>9, <2>10 DEF d
<1> QED BY <1>8, <1>9

\* The credential a request holds once it has read c at time now.
Verified(c, now) ==
    {RecordFailedAttempt(EnsureVerifiable(c, now).agg, now).agg,
     RecordSuccessfulVerification(EnsureVerifiable(c, now).agg, now).agg}

\* Its pending locks are exactly the ones it counts beyond those of c.
LEMMA VerifiedTally ==
    ASSUME NEW c, Sound(c), Snapshot(c) = c, NEW now \in Nat,
           ~IsLocked(c, now), NEW d \in Verified(c, now)
    PROVE  /\ d.events \in Seq(CredentialEvent) /\ d.lockoutHistoryCount \in Nat
           /\ d.lockoutHistoryCount = c.lockoutHistoryCount + Cardinality(LocksIn(d.events))
           /\ Told(d)
<1> DEFINE v == EnsureVerifiable(c, now)
           u == EnsureVerifiable(v.agg, now)
<1>1. /\ Sound(v.agg) /\ v.agg.lockoutStatus = LockoutUnlocked
      /\ v.agg.lockoutHistoryCount = c.lockoutHistoryCount
      /\ LocksIn(v.agg.events) = LocksIn(c.events)
  BY EnsureVerifiableSound, LiftTally, Zenon
<1>2. Cardinality(LocksIn(c.events)) = 0
  <2>1. c \in Credential
    BY DEF Sound
  <2>2. c.events = << >>
    BY <2>1 DEF Snapshot, ClearEvents, Credential
  <2> QED BY <2>2, CountNone, Zenon
<1>3. u = Ok(v.agg)
  <2>1. ~IsLocked(v.agg, now)
    BY <1>1 DEF IsLocked, LockoutUnlocked, LockoutTemporary, LockoutPermanent
  <2> QED BY <1>1, <2>1, Zenon DEF EnsureVerifiable
<1> HIDE DEF v, u
<1>4. u.agg = v.agg /\ u.err = ""
  BY <1>3, OkFields, Zenon
<1> DEFINE b == v.agg
           x == CountFailure(b, now)
           y == [b EXCEPT !.failedAttemptCount = 0, !.lastFailedAt = NoTime]
<1>5. RecordFailedAttempt(b, now).agg = x
  <2>1. RecordFailedAttempt(b, now) = Ok(CountFailure(u.agg, now))
    BY <1>4, Zenon DEF RecordFailedAttempt, u
  <2>2. RecordFailedAttempt(b, now) = Ok(x)
    BY <1>4, <2>1, Zenon
  <2> HIDE DEF x, b
  <2> QED BY <2>2, OkFields, Zenon
<1>6. RecordSuccessfulVerification(b, now).agg = y
  <2>1. RecordSuccessfulVerification(b, now) =
           Ok([u.agg EXCEPT !.failedAttemptCount = 0, !.lastFailedAt = NoTime])
    BY <1>4, Zenon DEF RecordSuccessfulVerification, u
  <2>2. RecordSuccessfulVerification(b, now) = Ok(y)
    BY <1>4, <2>1, Zenon
  <2> HIDE DEF y, b
  <2> QED BY <2>2, OkFields, Zenon
<1>7. d = x \/ d = y
  BY <1>5, <1>6, ZenonT(30) DEF Verified, v
<1>8. b \in Credential /\ c \in Credential /\ c.lockoutHistoryCount \in Nat
  BY <1>1 DEF Sound, Credential
<1>9. CASE d = x
  <2>1. Sound(x)
    BY <1>1, CountFailureSound, SMTT(20)
  <2>2. x.events \in Seq(CredentialEvent) /\ x.lockoutHistoryCount \in Nat
    BY <2>1 DEF Sound, Credential
  <2>3. \/ /\ x.lockoutHistoryCount = b.lockoutHistoryCount
           /\ x.lockoutStatus = LockoutUnlocked
           /\ LocksIn(x.events) = LocksIn(b.events)
        \/ /\ x.lockoutHistoryCount = b.lockoutHistoryCount + 1
           /\ Cardinality(LocksIn(x.events)) = Cardinality(LocksIn(b.events)) + 1
           /\ Told(x)
    BY <1>1, FailureTally
  <2> HIDE DEF x, b
  <2>4. x.lockoutStatus = LockoutUnlocked => Told(x)
    BY DEF Told
  <2>5. Told(x)
    BY <2>3, <2>4, Zenon
  <2>6. x.lockoutHistoryCount = c.lockoutHistoryCount + Cardinality(LocksIn(x.events))
    <3>1. Cardinality(LocksIn(b.events)) = 0 /\ b.lockoutHistoryCount = c.lockoutHistoryCount
      BY <1>1, <1>2, Zenon DEF b
    <3>2. CASE x.lockoutHistoryCount = b.lockoutHistoryCount /\ LocksIn(x.events) = LocksIn(b.events)
      BY <1>8, <3>1, <3>2
    <3>3. CASE /\ x.lockoutHistoryCount = b.lockoutHistoryCount + 1
               /\ Cardinality(LocksIn(x.events)) = Cardinality(LocksIn(b.events)) + 1
      BY <1>8, <3>1, <3>3
    <3> QED BY <2>3, <3>2, <3>3, Zenon
  <2> QED BY <1>9, <2>2, <2>5, <2>6, Zenon
<1>10. CASE d = y
  <2>1. /\ y.events = b.events /\ y.lockoutHistoryCount = b.lockoutHistoryCount
        /\ y.lockoutStatus = b.lockoutStatus
    BY <1>8 DEF Credential
  <2>2. b.events \in Seq(CredentialEvent)
    BY <1>8 DEF Credential
  <2> HIDE DEF y
  <2>3. Told(y)
    BY <1>1, <2>1 DEF Told
  <2>4. Cardinality(LocksIn(y.events)) = 0 /\ y.lockoutHistoryCount = c.lockoutHistoryCount
    BY <1>1, <1>2, <2>1, Zenon
  <2>5. y.lockoutHistoryCount = c.lockoutHistoryCount + Cardinality(LocksIn(y.events))
    BY <1>8, <2>4
  <2> QED BY <1>8, <1>10, <2>1, <2>2, <2>3, <2>4, <2>5, Zenon
<1> QED BY <1>7, <1>9, <1>10

-----------------------------------------------------------------------------
(* Locks on record, whatever overlaps.                                     *)

\* The row q[j] of the outbox is event e of the credential.
Filed(q, e) == \E j \in 1..Len(q) : q[j] = OutboxRow("credential", e)

LEMMA FiledConcat ==
    ASSUME NEW E, NEW p \in Seq(E), NEW q \in Seq(E), NEW e
    PROVE  Filed(p, e) \/ Filed(q, e) => Filed(p \o q, e)
<1>1. Len(p \o q) = Len(p) + Len(q) /\ Len(p) \in Nat /\ Len(q) \in Nat
  OBVIOUS
<1>2. \A i \in 1..Len(p) : i \in 1..Len(p \o q) /\ (p \o q)[i] = p[i]
  BY <1>1
<1>3. \A i \in 1..Len(q) : i + Len(p) \in 1..Len(p \o q) /\ (p \o q)[i + Len(p)] = q[i]
  BY <1>1, SMTT(20)
<1> QED BY <1>2, <1>3, Zenon DEF Filed

\* A commit stores the credential the request holds, and its events with it.
LEMMA CommitLocks ==
    ASSUME Inv, OnRecord, NEW r \in Requests, Concludes(r) \/ Opens(r)
    PROVE  /\ req[r].stage \in CredentialStages
           /\ credRow'.lockoutHistoryCount = req[r].cred.lockoutHistoryCount
           /\ credRow'.lockoutStatus = req[r].cred.lockoutStatus
           /\ credRow'.lockedUntil = req[r].cred.lockedUntil
           /\ Cardinality(Locks(outbox')) =
                 Cardinality(Locks(outbox)) + Cardinality(LocksIn(req[r].cred.events))
           /\ \A e : Filed(outbox, e) => Filed(outbox', e)
           /\ \A i \in 1..Len(req[r].cred.events) : Filed(outbox', req[r].cred.events[i])
<1> DEFINE c == req[r].cred
           p == OutboxRows("credential", c.events)
<1>1. req[r].stage \in CredentialStages
  BY DEF Concludes, Opens, CredentialStages, SessionStages
<1>2. Sound(c)
  BY <1>1, Zenon DEF Inv, Proper
<1>3. c \in Credential /\ c.events \in Seq(CredentialEvent)
  BY <1>2 DEF Sound, Credential
<1>4. credRow' = Snapshot(c)
  BY Zenon DEF Concludes, Opens, CredentialWrites, SessionWrites
<1>5. /\ credRow'.lockoutHistoryCount = c.lockoutHistoryCount
      /\ credRow'.lockoutStatus = c.lockoutStatus
      /\ credRow'.lockedUntil = c.lockedUntil
  BY <1>3, <1>4 DEF Snapshot, ClearEvents, Credential
<1>6. /\ p \in Seq(OutboxEvent) /\ outbox \in Seq(OutboxEvent)
      /\ outbox \o p \in Seq(OutboxEvent)
  BY <1>3, CredentialRows DEF OnRecord
<1>7. /\ Cardinality(Locks(outbox \o p)) = Cardinality(Locks(outbox)) + Cardinality(LocksIn(c.events))
      /\ Cardinality(Locks(outbox)) \in Nat /\ Cardinality(LocksIn(c.events)) \in Nat
  <2>1. Cardinality(Locks(outbox \o p)) = Cardinality(Locks(outbox)) + Cardinality(Locks(p))
    BY <1>6, CountConcat
  <2>2. Locks(p) = LocksIn(c.events)
    BY <1>3, CountRows
  <2>3. Cardinality(Locks(outbox)) \in Nat /\ Cardinality(LocksIn(c.events)) \in Nat
    BY <1>3, <1>6, LocksFinite
  <2> QED BY <2>1, <2>2, <2>3, Zenon
<1>8. \A i \in 1..Len(c.events) : Filed(p, c.events[i])
  <2>1. Len(p) = Len(c.events) /\ \A i \in 1..Len(c.events) : p[i] = OutboxRow("credential", c.events[i])
    BY <1>3 DEF OutboxRows
  <2> QED BY <2>1, Zenon DEF Filed
<1>9. /\ \A e : Filed(outbox, e) => Filed(outbox \o p, e)
      /\ \A i \in 1..Len(c.events) : Filed(outbox \o p, c.events[i])
  BY <1>6, <1>8, FiledConcat
<1>10. CASE Concludes(r)
  <2>1. outbox' = outbox \o p
    BY <1>10, Zenon DEF Concludes, CredentialWrites
  <2> HIDE DEF p, c
  <2> QED BY <1>1, <1>5, <1>7, <1>9, <2>1, Zenon DEF c
<1>11. CASE Opens(r)
  <2> DEFINE session == NewAuthenticationSession("AAL1", {}, req[r].now).agg
             e == SessionCreated("AAL1", req[r].now + AbsoluteLifetime, req[r].now)
             q == OutboxRows(r, <<e>>)
  <2>1. req[r].stage = "txWrite" /\ SessionWrites(r)
    BY <1>11 DEF Opens
  <2>2. "txWrite" \in SessionStages
    BY DEF SessionStages
  <2>3. SessionPolicyValid /\ req[r] \in Request
    BY <2>1, <2>2, Zenon DEF Inv, Proper
  <2>4. req[r].now \in Nat
    BY <2>3, Zenon DEF Request
  <2>5. session.events = <<e>>
    BY <2>3, <2>4, NewRow
  <2>6. outbox' = outbox \o p \o OutboxRows(r, session.events)
    BY <2>1, Zenon DEF SessionWrites
  <2>7. outbox' = (outbox \o p) \o q
    BY <2>5, <2>6, ZenonT(30)
  <2>8. e \in SessionEvent /\ e.type = "SessionCreated"
    <3>1. req[r].now + AbsoluteLifetime \in Nat
      BY <2>4
    <3> QED BY <2>4, <3>1 DEF SessionCreated, SessionEvent, AAL
  <2> HIDE DEF e, session
  <2>9. q \in Seq(OutboxEvent)
    BY <2>8, SessionRows
  <2>10. Cardinality(Locks(q)) = 0
    <3>1. Locks(q) = LocksIn(<<e>>)
      <4>1. <<e>> \in Seq(SessionEvent)
        BY <2>8
      <4> QED BY <4>1, CountRows, Zenon
    <3>2. \A i \in 1..Len(<<e>>) : <<e>>[i] = e
      OBVIOUS
    <3>3. LocksIn(<<e>>) = {}
      BY <2>8, <3>2 DEF LocksIn
    <3> QED BY <3>1, <3>3, FS_EmptySet
  <2> HIDE DEF p, q, c
  <2>11. Cardinality(Locks(outbox')) = Cardinality(Locks(outbox \o p)) + 0
    BY <1>6, <2>7, <2>9, <2>10, CountConcat, Zenon
  <2>12. Cardinality(Locks(outbox')) = Cardinality(Locks(outbox)) + Cardinality(LocksIn(c.events))
    BY <1>7, <2>11
  <2>13. \A f : Filed(outbox \o p, f) => Filed(outbox', f)
    BY <1>6, <2>7, <2>9, FiledConcat, Zenon
  <2> QED BY <1>1, <1>5, <1>9, <2>12, <2>13, Zenon DEF c
<1> QED BY <1>10, <1>11

\* A request that has read the credential holds what its verification made of it.
LEMMA LoadLocks ==
    ASSUME Inv, NEW r \in Requests, Loads(r)
    PROVE  LET d == req'[r].cred
           IN  /\ d.events \in Seq(CredentialEvent) /\ d.lockoutHistoryCount \in Nat
               /\ d.lockoutHistoryCount =
                     credRow.lockoutHistoryCount + Cardinality(LocksIn(d.events))
               /\ Told(d)
<1> DEFINE now == req[r].now
           checked == EnsureVerifiable(credRow, now)
<1>1. now \in Nat
  BY LocalState
<1>2. Sound(credRow) /\ Snapshot(credRow) = credRow
  BY Zenon DEF Inv
<1>3. ~IsLocked(credRow, now)
  <2>1. checked.err = ""
    BY Zenon DEF Loads
  <2> QED BY <1>1, <1>2, <2>1, EnsureVerifiableSound, Zenon
<1>4. req'[r].cred \in Verified(credRow, now)
  <2>1. PICK st \in {"txFail", "decide"}, d \in Verified(credRow, now) :
           req' = [req EXCEPT ![r].stage = st, ![r].cred = d]
    BY Zenon DEF Loads, Verified
  <2>2. req \in [Requests -> Request] /\ req[r] \in Request
    BY Zenon DEF Inv
  <2>3. req'[r].cred = d
    BY <2>1, <2>2, Zenon DEF Request
  <2> QED BY <2>3
<1> HIDE DEF now, checked
<1> QED BY <1>1, <1>2, <1>3, <1>4, VerifiedTally

\* A request's credential counts no more locks than are on record or about to be.
Owned(m) ==
    m.stage \in CredentialStages =>
        /\ m.cred.lockoutHistoryCount <=
              Cardinality(Locks(outbox)) + Cardinality(LocksIn(m.cred.events))
        /\ Told(m.cred)

Backed ==
    /\ credRow.lockoutHistoryCount <= Cardinality(Locks(outbox))
    /\ credRow.lockoutStatus # LockoutUnlocked =>
          Filed(outbox, AccountLocked(credRow.lockoutStatus, credRow.lockedUntil))
    /\ \A r \in Requests : Owned(req[r])

LEMMA InitBacked == Init => Backed
<1> SUFFICES ASSUME Init PROVE Backed
  OBVIOUS
<1>1. \A r \in Requests : req[r] = Idle
  BY Zenon DEF Init
<1>2. Idle.stage \notin CredentialStages
  BY DEF Idle, CredentialStages, SessionStages
<1>3. \A r \in Requests : Owned(req[r])
  BY <1>1, <1>2, Zenon DEF Owned
<1>4. credRow.lockoutHistoryCount = 0 /\ credRow.lockoutStatus = LockoutUnlocked
  <2>1. PICK p \in Passwords, force \in BOOLEAN : credRow = NewCredential(p, force, 0)
    BY Zenon DEF Init
  <2> QED BY <2>1 DEF NewCredential
<1>5. Cardinality(Locks(outbox)) \in Nat
  BY InitOnRecord, LocksFinite DEF OnRecord
<1>6. credRow.lockoutHistoryCount <= Cardinality(Locks(outbox))
  BY <1>4, <1>5
<1> QED BY <1>3, <1>4, <1>6, Zenon DEF Backed

LEMMA StepBacked == Inv /\ OnRecord /\ Backed /\ [Next]_vars => Backed'
<1> SUFFICES ASSUME Inv, OnRecord, Backed, [Next]_vars PROVE Backed'
  OBVIOUS
<1> DEFINE n == Cardinality(Locks(outbox))
<1>1. n \in Nat /\ credRow.lockoutHistoryCount \in Nat
  BY LocksFinite, Zenon DEF OnRecord, Inv, Sound, Credential
<1>2. ASSUME Quietly, \A o \in Requests : req'[o].stage \in CredentialStages =>
                \/ req[o].stage \in CredentialStages /\ req'[o].cred = req[o].cred
                \/ /\ req'[o].cred.lockoutHistoryCount <=
                         n + Cardinality(LocksIn(req'[o].cred.events))
                   /\ Told(req'[o].cred)
      PROVE  Backed'
  <2>1. credRow' = credRow /\ outbox' = outbox
    BY <1>2 DEF Quietly
  <2>2. \A o \in Requests : Owned(req[o])
    BY DEF Backed
  <2>3. \A o \in Requests : Owned(req[o])'
    BY <1>2, <2>1, <2>2, Zenon DEF Owned
  <2> QED BY <2>1, <2>3, ZenonT(30) DEF Backed
<1>3. ASSUME NEW r \in Requests, Start(r) PROVE Backed'
  BY <1>2, <1>3, StartState DEF CredentialStages, SessionStages
<1>4. ASSUME NEW r \in Requests, Step(r) \/ CutOff(r), ~Concludes(r), ~Opens(r) PROVE Backed'
  <2>1. Quietly
    BY <1>4, NoCommit
  <2>2. \A o \in Requests \ {r} : req'[o] = req[o]
    BY <1>4, OwnStep
  <2>3. ASSUME Loads(r)
        PROVE  /\ req'[r].cred.lockoutHistoryCount <=
                     n + Cardinality(LocksIn(req'[r].cred.events))
               /\ Told(req'[r].cred)
    <3> DEFINE d == req'[r].cred
    <3>1. /\ d.events \in Seq(CredentialEvent)
          /\ d.lockoutHistoryCount = credRow.lockoutHistoryCount + Cardinality(LocksIn(d.events))
          /\ Told(d)
      BY <2>3, LoadLocks
    <3>2. credRow.lockoutHistoryCount <= n
      BY DEF Backed
    <3>3. Cardinality(LocksIn(d.events)) \in Nat
      BY <3>1, LocksFinite
    <3> HIDE DEF d, n
    <3>4. d.lockoutHistoryCount <= n + Cardinality(LocksIn(d.events))
      BY <1>1, <3>1, <3>2, <3>3
    <3> QED BY <3>1, <3>4 DEF d
  <2>4. ASSUME req'[r].stage \in CredentialStages
        PROVE  Loads(r) \/ (req[r].stage \in CredentialStages /\ req'[r].cred = req[r].cred)
    BY <1>4, <2>4, HeldCredential
  <2> HIDE DEF n
  <2> QED BY <1>2, <2>1, <2>2, <2>3, <2>4, Zenon
<1>5. ASSUME NEW r \in Requests, Concludes(r) \/ Opens(r) PROVE Backed'
  <2> DEFINE c == req[r].cred
             k == Cardinality(LocksIn(c.events))
  <2>1. /\ req[r].stage \in CredentialStages
        /\ credRow'.lockoutHistoryCount = c.lockoutHistoryCount
        /\ credRow'.lockoutStatus = c.lockoutStatus
        /\ credRow'.lockedUntil = c.lockedUntil
        /\ Cardinality(Locks(outbox')) = n + k
        /\ \A i \in 1..Len(c.events) : Filed(outbox', c.events[i])
    BY <1>5, CommitLocks
  <2>2. Owned(req[r])
    BY DEF Backed
  <2>3. c.lockoutHistoryCount <= n + k /\ Told(c)
    BY <2>1, <2>2 DEF Owned
  <2>4. k \in Nat
    BY <2>1, PendingEvents, LocksFinite, SMTT(20)
  <2>5. /\ req'[r].stage \notin CredentialStages
        /\ \A o \in Requests \ {r} : req'[o] = req[o]
    BY <1>5, CommitState DEF CredentialStages, SessionStages
  <2>6. ASSUME NEW o \in Requests PROVE Owned(req[o])'
    <3>1. CASE o = r
      BY <2>5, <3>1, Zenon DEF Owned
    <3>2. CASE o # r /\ req[o].stage \in CredentialStages
      <4> DEFINE h == req[o].cred
                 j == Cardinality(LocksIn(h.events))
      <4>1. h.lockoutHistoryCount <= n + j /\ Told(h)
        BY <3>2, Zenon DEF Backed, Owned
      <4>2. j \in Nat
        BY <3>2, PendingEvents, LocksFinite
      <4>3. h.lockoutHistoryCount \in Nat
        <5>1. Sound(h)
          BY <3>2, Zenon DEF Inv, Proper
        <5> QED BY <5>1 DEF Sound, Credential
      <4>4. req'[o] = req[o]
        BY <2>5, <3>2
      <4> HIDE DEF n, k, j, h
      <4>5. h.lockoutHistoryCount <= (n + k) + j
        BY <1>1, <2>4, <4>1, <4>2, <4>3
      <4> QED BY <2>1, <4>1, <4>4, <4>5, Zenon DEF Owned, h, j
    <3>3. CASE o # r /\ req[o].stage \notin CredentialStages
      BY <2>5, <3>3, Zenon DEF Owned
    <3> QED BY <3>1, <3>2, <3>3
  <2> HIDE DEF n, k, c
  <2>7. credRow'.lockoutHistoryCount <= Cardinality(Locks(outbox'))
    BY <2>1, <2>3, Zenon
  <2>8. credRow'.lockoutStatus # LockoutUnlocked =>
           Filed(outbox', AccountLocked(credRow'.lockoutStatus, credRow'.lockedUntil))
    BY <2>1, <2>3, Zenon DEF Told
  <2> QED BY <2>6, <2>7, <2>8, Zenon DEF Backed
<1>6. ASSUME Tick \/ Elsewhere \/ Finished \/ UNCHANGED vars PROVE Backed'
  BY <1>2, <1>6, Bystanders
<1> QED BY <1>3, <1>4, <1>5, <1>6, Zenon DEF Next

\* For any number of overlapping logins and any failure: the lock the row is
\* under, and every lockout it counts, is on record in the outbox.
THEOREM StoredLocksAlwaysOnRecord == Spec => []StoredLocksOnRecord
<1>1. Backed => StoredLocksOnRecord
  BY DEF Backed, Filed, Locks, LockEvents, StoredLocksOnRecord
<1> QED BY <1>1, InitAll, StepInv, InitAllowed, StepAllowed, InitOnRecord, StepOnRecord,
           InitBacked, StepBacked, PTL DEF Spec

-----------------------------------------------------------------------------
(* Locks, one login after the other.                                       *)

\* A lone request works on the credential the row holds.
Tallied ==
    /\ credRow.lockoutHistoryCount = Cardinality(Locks(outbox))
    /\ \A r \in Requests : req[r].stage \in CredentialStages =>
          req[r].cred.lockoutHistoryCount =
              credRow.lockoutHistoryCount + Cardinality(LocksIn(req[r].cred.events))

LEMMA InitTallied == Init => Tallied
<1> SUFFICES ASSUME Init PROVE Tallied
  OBVIOUS
<1>1. \A r \in Requests : req[r] = Idle
  BY Zenon DEF Init
<1>2. Idle.stage \notin CredentialStages
  BY DEF Idle, CredentialStages, SessionStages
<1>3. credRow.lockoutHistoryCount = 0
  <2>1. PICK p \in Passwords, force \in BOOLEAN : credRow = NewCredential(p, force, 0)
    BY Zenon DEF Init
  <2> QED BY <2>1 DEF NewCredential
<1>4. Cardinality(Locks(outbox)) = 0
  BY CountNone, Zenon DEF Init
<1> QED BY <1>1, <1>2, <1>3, <1>4, Zenon DEF Tallied

\* A step keeps the tally, and adds to the row's counter if anything.
LEMMA StepTallied ==
    ASSUME Inv, OnRecord, Alone, Tallied, [Next]_vars
    PROVE  Tallied' /\ credRow'.lockoutHistoryCount >= credRow.lockoutHistoryCount
<1> DEFINE n == credRow.lockoutHistoryCount
           Kept == Tallied' /\ credRow'.lockoutHistoryCount >= n
<1>1. n \in Nat
  BY Zenon DEF Inv, Sound, Credential
<1>2. ASSUME Quietly, \A o \in Requests : req'[o].stage \in CredentialStages =>
                \/ req[o].stage \in CredentialStages /\ req'[o].cred = req[o].cred
                \/ req'[o].cred.lockoutHistoryCount =
                      n + Cardinality(LocksIn(req'[o].cred.events))
      PROVE  Kept
  <2>1. credRow' = credRow /\ outbox' = outbox
    BY <1>2 DEF Quietly
  <2>2. Tallied'
    BY <1>2, <2>1, Zenon DEF Tallied
  <2>3. credRow'.lockoutHistoryCount >= n
    BY <1>1, <2>1
  <2> QED BY <2>2, <2>3
<1>3. ASSUME NEW r \in Requests, Start(r) PROVE Kept
  BY <1>2, <1>3, StartState DEF CredentialStages, SessionStages
<1>4. ASSUME NEW r \in Requests, Step(r) \/ CutOff(r), ~Concludes(r), ~Opens(r) PROVE Kept
  <2>1. Quietly
    BY <1>4, NoCommit
  <2>2. \A o \in Requests \ {r} : req'[o] = req[o]
    BY <1>4, OwnStep
  <2>3. ASSUME Loads(r)
        PROVE  req'[r].cred.lockoutHistoryCount = n + Cardinality(LocksIn(req'[r].cred.events))
    BY <2>3, LoadLocks
  <2>4. ASSUME req'[r].stage \in CredentialStages
        PROVE  Loads(r) \/ (req[r].stage \in CredentialStages /\ req'[r].cred = req[r].cred)
    BY <1>4, <2>4, HeldCredential
  <2> HIDE DEF n, Kept
  <2> QED BY <1>2, <2>1, <2>2, <2>3, <2>4, Zenon
<1>5. ASSUME NEW r \in Requests, Step(r) \/ CutOff(r), Concludes(r) \/ Opens(r) PROVE Kept
  <2> DEFINE c == req[r].cred
             k == Cardinality(LocksIn(c.events))
  <2>1. /\ req[r].stage \in CredentialStages
        /\ credRow'.lockoutHistoryCount = c.lockoutHistoryCount
        /\ Cardinality(Locks(outbox')) = Cardinality(Locks(outbox)) + k
    BY <1>5, CommitLocks
  <2>2. c.lockoutHistoryCount = n + k /\ n = Cardinality(Locks(outbox))
    BY <2>1, Zenon DEF Tallied
  <2>3. k \in Nat
    BY <2>1, PendingEvents, LocksFinite
  <2>4. \A o \in Requests : req'[o].stage \notin CredentialStages
    <3>1. req'[r].stage \notin CredentialStages
      BY <1>5, CommitState DEF CredentialStages, SessionStages
    <3>2. \A o \in Requests \ {r} : req'[o].stage \in {"idle", "done"}
      BY <1>5, OthersOut
    <3>3. "idle" \notin CredentialStages /\ "done" \notin CredentialStages
      BY DEF CredentialStages, SessionStages
    <3> QED BY <3>1, <3>2, <3>3
  <2> HIDE DEF n, k, c
  <2>5. credRow'.lockoutHistoryCount = Cardinality(Locks(outbox'))
    BY <2>1, <2>2, Zenon
  <2>6. credRow'.lockoutHistoryCount >= n
    BY <1>1, <2>1, <2>2, <2>3
  <2>7. Tallied'
    BY <2>4, <2>5, Zenon DEF Tallied
  <2> QED BY <2>6, <2>7
<1>6. ASSUME Tick \/ Elsewhere \/ Finished \/ UNCHANGED vars PROVE Kept
  <2>1. Quietly /\ req' = req
    BY <1>6, Bystanders
  <2> QED BY <1>2, <2>1
<1> HIDE DEF Kept
<1>7. Kept
  BY <1>3, <1>4, <1>5, <1>6, Zenon DEF Next
<1> QED BY <1>7 DEF Kept

\* Of logins that do not overlap, each lock the row counts is one AccountLocked
\* on record and each AccountLocked on record is counted, whatever fails.
THEOREM SerialLocksOnRecord ==
    ASSUME MaxInFlight <= 1
    PROVE  Spec => []LocksOnRecord
<1>1. Tallied => LocksOnRecord
  BY DEF Tallied, LocksOnRecord, LockEvents, Locks
<1>2. Inv /\ OnRecord /\ Alone /\ Tallied /\ [Next]_vars => Tallied'
  BY StepTallied
<1>3. Init => Alone
  BY StepAlone
<1>4. Inv /\ Alone /\ [Next]_vars => Alone'
  BY StepAlone
<1> QED BY <1>1, <1>2, <1>3, <1>4, InitAll, StepInv, InitAllowed, StepAllowed, InitOnRecord,
           StepOnRecord, InitTallied, PTL DEF Spec

\* And no login takes the row's escalation counter back.
THEOREM SerialEscalation ==
    ASSUME MaxInFlight <= 1
    PROVE  Spec => RowEscalationNeverReset
<1>1. Inv /\ OnRecord /\ Alone /\ Tallied /\ [Next]_vars =>
         Tallied' /\ credRow'.lockoutHistoryCount >= credRow.lockoutHistoryCount
  BY StepTallied
<1>2. Init => Alone
  BY StepAlone
<1>3. Inv /\ Alone /\ [Next]_vars => Alone'
  BY StepAlone
<1> QED BY <1>1, <1>2, <1>3, InitAll, StepInv, InitAllowed, StepAllowed, InitOnRecord,
           StepOnRecord, InitTallied, PTL DEF Spec, RowEscalationNeverReset

-----------------------------------------------------------------------------
(* The session policies, one login after the other.                        *)

\* Of logins that do not overlap, under LIMIT_N or no policy, none leaves a
\* session active that is older than one it or an earlier login evicted.
THEOREM SerialOldestEvicted ==
    ASSUME MaxInFlight <= 1, ConcurrentPolicy # "SINGLE"
    PROVE  Spec => []OldestEvicted
<1>1. Init => Alone
  BY StepAlone
<1>2. Inv /\ Alone /\ [Next]_vars => Alone'
  BY StepAlone
<1>3. Inv /\ Planned /\ Planned' /\ Alone /\ ChosenOldest /\ [Next]_vars => ChosenOldest'
  BY StepChosenOldest
<1> QED BY <1>1, <1>2, <1>3, InitAll, StepInv, InitAllowed, StepAllowed, InitPlanned, StepPlanned,
           InitAged, StepLatest, StepOldest, PTL DEF Spec, Aged

\* Of logins that do not overlap, under SINGLE no two sessions are in use at the
\* same time, sessions that expire and are left ACTIVE included.
THEOREM SerialSingleLive ==
    ASSUME MaxInFlight <= 1, ConcurrentPolicy = "SINGLE"
    PROVE  Spec => []LiveWithinLimit
<1>1. Init => Alone
  BY StepAlone
<1>2. Inv /\ Alone /\ [Next]_vars => Alone'
  BY StepAlone
<1>3. Inv /\ Planned /\ Alone /\ Cleared /\ [Next]_vars => Cleared'
  BY StepCleared
<1>4. Init => Cleared /\ OneLive
  <2> SUFFICES ASSUME Init PROVE Cleared /\ OneLive
    OBVIOUS
  <2>1. \A x \in Requests : sessions[x] = NilSession
    BY Zenon DEF Init
  <2>2. ActiveRows = {}
    BY <2>1 DEF ActiveRows, NilSession, SessionStatusActive
  <2> QED BY <2>2 DEF Cleared, OneLive, LiveSessions
<1>5. OneLive => LiveWithinLimit
  <2> SUFFICES ASSUME OneLive PROVE Cardinality(LiveSessions) <= 1
    BY DEF LiveWithinLimit
  <2>1. CASE LiveSessions = {}
    <3>1. Cardinality(LiveSessions) = 0
      BY <2>1, FS_EmptySet
    <3> QED BY <3>1
  <2>2. CASE LiveSessions # {}
    <3>1. PICK x : LiveSessions = {x}
      BY <2>2 DEF OneLive
    <3>2. Cardinality(LiveSessions) = 1
      BY <3>1, FS_Singleton, Zenon
    <3> QED BY <3>2
  <2> QED BY <2>1, <2>2
<1> QED BY <1>1, <1>2, <1>3, <1>4, <1>5, InitAll, StepInv, InitPlanned, StepPlanned, StepOneLive,
           PTL DEF Spec

\* The rows a policy query selects are finitely many.
LEMMA ActiveFinite == IsFiniteSet(ActiveRows) /\ Cardinality(ActiveRows) \in Nat
BY FS_Subset, FS_CardinalityType DEF ActiveRows

\* No session that a policy query selects has expired.
NoneExpired == \A x \in ActiveRows : IsActive(sessions[x], clock)

\* There is room for the session a request is about to add.
HasRoom ==
    /\ Cardinality(ActiveRows) <= ConcurrentMax
    /\ \A r \in Requests : req[r].stage \in Evicting =>
          Cardinality(ActiveRows \ Chosen(req[r])) < ConcurrentMax

LEMMA StepHasRoom ==
    ASSUME ConcurrentPolicy = "LIMIT_N", ConcurrentMax >= 1,
           Inv, Planned, Alone, NoneExpired, HasRoom, [Next]_vars
    PROVE  HasRoom'
<1>1. IsFiniteSet(ActiveRows) /\ Cardinality(ActiveRows) \in Nat
  BY ActiveFinite
<1>2. ASSUME sessions' = sessions,
             \A o \in Requests : req'[o].stage \in Evicting =>
                \/ req[o].stage \in Evicting /\ Chosen(req'[o]) = Chosen(req[o])
                \/ Cardinality(ActiveRows \ Chosen(req'[o])) < ConcurrentMax
      PROVE  HasRoom'
  <2>1. ActiveRows' = ActiveRows
    BY <1>2 DEF ActiveRows
  <2> QED BY <1>2, <2>1, Zenon DEF HasRoom
<1>3. ASSUME NEW r \in Requests, Start(r) PROVE HasRoom'
  <2>1. /\ req'[r].stage = "rateLimit" /\ sessions' = sessions
        /\ \A o \in Requests \ {r} : req'[o] = req[o]
    BY <1>3, StartState DEF Quietly
  <2>2. req'[r].stage \notin Evicting
    BY <2>1 DEF Evicting
  <2> QED BY <1>2, <2>1, <2>2
<1>4. ASSUME NEW r \in Requests, Step(r) \/ CutOff(r), ~Opens(r) PROVE HasRoom'
  <2>1. sessions' = sessions
    BY <1>4, SessionsStay
  <2>2. \A o \in Requests \ {r} : req'[o] = req[o]
    BY <1>4, OwnStep
  <2>3. ASSUME req'[r].stage \in Evicting
        PROVE  Selects(r) \/ (req[r].stage \in Evicting /\ Chosen(req'[r]) = Chosen(req[r]))
    BY <1>4, <2>3, EvictingStep, SMTT(20)
  <2>4. ASSUME Selects(r) PROVE Cardinality(ActiveRows \ Chosen(req'[r])) < ConcurrentMax
    <3>1. CASE Chosen(req'[r]) = {} /\ Cardinality(ActiveRows) < ConcurrentMax
      <4>1. ActiveRows \ Chosen(req'[r]) = ActiveRows
        BY <3>1
      <4> QED BY <3>1, <4>1
    <3>2. CASE ActiveRows = {}
      <4>1. ActiveRows \ Chosen(req'[r]) = {}
        BY <3>2
      <4>2. Cardinality(ActiveRows \ Chosen(req'[r])) = 0
        BY <4>1, FS_EmptySet
      <4> QED BY <4>2
    <3>3. CASE /\ ActiveRows # {}
               /\ \E q \in ByCreation(ActiveRows) :
                     Chosen(req'[r]) = IF Evictable(q[1], req[r].now) THEN {q[1]} ELSE {}
      <4>1. PICK q \in ByCreation(ActiveRows) :
               Chosen(req'[r]) = IF Evictable(q[1], req[r].now) THEN {q[1]} ELSE {}
        BY <3>3, Zenon
      <4>2. req[r].now \in Nat /\ clock \in Nat /\ req[r].now <= clock
        BY LocalState, Zenon DEF Inv, Proper
      <4>3. \A x \in ActiveRows : sessions[x].createdAt \in Nat
        BY <4>2, ActiveRow, Zenon
      <4>4. q[1] \in ActiveRows
        BY <3>3, <4>3, ActiveCounted, OldestFirst, Zenon
      <4>5. IsActive(sessions[q[1]], req[r].now)
        <5>1. sessions[q[1]] \in Session /\ IsActive(sessions[q[1]], clock)
          BY <4>2, <4>4, ActiveRow, Zenon DEF NoneExpired
        <5> QED BY <4>2, <5>1, ExpiryStays, Zenon
      <4>6. Chosen(req'[r]) = {q[1]}
        BY <4>1, <4>2, <4>4, <4>5, ActiveRow
      <4>7. Cardinality(ActiveRows \ {q[1]}) = Cardinality(ActiveRows) - 1
        BY <1>1, <4>4, FS_RemoveElement, Zenon
      <4>8. Cardinality(ActiveRows) <= ConcurrentMax
        BY DEF HasRoom
      <4> QED BY <1>1, <4>6, <4>7, <4>8
    <3> QED BY <2>4, <3>1, <3>2, <3>3, SelectedRows
  <2> QED BY <1>2, <2>1, <2>2, <2>3, <2>4, Zenon
<1>5. ASSUME NEW r \in Requests, Step(r) \/ CutOff(r), Opens(r) PROVE HasRoom'
  <2>1. ActiveRows' = (ActiveRows \ req[r].evicted) \cup {r}
    BY <1>5, OpenRows
  <2>2. req[r].stage = "txWrite"
    BY <1>5 DEF Opens
  <2>3. req[r].evict = << >>
    BY <2>2, Zenon DEF Planned, Plan
  <2>4. Chosen(req[r]) = req[r].evicted
    <3>1. {<< >>[i] : i \in 1..Len(<< >>)} = {}
      OBVIOUS
    <3> QED BY <2>3, <3>1, Zenon DEF Chosen
  <2> DEFINE S == ActiveRows \ req[r].evicted
  <2>5. Cardinality(S) < ConcurrentMax
    <3>1. "txWrite" \in Evicting
      BY DEF Evicting
    <3> QED BY <2>2, <2>4, <3>1, Zenon DEF HasRoom
  <2>6. IsFiniteSet(S) /\ Cardinality(S) \in Nat
    BY <1>1, FS_Subset, FS_CardinalityType
  <2> HIDE DEF S
  <2>7. Cardinality(S \cup {r}) <= Cardinality(S) + 1
    <3>1. CASE r \in S
      <4>1. Cardinality(S \cup {r}) = Cardinality(S)
        <5>1. S \cup {r} = S
          BY <3>1
        <5> QED BY <5>1, Zenon
      <4> QED BY <2>6, <4>1
    <3>2. CASE r \notin S
      <4>1. Cardinality(S \cup {r}) = Cardinality(S) + 1
        BY <2>6, <3>2, FS_AddElement, Zenon
      <4> QED BY <2>6, <4>1
    <3> QED BY <3>1, <3>2
  <2>8. Cardinality(S \cup {r}) \in Nat
    BY <2>6, FS_AddElement, FS_CardinalityType
  <2>9. Cardinality(ActiveRows') <= ConcurrentMax
    <3>1. Cardinality(S \cup {r}) <= ConcurrentMax
      BY <2>5, <2>6, <2>7, <2>8
    <3> QED BY <2>1, <3>1 DEF S
  <2>10. \A o \in Requests : req'[o].stage \notin Evicting
    <3>1. req'[r].stage \notin Evicting
      BY <1>5, CommitState DEF Evicting
    <3>2. \A o \in Requests \ {r} : req'[o].stage \notin Evicting
      BY <1>5, OthersOut DEF Evicting
    <3> QED BY <3>1, <3>2
  <2> QED BY <2>9, <2>10, Zenon DEF HasRoom
<1>6. ASSUME Tick \/ Elsewhere \/ Finished \/ UNCHANGED vars PROVE HasRoom'
  BY <1>2, <1>6, Bystanders DEF Quietly
<1> QED BY <1>3, <1>4, <1>5, <1>6, Zenon DEF Next

\* Of logins that do not overlap, under LIMIT_N the sessions in use stay within
\* the limit for as long as none of the rows marked ACTIVE has expired.
THEOREM SerialLimitLive ==
    ASSUME MaxInFlight <= 1, ConcurrentPolicy = "LIMIT_N", ConcurrentMax >= 1
    PROVE  Spec /\ []NoneExpired => []LiveWithinLimit
<1>1. Init => Alone
  BY StepAlone
<1>2. Inv /\ Alone /\ [Next]_vars => Alone'
  BY StepAlone
<1>3. Inv /\ Planned /\ Alone /\ NoneExpired /\ HasRoom /\ [Next]_vars => HasRoom'
  BY StepHasRoom
<1>4. Init => HasRoom
  <2> SUFFICES ASSUME Init PROVE HasRoom
    OBVIOUS
  <2>1. \A x \in Requests : sessions[x] = NilSession /\ req[x] = Idle
    BY Zenon DEF Init
  <2>2. ActiveRows = {}
    BY <2>1 DEF ActiveRows, NilSession, SessionStatusActive
  <2>3. Cardinality(ActiveRows) = 0
    BY <2>2, FS_EmptySet
  <2>4. Cardinality(ActiveRows) <= ConcurrentMax
    BY <2>3
  <2>5. Idle.stage \notin Evicting
    BY DEF Idle, Evicting
  <2> QED BY <2>1, <2>4, <2>5, Zenon DEF HasRoom
<1>5. HasRoom => LiveWithinLimit
  <2> SUFFICES ASSUME HasRoom PROVE Cardinality(LiveSessions) <= ConcurrentMax
    BY DEF LiveWithinLimit
  <2>1. LiveSessions \subseteq ActiveRows
    BY DEF LiveSessions
  <2>2. IsFiniteSet(ActiveRows) /\ Cardinality(ActiveRows) \in Nat
    BY ActiveFinite
  <2>3. Cardinality(LiveSessions) <= Cardinality(ActiveRows) /\ Cardinality(LiveSessions) \in Nat
    BY <2>1, <2>2, FS_Subset, FS_CardinalityType
  <2>4. Cardinality(ActiveRows) <= ConcurrentMax
    BY DEF HasRoom
  <2> QED BY <2>2, <2>3, <2>4
<1> QED BY <1>1, <1>2, <1>3, <1>4, <1>5, InitAll, StepInv, InitPlanned, StepPlanned, PTL DEF Spec

=============================================================================
