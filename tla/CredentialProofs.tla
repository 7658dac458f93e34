--------------------------- MODULE CredentialProofs ---------------------------
(***************************************************************************)
(* Proofs about Credential.tla and CredentialObserver.tla, for every valid *)
(* policy and every value of the bounds.  The machine's actions are calls  *)
(* of the aggregate's methods, each of which preserves Sound, so           *)
(* Sound(cred) is inductive.                                               *)
(***************************************************************************)
EXTENDS CredentialObserver, CredentialAggregateProofs, WellFoundedInduction

\* The inductive invariant.
Inv == Sound(cred) /\ clock \in Nat

\* Init establishes the invariant.
LEMMA InitInv == Init => Inv
BY NewCredentialSound DEF Init, Inv

\* Every step preserves the invariant and is a LockStep at the clock.
LEMMA StepInv ==
    Inv /\ [Next]_vars => Inv' /\ LockStep(cred, cred', clock)
<1> SUFFICES ASSUME Inv, [Next]_vars PROVE Inv' /\ LockStep(cred, cred', clock)
  OBVIOUS
<1> USE DEF Inv
<1>0. \A now \in Nows : now \in Nat /\ now <= clock
  BY DEF Nows
<1>a. ASSUME NEW now \in Nows, Sound(cred'), LockStep(cred, cred', now), UNCHANGED clock
      PROVE  Inv' /\ LockStep(cred, cred', clock)
  BY <1>0, <1>a, LockStepMonotone
<1>1. CASE PreCheck
  <2>1. PICK now \in Nows : Call(EnsureVerifiable(cred, now))
    BY <1>1 DEF PreCheck
  <2>2. Sound(cred') /\ LockStep(cred, cred', now)
    BY <1>0, <2>1, PreCheckStep DEF Call
  <2>3. QED
    BY <1>a, <2>1, <2>2 DEF Call
<1>2. CASE FailedAttempt
  <2>1. PICK now \in Nows : Call(RecordFailedAttempt(cred, now))
    BY <1>2 DEF FailedAttempt
  <2>2. Sound(cred') /\ LockStep(cred, cred', now)
    BY <1>0, <2>1, RecordFailedAttemptSound DEF Call
  <2>3. QED
    BY <1>a, <2>1, <2>2 DEF Call
<1>3. CASE Verification
  <2>1. PICK now \in Nows : Call(RecordSuccessfulVerification(cred, now))
    BY <1>3 DEF Verification
  <2>2. Sound(cred') /\ LockStep(cred, cred', now)
    BY <1>0, <2>1, RecordSuccessSound DEF Call
  <2>3. QED
    BY <1>a, <2>1, <2>2 DEF Call
<1>4. CASE AdminUnlock
  BY <1>4, AdminUnlockSound DEF AdminUnlock, Call, IdentityRef
<1>5. CASE PasswordChange
  <2>1. PICK new \in Passwords \cup {NoPassword}, now \in Nows : Call(ChangePassword(cred, new, now))
    BY <1>5 DEF PasswordChange
  <2>2. Sound(cred') /\ LockStep(cred, cred', now)
    BY <1>0, <2>1, ChangePasswordSound DEF Call
  <2>3. QED
    BY <1>a, <2>1, <2>2 DEF Call
<1>6. CASE PasswordReset
  <2>1. PICK new \in Passwords \cup {NoPassword}, now \in Nows : Call(ResetPassword(cred, new, now))
    BY <1>6 DEF PasswordReset
  <2>2. Sound(cred') /\ LockStep(cred, cred', now)
    BY <1>0, <2>1, ResetPasswordSound DEF Call
  <2>3. QED
    BY <1>a, <2>1, <2>2 DEF Call
<1>7. CASE ForceChange
  BY <1>7, MarkForceSound DEF ForceChange, Call
<1>8. CASE PullEvents
  BY <1>8, ClearEventsSound, LockStepStutter DEF PullEvents
<1>9. CASE Tick
  BY <1>9, LockStepStutter DEF Tick
<1>10. CASE UNCHANGED vars
  BY <1>10, LockStepStutter DEF vars
<1>11. QED
  BY <1>1, <1>2, <1>3, <1>4, <1>5, <1>6, <1>7, <1>8, <1>9, <1>10 DEF Next

-----------------------------------------------------------------------------
(* Theorems.                                                               *)

\* The fields keep their types, in every behaviour and for every policy.
THEOREM TypeCorrect == Spec => []TypeOK
<1>1. Inv => TypeOK
  BY DEF Inv, Sound, TypeOK
<1>2. QED
  BY <1>1, InitInv, StepInv, PTL DEF Spec

\* The failed-attempt count always agrees with the lockout status, and the
\* lock in force is always the one the escalation ladder prescribes.
THEOREM LockoutAlwaysConsistent == Spec => []LockoutConsistent
<1>1. Inv => LockoutConsistent
  BY DEF Inv, Sound, LockoutConsistent
<1>2. QED
  BY <1>1, InitInv, StepInv, PTL DEF Spec

\* No sequence of changes and resets brings a remembered password back, and
\* no more than HistoryDepth passwords are remembered.
THEOREM RecentPasswordsAlwaysDistinct == Spec => []RecentPasswordsDistinct
<1>1. Inv => RecentPasswordsDistinct
  BY DEF Inv, Sound, RecentPasswordsDistinct
<1>2. QED
  BY <1>1, InitInv, StepInv, PTL DEF Spec

\* RehydrateCredential never rejects a credential the aggregate produced.
THEOREM SnapshotAlwaysRehydrates == Spec => []SnapshotRehydrates
<1>1. Inv => SnapshotRehydrates
  BY SoundRehydrates DEF Inv, SnapshotRehydrates
<1>2. QED
  BY <1>1, InitInv, StepInv, PTL DEF Spec

\* No call resets the escalation counter, or moves it but to start a lock.
THEOREM EscalationIsNeverReset == Spec => EscalationNeverReset
<1>1. Inv /\ [Next]_vars =>
        [/\ cred'.lockoutHistoryCount \in {cred.lockoutHistoryCount, cred.lockoutHistoryCount + 1}
         /\ cred'.lockoutHistoryCount # cred.lockoutHistoryCount
               => /\ cred'.lockoutStatus # LockoutUnlocked
                  /\ ~IsLocked(cred, clock)]_vars
  BY StepInv DEF LockStep
<1>2. QED
  BY <1>1, InitInv, StepInv, PTL DEF Spec, EscalationNeverReset

\* A lock in force is changed by nothing but being lifted.
THEOREM LockedIsAlwaysFrozen == Spec => LockedIsFrozen
<1>1. Inv /\ [Next]_vars =>
        [IsLocked(cred, clock) /\ cred'.lockoutStatus # LockoutUnlocked
            => LockoutState(cred') = LockoutState(cred)]_vars
  BY StepInv DEF LockStep
<1>2. QED
  BY <1>1, InitInv, StepInv, PTL DEF Spec, LockedIsFrozen

\* Every step discharges a forced change, and lifts a lock, only as a method may.
LEMMA StepLifts ==
    ASSUME Inv, Next
    PROVE  /\ PasswordStep(cred, cred')
           /\ \/ LiftStep(cred, cred', clock)
              \/ LockLifted => Recorded(AccountUnlocked("admin", cred.lockoutStatus))
<1> USE DEF Inv
<1>0. \A now \in Nows : now \in Nat /\ now <= clock
  BY DEF Nows
<1>1. ASSUME NEW now \in Nows, LiftStep(cred, cred', now) PROVE LiftStep(cred, cred', clock)
  <2>1. cred.lockedUntil \in Int
    BY DEF Sound, Credential, OptTime, NoTime
  <2>2. now \in Nat /\ now <= clock /\ clock \in Nat
    BY <1>0
  <2>3. now >= cred.lockedUntil => clock >= cred.lockedUntil
    BY <2>1, <2>2
  <2> QED BY <1>1, <2>3, Zenon DEF LiftStep
<1>2. CASE PreCheck
  <2>1. PICK now \in Nows : Call(EnsureVerifiable(cred, now))
    BY <1>2 DEF PreCheck
  <2>2. LiftStep(cred, cred', now) /\ PasswordState(cred') = PasswordState(cred)
    BY <1>0, <2>1, PreCheckLifts DEF Call
  <2> QED BY <1>1, <2>2, PasswordStepStutter
<1>3. CASE FailedAttempt
  <2>1. PICK now \in Nows : Call(RecordFailedAttempt(cred, now))
    BY <1>3 DEF FailedAttempt
  <2>2. LiftStep(cred, cred', now) /\ PasswordState(cred') = PasswordState(cred)
    BY <1>0, <2>1, AttemptLifts DEF Call
  <2> QED BY <1>1, <2>2, PasswordStepStutter
<1>4. CASE Verification
  <2>1. PICK now \in Nows : Call(RecordSuccessfulVerification(cred, now))
    BY <1>4 DEF Verification
  <2>2. LiftStep(cred, cred', now) /\ PasswordState(cred') = PasswordState(cred)
    BY <1>0, <2>1, AttemptLifts DEF Call
  <2> QED BY <1>1, <2>2, PasswordStepStutter
<1>5. CASE AdminUnlock
  <2>1. cred' = Unlock(cred, "admin").agg
    BY <1>5 DEF AdminUnlock, Call
  <2>2. /\ PasswordState(cred') = PasswordState(cred)
        /\ cred.lockoutStatus # LockoutUnlocked =>
              \E i \in 1..Len(cred'.events) : cred'.events[i] = AccountUnlocked("admin", cred.lockoutStatus)
    BY <2>1, AdminUnlockRecords
  <2>3. LockLifted => Recorded(AccountUnlocked("admin", cred.lockoutStatus))
    BY <2>2, Zenon DEF LockLifted, Recorded
  <2> QED BY <2>2, <2>3, PasswordStepStutter
<1>6. CASE PasswordChange
  <2>1. PICK new \in Passwords \cup {NoPassword}, now \in Nows : Call(ChangePassword(cred, new, now))
    BY <1>6 DEF PasswordChange
  <2>2. LiftStep(cred, cred', now) /\ PasswordStep(cred, cred')
    BY <1>0, <2>1, PasswordMethods DEF Call
  <2> QED BY <1>1, <2>2
<1>7. CASE PasswordReset
  <2>1. PICK new \in Passwords \cup {NoPassword}, now \in Nows : Call(ResetPassword(cred, new, now))
    BY <1>7 DEF PasswordReset
  <2>2. LiftStep(cred, cred', now) /\ PasswordStep(cred, cred')
    BY <1>0, <2>1, PasswordMethods DEF Call
  <2> QED BY <1>1, <2>2
<1>8. CASE ForceChange
  <2>1. PasswordStep(cred, cred') /\ cred'.lockoutStatus = cred.lockoutStatus
    BY <1>8, MarkForceKeeps DEF ForceChange, Call
  <2> QED BY <2>1 DEF LockLifted
<1>9. CASE PullEvents \/ Tick
  <2>1. PasswordState(cred') = PasswordState(cred) /\ cred'.lockoutStatus = cred.lockoutStatus
    BY <1>9 DEF PullEvents, Tick, ClearEvents, Sound, Credential, PasswordState
  <2> QED BY <2>1, PasswordStepStutter DEF LockLifted
<1> QED BY <1>2, <1>3, <1>4, <1>5, <1>6, <1>7, <1>8, <1>9 DEF Next

\* A lock ends only by an administrator, who is recorded, or when it is
\* temporary and its time has come, however stale the caller's clock.
THEOREM LockAlwaysEndsWhenDue == Spec => LockEndsOnlyWhenDue
<1>1. Inv /\ [Next]_vars =>
        [LockLifted =>
            \/ Recorded(AccountUnlocked("admin", cred.lockoutStatus))
            \/ cred.lockoutStatus = LockoutTemporary /\ clock >= cred.lockedUntil]_vars
  <2> SUFFICES ASSUME Inv, Next, LockLifted
               PROVE  \/ Recorded(AccountUnlocked("admin", cred.lockoutStatus))
                      \/ cred.lockoutStatus = LockoutTemporary /\ clock >= cred.lockedUntil
    BY Zenon
  <2> QED BY StepLifts, Zenon DEF LiftStep, LockLifted
<1>2. QED
  BY <1>1, InitInv, StepInv, PTL DEF Spec, LockEndsOnlyWhenDue

\* A forced change is discharged only by a password that is none of the
\* remembered ones, and no password is set under a permanent lock.
THEOREM ForcedChangeAlwaysNeedsNewPassword == Spec => ForcedChangeNeedsNewPassword
<1>1. Inv /\ [Next]_vars =>
        [/\ cred'.password # cred.password =>
               /\ cred.lockoutStatus # LockoutPermanent
               /\ ~IsReuse(cred, cred'.password)
               /\ ~cred'.forcePasswordChange
         /\ cred.forcePasswordChange /\ ~cred'.forcePasswordChange
               => cred'.password # cred.password]_vars
  BY StepLifts, Zenon DEF PasswordStep
<1>2. QED
  BY <1>1, InitInv, StepInv, PTL DEF Spec, ForcedChangeNeedsNewPassword

-----------------------------------------------------------------------------
(* The consumer of the events.  What it holds is a fold of Apply over the  *)
(* events, so its proofs need induction over their number; a least         *)
(* counterexample serves, as the order of Nat is well-founded.             *)

\* A set that holds 0 and the successor of each of its numbers holds Nat.
LEMMA NatSetInduction ==
    ASSUME NEW S, 0 \in S, \A n \in Nat : n \in S => n + 1 \in S
    PROVE  Nat \subseteq S
<1> DEFINE T == {n \in Nat : n \notin S}
           R == OpToRel(<, Nat)
<1>1. SUFFICES ASSUME T # {} PROVE FALSE
  OBVIOUS
<1>2. PICK x \in T : \A y \in T : ~(<<y, x>> \in R)
  <2>1. IsWellFoundedOn(R, Nat)
    BY NatLessThanWellFounded, Zenon
  <2>2. T \subseteq Nat
    OBVIOUS
  <2> HIDE DEF T, R
  <2> QED BY <1>1, <2>1, <2>2, WFMin
<1>3. x # 0 /\ x - 1 \in Nat /\ x - 1 < x /\ (x - 1) + 1 = x
  OBVIOUS
<1>4. x - 1 \in T
  BY <1>3
<1>5. <<x - 1, x>> \in R
  BY <1>3, Zenon DEF OpToRel
<1> QED BY <1>2, <1>4, <1>5

\* f holds the views after 0, 1, ..., n of the events.
Replay(f, v, ev, n) ==
    f = [i \in 0..n |-> IF i = 0 THEN v ELSE Apply(f[i - 1], ev[i])]

\* There is such an f for every n: the recursion of ApplyAll has a solution.
LEMMA ReplayExists ==
    ASSUME NEW v, NEW ev
    PROVE  \A n \in Nat : \E f : Replay(f, v, ev, n)
<1> DEFINE S == {n \in Nat : \E f : Replay(f, v, ev, n)}
<1>1. 0 \in S
  <2> DEFINE g == [i \in 0..0 |-> v]
  <2>1. g = [i \in 0..0 |-> IF i = 0 THEN v ELSE Apply(g[i - 1], ev[i])]
    OBVIOUS
  <2>2. Replay(g, v, ev, 0)
    BY <2>1 DEF Replay
  <2> QED BY <2>2
<1>2. ASSUME NEW n \in Nat, n \in S PROVE n + 1 \in S
  <2>1. PICK f : Replay(f, v, ev, n)
    BY <1>2
  <2> DEFINE g == [i \in 0..(n + 1) |-> IF i = n + 1 THEN Apply(f[n], ev[n + 1]) ELSE f[i]]
             h == [i \in 0..(n + 1) |-> IF i = 0 THEN v ELSE Apply(g[i - 1], ev[i])]
  <2>2. ASSUME NEW i \in 0..(n + 1) PROVE g[i] = h[i]
    <3>1. CASE i = n + 1
      <4>1. i # 0 /\ i - 1 \in 0..n /\ i - 1 \in 0..(n+1) /\ i - 1 = n /\ n # n + 1
        BY <3>1
      <4>2. g[i - 1] = f[n]
        BY <4>1
      <4> QED BY <3>1, <4>1, <4>2
    <3>2. CASE i # n + 1
      <4>1. i \in 0..n
        BY <3>2
      <4>2. f[i] = IF i = 0 THEN v ELSE Apply(f[i - 1], ev[i])
        BY <2>1, <4>1 DEF Replay
      <4>3. i # 0 => i - 1 \in 0..(n + 1) /\ i - 1 # n + 1
        OBVIOUS
      <4>4. i # 0 => g[i - 1] = f[i - 1]
        BY <4>3
      <4> QED BY <3>2, <4>2, <4>4
    <3> QED BY <3>1, <3>2
  <2>3. g = h
    BY <2>2
  <2>4. Replay(g, v, ev, n + 1)
    BY <2>3 DEF Replay
  <2> QED BY <2>4
<1>3. Nat \subseteq S
  <2> HIDE DEF S
  <2> QED BY <1>1, <1>2, NatSetInduction
<1> QED BY <1>3

\* The view after n events depends on those n events only.
LEMMA ReplayAgree ==
    ASSUME NEW v, NEW ev, NEW eu, NEW n \in Nat, NEW m \in Nat, n <= m,
           NEW f, NEW g, Replay(f, v, ev, n), Replay(g, v, eu, m),
           \A i \in 1..n : ev[i] = eu[i]
    PROVE  f[n] = g[n]
<1> DEFINE S == {i \in Nat : i <= n => f[i] = g[i]}
<1>1. 0 \in S
  BY DEF Replay
<1>2. ASSUME NEW i \in Nat, i \in S PROVE i + 1 \in S
  <2>1. SUFFICES ASSUME i + 1 <= n PROVE f[i + 1] = g[i + 1]
    OBVIOUS
  <2>2. i + 1 \in 0..n /\ i + 1 \in 0..m /\ i + 1 # 0 /\ (i + 1) - 1 = i /\ i + 1 \in 1..n
    BY <2>1
  <2>3. f[i] = g[i]
    BY <1>2, <2>1
  <2>4. f[i + 1] = Apply(f[i], ev[i + 1])
    BY <2>2 DEF Replay
  <2>5. g[i + 1] = Apply(g[i], eu[i + 1])
    BY <2>2 DEF Replay
  <2> QED BY <2>2, <2>3, <2>4, <2>5
<1>3. Nat \subseteq S
  <2> HIDE DEF S
  <2> QED BY <1>1, <1>2, NatSetInduction
<1> QED BY <1>3

\* ApplyAll is the last view of a replay.
LEMMA ApplyAllIs ==
    ASSUME NEW v, NEW ev, Len(ev) \in Nat
    PROVE  \E f : Replay(f, v, ev, Len(ev)) /\ ApplyAll(v, ev) = f[Len(ev)]
<1>1. \E f : Replay(f, v, ev, Len(ev))
  BY ReplayExists
<1> DEFINE c == CHOOSE f : Replay(f, v, ev, Len(ev))
<1>2. Replay(c, v, ev, Len(ev))
  BY <1>1
<1>3. ApplyAll(v, ev) = c[Len(ev)]
  BY DEF ApplyAll, Replay
<1> QED BY <1>2, <1>3

\* Without events the consumer keeps its view.
LEMMA ApplyNone ==
    ASSUME NEW v
    PROVE  ApplyAll(v, << >>) = v
<1>1. PICK f : Replay(f, v, << >>, 0) /\ ApplyAll(v, << >>) = f[0]
  BY ApplyAllIs
<1> QED BY <1>1 DEF Replay

\* One more event is applied to the view that the earlier ones give.
LEMMA ApplyOneMore ==
    ASSUME NEW v, NEW E, NEW ev \in Seq(E), NEW e \in E
    PROVE  ApplyAll(v, Append(ev, e)) = Apply(ApplyAll(v, ev), e)
<1> DEFINE n  == Len(ev)
           eu == Append(ev, e)
<1>1. n \in Nat /\ n + 1 \in Nat /\ Len(eu) = n + 1 /\ n <= n + 1 /\ n + 1 \in 0..(n + 1)
      /\ n + 1 # 0 /\ (n + 1) - 1 = n
  OBVIOUS
<1>2. (\A i \in 1..n : ev[i] = eu[i]) /\ eu[n + 1] = e
  OBVIOUS
<1> HIDE DEF n, eu
<1>3. PICK f : Replay(f, v, ev, n) /\ ApplyAll(v, ev) = f[n]
  BY <1>1, ApplyAllIs DEF n
<1>4. PICK g : Replay(g, v, eu, n + 1) /\ ApplyAll(v, eu) = g[n + 1]
  BY <1>1, ApplyAllIs
<1>5. f[n] = g[n]
  BY <1>1, <1>2, <1>3, <1>4, ReplayAgree
<1>6. g[n + 1] = Apply(g[n], eu[n + 1])
  BY <1>1, <1>4 DEF Replay
<1> QED BY <1>2, <1>3, <1>4, <1>5, <1>6 DEF eu

\* A consumer that held v and applies c's pending events holds what c holds.
Explains(v, c) == ApplyAll(v, c.events) = Projection(c)

\* A method that records nothing may not change what the events speak of.
LEMMA ExplainsFrame ==
    ASSUME NEW v, NEW c, NEW d, Explains(v, c), d.events = c.events, Projection(d) = Projection(c)
    PROVE  Explains(v, d)
BY DEF Explains

\* A recorded event has to say what the method did to the projection.
LEMMA ExplainsRecord ==
    ASSUME NEW v, NEW c, Explains(v, c), NEW b \in Credential, b.events = c.events,
           NEW e \in CredentialEvent, Projection(b) = Apply(Projection(c), e)
    PROVE  Explains(v, Record(b, e))
<1>1. b.events \in Seq(CredentialEvent)
  BY DEF Credential
<1>2. Record(b, e).events = Append(b.events, e) /\ Projection(Record(b, e)) = Projection(b)
  BY DEF Record, Credential, Projection
<1>3. ApplyAll(v, Append(b.events, e)) = Apply(ApplyAll(v, b.events), e)
  BY <1>1, ApplyOneMore
<1> QED BY <1>2, <1>3 DEF Explains

\* Events that say nothing about the projection.
LEMMA ApplyLoginFailed ==
    ASSUME NEW v, NEW reason, NEW n
    PROVE  Apply(v, LoginFailed(reason, n)) = v
BY DEF Apply, LoginFailed

\* What each of the other events does to the projection of a credential.
LEMMA ApplyLocked ==
    ASSUME NEW c, NEW st, NEW til
    PROVE  Apply(Projection(c), AccountLocked(st, til)) =
              [lockoutStatus |-> st, lockedUntil |-> til, forcePasswordChange |-> c.forcePasswordChange]
BY DEF Apply, AccountLocked, Projection

LEMMA ApplyUnlocked ==
    ASSUME NEW c, NEW by
    PROVE  Apply(Projection(c), AccountUnlocked(by, c.lockoutStatus)) =
              [lockoutStatus |-> LockoutUnlocked, lockedUntil |-> NoTime,
               forcePasswordChange |-> c.forcePasswordChange]
BY DEF Apply, AccountUnlocked, Projection

LEMMA ApplyForced ==
    ASSUME NEW c
    PROVE  Apply(Projection(c), AdminInitiatedPasswordReset) =
              [lockoutStatus |-> c.lockoutStatus, lockedUntil |-> c.lockedUntil,
               forcePasswordChange |-> TRUE]
BY DEF Apply, AdminInitiatedPasswordReset, Projection

LEMMA ApplyNewPassword ==
    ASSUME NEW c, NEW e, e.type \in {"PasswordChanged", "PasswordResetCompleted"}
    PROVE  Apply(Projection(c), e) =
              [lockoutStatus |-> c.lockoutStatus, lockedUntil |-> c.lockedUntil,
               forcePasswordChange |-> FALSE]
BY DEF Apply, Projection

\* unlock: the event names the lock that is lifted.
LEMMA UnlockExplains ==
    ASSUME NEW v, NEW c, Sound(c), Explains(v, c), NEW by \in IdentityRef
    PROVE  Explains(v, unlock(c, by))
<1> DEFINE b == [c EXCEPT !.lockoutStatus = LockoutUnlocked,
                          !.lockedAt = NoTime,
                          !.lockedUntil = NoTime,
                          !.failedAttemptCount = 0,
                          !.lastFailedAt = NoTime]
           e == AccountUnlocked(by, c.lockoutStatus)
<1>1. b \in Credential /\ b.events = c.events
  BY DEF Sound, Credential, OptTime, NoTime, LockoutStatus
<1>2. e \in CredentialEvent
  BY EventTypes DEF Sound, Credential
<1>3. Projection(b) = Apply(Projection(c), e)
  BY ApplyUnlocked DEF Projection, Sound, Credential
<1>4. unlock(c, by) = Record(b, e)
  BY DEF unlock
<1> HIDE DEF b, e
<1> QED BY <1>1, <1>2, <1>3, <1>4, ExplainsRecord

\* EnsureVerifiable.
LEMMA VerifiableExplains ==
    ASSUME NEW v, NEW c, Sound(c), Explains(v, c), NEW now \in Nat
    PROVE  Explains(v, EnsureVerifiable(c, now).agg)
<1>1. Explains(v, unlock(c, ""))
  BY UnlockExplains DEF IdentityRef
<1> QED BY <1>1 DEF EnsureVerifiable, Ok, Fail

\* A counted failure, and the lock it may start.
LEMMA FailureExplains ==
    ASSUME NEW v, NEW c, Sound(c), Explains(v, c), NEW now \in Nat
    PROVE  Explains(v, CountFailure(c, now))
<1> DEFINE n == FailuresSoFar(c, now) + 1
           d == [c EXCEPT !.failedAttemptCount = n, !.lastFailedAt = now]
           e == LoginFailed("INVALID_CREDENTIALS", n)
           f == Record(d, e)
<1>1. n \in Nat
  BY DEF FailuresSoFar, Sound, Credential
<1>2. d \in Credential /\ d.events = c.events /\ Projection(d) = Projection(c)
  BY <1>1 DEF Sound, Credential, OptTime, Projection
<1>3. e \in CredentialEvent
  BY <1>1, EventTypes
<1>4. Apply(Projection(c), e) = Projection(c)
  BY ApplyLoginFailed
<1>5. f \in Credential
  BY <1>2, <1>3, RecordType
<1>6. Explains(v, f)
  <2> HIDE DEF d, e
  <2> QED BY <1>2, <1>3, <1>4, ExplainsRecord
<1>7. CountFailure(c, now) = IF n >= Threshold THEN lock(f, now) ELSE f
  BY DEF CountFailure
<1> HIDE DEF n, d, e, f
<1>8. Explains(v, lock(f, now))
  <2> DEFINE k    == f.lockoutHistoryCount + 1
             temp == k <= Len(TemporaryDurations)
             st   == IF temp THEN LockoutTemporary ELSE LockoutPermanent
             til  == IF temp THEN now + TemporaryDurations[k] ELSE NoTime
             g    == [f EXCEPT !.lockoutHistoryCount = k,
                               !.lockedAt = now,
                               !.lockoutStatus = st,
                               !.lockedUntil = til]
             a    == AccountLocked(st, til)
  <2>1. k \in Nat /\ k >= 1
    BY <1>5 DEF Credential
  <2>2. temp => TemporaryDurations[k] \in Nat
    BY <2>1, LockoutPolicyValid
  <2>3. st \in LockoutStatus /\ til \in OptTime
    BY <2>1, <2>2 DEF LockoutStatus, OptTime
  <2>4. g \in Credential /\ g.events = f.events
    BY <1>5, <2>1, <2>3 DEF Credential, OptTime
  <2>5. a \in CredentialEvent
    BY <2>3, EventTypes
  <2>6. Projection(g) = Apply(Projection(f), a)
    BY <1>5, ApplyLocked DEF Projection, Credential
  <2>7. lock(f, now) = Record(g, a)
    BY DEF lock
  <2> HIDE DEF g, a
  <2> QED BY <1>6, <2>4, <2>5, <2>6, <2>7, ExplainsRecord
<1> QED BY <1>6, <1>7, <1>8

\* RecordFailedAttempt.
LEMMA FailedAttemptExplains ==
    ASSUME NEW v, NEW c, Sound(c), Explains(v, c), NEW now \in Nat
    PROVE  Explains(v, RecordFailedAttempt(c, now).agg)
<1> DEFINE w == EnsureVerifiable(c, now)
           e == LoginFailed("ACCOUNT_LOCKED", w.agg.failedAttemptCount)
<1>1. Explains(v, w.agg) /\ Sound(w.agg)
  BY VerifiableExplains, EnsureVerifiableSound
<1> HIDE DEF w
<1>2. Explains(v, CountFailure(w.agg, now))
  BY <1>1, FailureExplains
<1>3. Explains(v, Record(w.agg, e))
  <2>1. w.agg \in Credential /\ w.agg.failedAttemptCount \in Nat
    BY <1>1 DEF Sound, Credential
  <2>2. e \in CredentialEvent /\ Apply(Projection(w.agg), e) = Projection(w.agg)
    BY <2>1, EventTypes, ApplyLoginFailed
  <2> HIDE DEF e
  <2> QED BY <1>1, <2>1, <2>2, ExplainsRecord
<1> QED BY <1>2, <1>3 DEF RecordFailedAttempt, w, Ok, Fail

\* RecordSuccessfulVerification, which records nothing of its own.
LEMMA VerificationExplains ==
    ASSUME NEW v, NEW c, Sound(c), Explains(v, c), NEW now \in Nat
    PROVE  Explains(v, RecordSuccessfulVerification(c, now).agg)
<1> DEFINE w == EnsureVerifiable(c, now)
           d == [w.agg EXCEPT !.failedAttemptCount = 0, !.lastFailedAt = NoTime]
<1>1. Explains(v, w.agg) /\ Sound(w.agg)
  BY VerifiableExplains, EnsureVerifiableSound
<1> HIDE DEF w
<1>2. d.events = w.agg.events /\ Projection(d) = Projection(w.agg)
  BY <1>1 DEF Sound, Credential, Projection
<1>3. Explains(v, d)
  <2> HIDE DEF d
  <2> QED BY <1>1, <1>2, ExplainsFrame
<1> QED BY <1>1, <1>3 DEF RecordSuccessfulVerification, w, Ok, Fail

\* UnlockAccount.
LEMMA AdminUnlockExplains ==
    ASSUME NEW v, NEW c, Sound(c), Explains(v, c)
    PROVE  Explains(v, Unlock(c, "admin").agg)
<1>1. Explains(v, unlock(c, "admin"))
  BY UnlockExplains DEF IdentityRef
<1> QED BY <1>1 DEF Unlock, Ok, Fail

\* replacePassword followed by recording that it happened.
LEMMA ReplaceExplains ==
    ASSUME NEW v, NEW c, Sound(c), Explains(v, c),
           NEW new \in Passwords \cup {NoPassword}, NEW now \in Nat, NEW e \in CredentialEvent,
           e.type \in {"PasswordChanged", "PasswordResetCompleted"}
    PROVE  /\ replacePassword(c, new, now).err # "" => Explains(v, replacePassword(c, new, now).agg)
           /\ replacePassword(c, new, now).err = "" =>
                 Explains(v, Record(replacePassword(c, new, now).agg, e))
<1> DEFINE r == replacePassword(c, new, now)
           d == [c EXCEPT !.history = Remember(c),
                          !.password = new,
                          !.passwordExpiresAt = ExpiryFrom(now),
                          !.forcePasswordChange = FALSE]
<1>1. CASE new = NoPassword \/ IsReuse(c, new)
  <2>1. r.err # "" /\ r.agg = c
    BY <1>1 DEF replacePassword, Fail
  <2> QED BY <2>1
<1>2. CASE ~(new = NoPassword \/ IsReuse(c, new))
  <2>1. r.err = "" /\ r.agg = d
    BY <1>2 DEF replacePassword, Ok
  <2>2. Sound(r.agg)
    BY ReplaceSound
  <2>3. d \in Credential
    BY <2>1, <2>2 DEF Sound
  <2>4. d.events = c.events /\ Projection(d) = Apply(Projection(c), e)
    BY ApplyNewPassword DEF Sound, Credential, Projection
  <2>5. Explains(v, Record(d, e))
    <3> HIDE DEF d
    <3> QED BY <2>3, <2>4, ExplainsRecord
  <2> QED BY <2>1, <2>5
<1> QED BY <1>1, <1>2

\* ChangePassword.
LEMMA ChangeExplains ==
    ASSUME NEW v, NEW c, Sound(c), Explains(v, c),
           NEW new \in Passwords \cup {NoPassword}, NEW now \in Nat
    PROVE  Explains(v, ChangePassword(c, new, now).agg)
<1> DEFINE w    == EnsureVerifiable(c, now)
           kind == IF RequiresPasswordChange(w.agg, now) THEN "FORCED" ELSE "USER_INITIATED"
           r    == replacePassword(w.agg, new, now)
           e    == PasswordChanged(kind)
<1>1. Explains(v, w.agg) /\ Sound(w.agg)
  BY VerifiableExplains, EnsureVerifiableSound
<1>2. e \in CredentialEvent /\ e.type = "PasswordChanged"
  BY EventTypes DEF PasswordChanged
<1> HIDE DEF w, kind, e
<1>3. /\ r.err # "" => Explains(v, r.agg)
      /\ r.err = "" => Explains(v, Record(r.agg, e))
  BY <1>1, <1>2, ReplaceExplains
<1> HIDE DEF r
<1>4. ChangePassword(c, new, now) = IF w.err # "" THEN w ELSE IF r.err # "" THEN r ELSE Ok(Record(r.agg, e))
  BY DEF ChangePassword, w, kind, r, e
<1>5. CASE w.err # ""
  BY <1>1, <1>4, <1>5
<1>6. CASE w.err = "" /\ r.err # ""
  BY <1>3, <1>4, <1>6
<1>7. CASE w.err = "" /\ r.err = ""
  <2>1. ChangePassword(c, new, now) = Ok(Record(r.agg, e))
    BY <1>4, <1>7
  <2>2. ChangePassword(c, new, now).agg = Record(r.agg, e)
    BY <2>1, OkFields
  <2> QED BY <1>3, <1>7, <2>2
<1> QED BY <1>5, <1>6, <1>7

\* ResetPassword.
LEMMA ResetExplains ==
    ASSUME NEW v, NEW c, Sound(c), Explains(v, c),
           NEW new \in Passwords \cup {NoPassword}, NEW now \in Nat
    PROVE  Explains(v, ResetPassword(c, new, now).agg)
<1> DEFINE r == replacePassword(c, new, now)
           e == PasswordResetCompleted
<1>1. e \in CredentialEvent /\ e.type = "PasswordResetCompleted"
  BY EventTypes DEF PasswordResetCompleted
<1> HIDE DEF e
<1>2. /\ r.err # "" => Explains(v, r.agg)
      /\ r.err = "" => Explains(v, Record(r.agg, e))
  BY <1>1, ReplaceExplains
<1> HIDE DEF r
<1>3. ResetPassword(c, new, now) = IF c.lockoutStatus = LockoutPermanent THEN Fail("ErrAccountLocked", c)
                                   ELSE IF r.err # "" THEN r ELSE Ok(Record(r.agg, e))
  BY DEF ResetPassword, r, e
<1>4. CASE c.lockoutStatus = LockoutPermanent
  BY <1>3, <1>4 DEF Fail
<1>5. CASE c.lockoutStatus # LockoutPermanent /\ r.err # ""
  BY <1>2, <1>3, <1>5
<1>6. CASE c.lockoutStatus # LockoutPermanent /\ r.err = ""
  <2>1. ResetPassword(c, new, now) = Ok(Record(r.agg, e))
    BY <1>3, <1>6
  <2>2. ResetPassword(c, new, now).agg = Record(r.agg, e)
    BY <2>1, OkFields
  <2> QED BY <1>2, <1>6, <2>2
<1> QED BY <1>4, <1>5, <1>6

\* MarkForcePasswordChange.
LEMMA ForceExplains ==
    ASSUME NEW v, NEW c, Sound(c), Explains(v, c), NEW by
    PROVE  Explains(v, MarkForcePasswordChange(c, by).agg)
<1> DEFINE b == [c EXCEPT !.forcePasswordChange = TRUE]
           e == AdminInitiatedPasswordReset
<1>1. b \in Credential /\ b.events = c.events
  BY DEF Sound, Credential
<1>2. e \in CredentialEvent
  BY EventTypes
<1>3. Projection(b) = Apply(Projection(c), e)
  BY ApplyForced DEF Projection, Sound, Credential
<1>4. Explains(v, Record(b, e))
  <2> HIDE DEF b, e
  <2> QED BY <1>1, <1>2, <1>3, ExplainsRecord
<1> QED BY <1>4 DEF MarkForcePasswordChange, Ok, Fail

\* Whatever the callers do, the pending events bring the consumer up to date.
LEMMA StepExplains ==
    ASSUME Inv, EventsReproduceState, [ObserverNext]_observerVars
    PROVE  EventsReproduceState'
<1> USE DEF Inv
<1>0. Explains(consumer, cred) /\ \A now \in Nows : now \in Nat
  BY DEF EventsReproduceState, Explains, Nows
<1>a. ASSUME Explains(consumer, cred'), UNCHANGED consumer PROVE EventsReproduceState'
  BY <1>a DEF EventsReproduceState, Explains
<1>1. CASE PreCheck /\ UNCHANGED consumer
  BY <1>0, <1>1, <1>a, VerifiableExplains DEF PreCheck, Call
<1>2. CASE FailedAttempt /\ UNCHANGED consumer
  BY <1>0, <1>2, <1>a, FailedAttemptExplains DEF FailedAttempt, Call
<1>3. CASE Verification /\ UNCHANGED consumer
  BY <1>0, <1>3, <1>a, VerificationExplains DEF Verification, Call
<1>4. CASE AdminUnlock /\ UNCHANGED consumer
  BY <1>0, <1>4, <1>a, AdminUnlockExplains DEF AdminUnlock, Call
<1>5. CASE PasswordChange /\ UNCHANGED consumer
  BY <1>0, <1>5, <1>a, ChangeExplains DEF PasswordChange, Call
<1>6. CASE PasswordReset /\ UNCHANGED consumer
  BY <1>0, <1>6, <1>a, ResetExplains DEF PasswordReset, Call
<1>7. CASE ForceChange /\ UNCHANGED consumer
  BY <1>0, <1>7, <1>a, ForceExplains DEF ForceChange, Call
<1>8. CASE PullEvents /\ consumer' = ApplyAll(consumer, cred.events)
  <2>1. cred'.events = << >> /\ Projection(cred') = Projection(cred)
    BY <1>8 DEF PullEvents, ClearEvents, Projection, Sound, Credential
  <2>2. consumer' = Projection(cred)
    BY <1>0, <1>8 DEF Explains
  <2> QED BY <2>1, <2>2, ApplyNone DEF EventsReproduceState
<1>9. CASE (Tick /\ UNCHANGED consumer) \/ UNCHANGED observerVars
  BY <1>0, <1>9, <1>a DEF Tick, observerVars
<1> QED
  BY <1>1, <1>2, <1>3, <1>4, <1>5, <1>6, <1>7, <1>8, <1>9 DEF ObserverNext

\* Watching the events restricts no caller: what is proved of Spec holds with
\* the consumer too.
LEMMA ObserverStep ==
    /\ ObserverInit => Init
    /\ [ObserverNext]_observerVars => [Next]_vars
BY DEF ObserverInit, ObserverNext, observerVars, Next, vars

\* A consumer that sees nothing but the events holds the lock, its end and the
\* forced-change flag of the credential once it has applied the pending ones,
\* for every policy and any sequence of calls of the aggregate's methods.
THEOREM EventsAlwaysReproduceState == ObserverSpec => []EventsReproduceState
<1>1. ObserverInit => Inv /\ EventsReproduceState
  <2> SUFFICES ASSUME ObserverInit PROVE Inv /\ EventsReproduceState
    OBVIOUS
  <2>1. cred.events = << >>
    BY DEF ObserverInit, Init, NewCredential
  <2> QED BY <2>1, InitInv, ApplyNone DEF ObserverInit, EventsReproduceState
<1>2. Inv /\ EventsReproduceState /\ [ObserverNext]_observerVars => (Inv /\ EventsReproduceState)'
  BY StepExplains, StepInv, ObserverStep
<1> QED
  BY <1>1, <1>2, PTL DEF ObserverSpec

=============================================================================
