----------------------- MODULE CredentialAggregateProofs -----------------------
(***************************************************************************)
(* Every method of the Credential aggregate preserves Sound, the           *)
(* conjunction of the type and of what holds of a credential between       *)
(* calls, for every policy LockoutPolicy.Validate and                      *)
(* CredentialPolicy.Validate accept.                                       *)
(***************************************************************************)
EXTENDS CredentialAggregate, TLAPS

\* The inductive invariant, of one credential.
Sound(c) ==
    /\ c \in Credential
    /\ CountMatchesStatus(c)
    /\ LockMatchesLadder(c)
    /\ RecentPasswords(c)

\* What one call may do to the lockout state of c, leaving d: the escalation
\* counter moves only when a lock starts, and a lock in force changes only by
\* being lifted.
LockStep(c, d, now) ==
    /\ \/ d.lockoutHistoryCount = c.lockoutHistoryCount
       \/ /\ d.lockoutHistoryCount = c.lockoutHistoryCount + 1
          /\ d.lockoutStatus # LockoutUnlocked
          /\ ~IsLocked(c, now)
    /\ IsLocked(c, now) /\ d.lockoutStatus # LockoutUnlocked => LockoutState(d) = LockoutState(c)

USE LockoutPolicyValid, CredentialPolicyValid, PasswordsNotZero

-----------------------------------------------------------------------------
(* Events.                                                                 *)

\* The events the aggregate records are events it declares.
LEMMA EventTypes ==
    /\ \A r \in {"INVALID_CREDENTIALS", "ACCOUNT_LOCKED"}, n \in Nat :
          LoginFailed(r, n) \in CredentialEvent
    /\ \A s \in LockoutStatus, t \in OptTime : AccountLocked(s, t) \in CredentialEvent
    /\ \A by \in IdentityRef, s \in LockoutStatus : AccountUnlocked(by, s) \in CredentialEvent
    /\ \A k \in {"USER_INITIATED", "FORCED"} : PasswordChanged(k) \in CredentialEvent
    /\ PasswordResetCompleted \in CredentialEvent
    /\ AdminInitiatedPasswordReset \in CredentialEvent
BY DEF LoginFailed, AccountLocked, AccountUnlocked, PasswordChanged,
       PasswordResetCompleted, AdminInitiatedPasswordReset, CredentialEvent

\* Recording an event changes nothing but the events.
LEMMA RecordType ==
    ASSUME NEW c \in Credential, NEW e \in CredentialEvent
    PROVE  Record(c, e) \in Credential
<1>1. c.events \in Seq(CredentialEvent)
  BY DEF Credential
<1>2. Append(c.events, e) \in Seq(CredentialEvent)
  BY <1>1
<1>3. QED
  BY <1>2 DEF Record, Credential

\* So it preserves soundness, of which the events are no part.
LEMMA RecordSound ==
    ASSUME NEW c, Sound(c), NEW e \in CredentialEvent
    PROVE  Sound(Record(c, e))
<1>1. Record(c, e) \in Credential
  BY RecordType DEF Sound
<1>2. QED
  BY <1>1 DEF Sound, Record, Credential, CountMatchesStatus, LockMatchesLadder, RecentPasswords

\* A new credential is sound.
LEMMA NewCredentialSound ==
    ASSUME NEW p \in Passwords, NEW force \in BOOLEAN, NEW now \in Nat
    PROVE  Sound(NewCredential(p, force, now))
<1> DEFINE c == NewCredential(p, force, now)
<1>1. ExpiryFrom(now) \in OptTime
  BY DEF ExpiryFrom, OptTime
<1>2. << >> \in Seq(CredentialEvent) /\ << >> \in Seq(Passwords)
  OBVIOUS
<1>3. c \in Credential
  BY <1>1, <1>2 DEF NewCredential, Credential, OptTime, NoTime, LockoutStatus
<1>4. CountMatchesStatus(c) /\ LockMatchesLadder(c)
  BY DEF NewCredential, CountMatchesStatus, LockMatchesLadder, NoTime,
         LockoutUnlocked, LockoutTemporary, LockoutPermanent
<1>5. RecentPasswords(c)
  BY DEF NewCredential, RecentPasswords
<1>6. QED
  BY <1>3, <1>4, <1>5 DEF Sound

-----------------------------------------------------------------------------
(* Lockout.                                                                *)

\* unlock leaves a sound, unlocked credential with nothing counted.
LEMMA UnlockSound ==
    ASSUME NEW c, Sound(c), NEW by \in IdentityRef
    PROVE  /\ Sound(unlock(c, by))
           /\ unlock(c, by).lockoutStatus = LockoutUnlocked
           /\ unlock(c, by).lockoutHistoryCount = c.lockoutHistoryCount
<1> DEFINE d == [c EXCEPT !.lockoutStatus = LockoutUnlocked,
                          !.lockedAt = NoTime,
                          !.lockedUntil = NoTime,
                          !.failedAttemptCount = 0,
                          !.lastFailedAt = NoTime]
<1>1. d \in Credential
  BY DEF Sound, Credential, OptTime, NoTime, LockoutStatus
<1>2. Sound(d)
  BY <1>1 DEF Sound, Credential, CountMatchesStatus, LockMatchesLadder, RecentPasswords,
              LockoutUnlocked, LockoutTemporary, LockoutPermanent
<1>3. AccountUnlocked(by, c.lockoutStatus) \in CredentialEvent
  BY EventTypes DEF Sound, Credential
<1>4. Sound(Record(d, AccountUnlocked(by, c.lockoutStatus)))
  BY <1>2, <1>3, RecordSound
<1>5. QED
  BY <1>1, <1>4 DEF unlock, Record, Credential, Sound

\* EnsureVerifiable is sound, leaves the credential alone when it refuses, and
\* leaves an unlocked one behind when it does not.
LEMMA EnsureVerifiableSound ==
    ASSUME NEW c, Sound(c), NEW now \in Nat
    PROVE  LET v == EnsureVerifiable(c, now)
           IN  /\ Sound(v.agg)
               /\ v.err # "" => v.agg = c
               /\ v.err = "" => v.agg.lockoutStatus = LockoutUnlocked
               /\ v.err = "" <=> ~IsLocked(c, now)
               /\ v.agg.lockoutHistoryCount = c.lockoutHistoryCount
<1>1. CASE IsLocked(c, now)
  BY <1>1 DEF EnsureVerifiable, Fail
<1>2. CASE ~IsLocked(c, now) /\ c.lockoutStatus = LockoutUnlocked
  BY <1>2 DEF EnsureVerifiable, Ok
<1>3. CASE ~IsLocked(c, now) /\ c.lockoutStatus # LockoutUnlocked
  <2>1. "" \in IdentityRef
    BY DEF IdentityRef
  <2>2. /\ EnsureVerifiable(c, now).err = ""
        /\ EnsureVerifiable(c, now).agg = unlock(c, "")
    BY <1>3 DEF EnsureVerifiable, Ok
  <2>3. /\ Sound(unlock(c, ""))
        /\ unlock(c, "").lockoutStatus = LockoutUnlocked
        /\ unlock(c, "").lockoutHistoryCount = c.lockoutHistoryCount
    BY <2>1, UnlockSound
  <2>4. QED
    BY <1>3, <2>2, <2>3
<1>4. QED
  BY <1>1, <1>2, <1>3

\* A counted failure takes an unlocked credential to one failure more, or to
\* the lock the ladder prescribes.
LEMMA CountFailureSound ==
    ASSUME NEW c, Sound(c), c.lockoutStatus = LockoutUnlocked, NEW now \in Nat
    PROVE  /\ Sound(CountFailure(c, now))
           /\ \/ CountFailure(c, now).lockoutHistoryCount = c.lockoutHistoryCount
              \/ /\ CountFailure(c, now).lockoutHistoryCount = c.lockoutHistoryCount + 1
                 /\ CountFailure(c, now).lockoutStatus # LockoutUnlocked
<1> DEFINE n == FailuresSoFar(c, now) + 1
           d == [c EXCEPT !.failedAttemptCount = n, !.lastFailedAt = now]
           e == LoginFailed("INVALID_CREDENTIALS", n)
           f == Record(d, e)
<1>1. n \in Nat /\ n >= 1
  BY DEF FailuresSoFar, Sound, Credential
<1>2. d \in Credential
  BY <1>1 DEF Sound, Credential, OptTime
<1>3. e \in CredentialEvent
  BY <1>1, EventTypes
<1> HIDE DEF n
<1>4. CASE n < Threshold
  <2>1. CountFailure(c, now) = f
    BY <1>1, <1>4 DEF CountFailure, n
  <2>2. Sound(d)
    BY <1>1, <1>2, <1>4 DEF Sound, Credential, CountMatchesStatus, LockMatchesLadder,
          RecentPasswords, NoTime, LockoutUnlocked, LockoutTemporary, LockoutPermanent
  <2>3. Sound(f)
    BY <1>3, <2>2, RecordSound
  <2>4. f.lockoutHistoryCount = c.lockoutHistoryCount
    BY <1>2 DEF Record, Credential, Sound
  <2>5. QED
    BY <2>1, <2>3, <2>4
<1>5. CASE n >= Threshold
  <2> DEFINE k    == c.lockoutHistoryCount + 1
             temp == k <= Len(TemporaryDurations)
             st   == IF temp THEN LockoutTemporary ELSE LockoutPermanent
             til  == IF temp THEN now + TemporaryDurations[k] ELSE NoTime
             g    == [d EXCEPT !.lockoutHistoryCount = k,
                               !.lockedAt = now,
                               !.lockoutStatus = st,
                               !.lockedUntil = til]
  <2>1. k \in Nat /\ k >= 1
    BY DEF Sound, Credential
  <2>2. temp => TemporaryDurations[k] \in Nat
    BY <2>1
  <2>3. st \in LockoutStatus /\ til \in OptTime
    BY <2>1, <2>2 DEF LockoutStatus, OptTime
  <2>4. g \in Credential
    BY <1>2, <2>1, <2>3 DEF Credential, OptTime
  <2>5. Sound(g)
    <3>1. /\ g.failedAttemptCount = n /\ g.lastFailedAt = now
          /\ g.lockoutHistoryCount = k /\ g.lockedAt = now
          /\ g.lockoutStatus = st /\ g.lockedUntil = til
          /\ g.history = c.history /\ g.password = c.password
      BY <1>2, <2>4 DEF Credential, Sound
    <3> HIDE DEF g
    <3>2. CountMatchesStatus(g)
      BY <1>1, <1>5, <3>1 DEF CountMatchesStatus, NoTime,
            LockoutUnlocked, LockoutTemporary, LockoutPermanent
    <3>3. LockMatchesLadder(g)
      BY <2>1, <2>2, <3>1 DEF LockMatchesLadder, NoTime,
            LockoutUnlocked, LockoutTemporary, LockoutPermanent
    <3>4. RecentPasswords(g)
      BY <3>1 DEF Sound, RecentPasswords
    <3>5. QED
      BY <2>4, <3>2, <3>3, <3>4 DEF Sound
  <2>6. Sound(Record(g, e))
    BY <1>3, <2>5, RecordSound
  <2>7. AccountLocked(st, til) \in CredentialEvent
    BY <2>3, EventTypes
  <2>8. Sound(Record(Record(g, e), AccountLocked(st, til)))
    BY <2>6, <2>7, RecordSound
  <2>9. CountFailure(c, now) = Record(Record(g, e), AccountLocked(st, til))
    <3>1. CountFailure(c, now) = lock(f, now)
      BY <1>1, <1>5 DEF CountFailure, n
    <3>2. f \in Credential /\ f.lockoutHistoryCount = c.lockoutHistoryCount
      BY <1>2, <1>3, RecordType DEF Record, Credential, Sound
    <3>3. lock(f, now) = Record([f EXCEPT !.lockoutHistoryCount = k,
                                          !.lockedAt = now,
                                          !.lockoutStatus = st,
                                          !.lockedUntil = til], AccountLocked(st, til))
      BY <3>2 DEF lock
    <3>4. [f EXCEPT !.lockoutHistoryCount = k,
                    !.lockedAt = now,
                    !.lockoutStatus = st,
                    !.lockedUntil = til] = Record(g, e)
      BY <1>2, <3>2 DEF Record, Credential
    <3>5. QED
      BY <3>1, <3>3, <3>4
  <2>10. Record(Record(g, e), AccountLocked(st, til)).lockoutHistoryCount = k
         /\ Record(Record(g, e), AccountLocked(st, til)).lockoutStatus = st
    BY <2>4 DEF Record, Credential
  <2>11. QED
    BY <2>8, <2>9, <2>10 DEF LockoutUnlocked, LockoutTemporary, LockoutPermanent
<1>6. QED
  BY <1>1, <1>4, <1>5

\* RecordFailedAttempt.
LEMMA RecordFailedAttemptSound ==
    ASSUME NEW c, Sound(c), NEW now \in Nat
    PROVE  /\ Sound(RecordFailedAttempt(c, now).agg)
           /\ LockStep(c, RecordFailedAttempt(c, now).agg, now)
<1> DEFINE v == EnsureVerifiable(c, now)
           d == RecordFailedAttempt(c, now).agg
<1>1. /\ Sound(v.agg)
      /\ v.err # "" => v.agg = c
      /\ v.err = "" => v.agg.lockoutStatus = LockoutUnlocked
      /\ v.err = "" <=> ~IsLocked(c, now)
      /\ v.agg.lockoutHistoryCount = c.lockoutHistoryCount
  BY EnsureVerifiableSound
<1>2. CASE v.err = ""
  <2>1. d = CountFailure(v.agg, now)
    BY <1>2 DEF RecordFailedAttempt, Ok
  <2>2. /\ Sound(CountFailure(v.agg, now))
        /\ \/ CountFailure(v.agg, now).lockoutHistoryCount = v.agg.lockoutHistoryCount
           \/ /\ CountFailure(v.agg, now).lockoutHistoryCount = v.agg.lockoutHistoryCount + 1
              /\ CountFailure(v.agg, now).lockoutStatus # LockoutUnlocked
    BY <1>1, <1>2, CountFailureSound
  <2>3. QED
    BY <1>1, <1>2, <2>1, <2>2 DEF LockStep
<1>3. CASE v.err # ""
  <2> DEFINE e == LoginFailed("ACCOUNT_LOCKED", c.failedAttemptCount)
  <2>1. d = Record(c, e)
    BY <1>1, <1>3 DEF RecordFailedAttempt, Fail
  <2>2. e \in CredentialEvent
    BY EventTypes DEF Sound, Credential
  <2>3. Sound(Record(c, e))
    BY <2>2, RecordSound
  <2>4. LockoutState(Record(c, e)) = LockoutState(c)
        /\ Record(c, e).lockoutHistoryCount = c.lockoutHistoryCount
    BY DEF Sound, Credential, Record, LockoutState
  <2>5. QED
    BY <2>1, <2>3, <2>4 DEF LockStep
<1>4. QED
  BY <1>2, <1>3

\* EnsureVerifiable, called on its own before the password is verified.
LEMMA PreCheckStep ==
    ASSUME NEW c, Sound(c), NEW now \in Nat
    PROVE  /\ Sound(EnsureVerifiable(c, now).agg)
           /\ LockStep(c, EnsureVerifiable(c, now).agg, now)
<1>1. LET v == EnsureVerifiable(c, now)
      IN  /\ Sound(v.agg)
          /\ v.err # "" => v.agg = c
          /\ v.err = "" => v.agg.lockoutStatus = LockoutUnlocked
          /\ v.err = "" <=> ~IsLocked(c, now)
          /\ v.agg.lockoutHistoryCount = c.lockoutHistoryCount
  BY EnsureVerifiableSound
<1>2. QED
  BY <1>1 DEF LockStep

\* RecordSuccessfulVerification.
LEMMA RecordSuccessSound ==
    ASSUME NEW c, Sound(c), NEW now \in Nat
    PROVE  /\ Sound(RecordSuccessfulVerification(c, now).agg)
           /\ LockStep(c, RecordSuccessfulVerification(c, now).agg, now)
<1> DEFINE v == EnsureVerifiable(c, now)
           b == v.agg
           d == [b EXCEPT !.failedAttemptCount = 0, !.lastFailedAt = NoTime]
<1>1. /\ Sound(b)
      /\ v.err # "" => b = c
      /\ v.err = "" => b.lockoutStatus = LockoutUnlocked
      /\ v.err = "" <=> ~IsLocked(c, now)
      /\ b.lockoutHistoryCount = c.lockoutHistoryCount
  BY EnsureVerifiableSound
<1>2. CASE v.err # ""
  BY <1>1, <1>2, PreCheckStep DEF RecordSuccessfulVerification
<1>3. CASE v.err = ""
  <2>1. RecordSuccessfulVerification(c, now).agg = d
    BY <1>3 DEF RecordSuccessfulVerification, Ok
  <2> HIDE DEF b
  <2>2. d \in Credential
    BY <1>1 DEF Sound, Credential, OptTime, NoTime
  <2>3. d.lockoutHistoryCount = c.lockoutHistoryCount /\ d.lockoutStatus = LockoutUnlocked
    BY <1>1, <1>3 DEF Sound, Credential
  <2>4. Sound(d)
    <3>1. /\ b \in Credential /\ LockMatchesLadder(b) /\ RecentPasswords(b)
          /\ b.lockoutStatus = LockoutUnlocked
      BY <1>1, <1>3 DEF Sound
    <3>2. CountMatchesStatus(d)
      BY <2>2, <2>3, <3>1 DEF Credential, CountMatchesStatus
    <3>3. LockMatchesLadder(d)
      BY <3>1 DEF Credential, LockMatchesLadder,
                  LockoutUnlocked, LockoutTemporary, LockoutPermanent
    <3>4. RecentPasswords(d)
      BY <3>1 DEF Credential, RecentPasswords
    <3>5. QED
      BY <2>2, <3>2, <3>3, <3>4 DEF Sound
  <2>5. QED
    BY <2>1, <2>3, <2>4 DEF LockStep
<1>4. QED
  BY <1>2, <1>3

\* Unlock, by an administrator.
LEMMA AdminUnlockSound ==
    ASSUME NEW c, Sound(c), NEW by \in IdentityRef, NEW now \in Nat
    PROVE  /\ Sound(Unlock(c, by).agg)
           /\ LockStep(c, Unlock(c, by).agg, now)
<1>1. CASE c.lockoutStatus = LockoutUnlocked
  BY <1>1 DEF Unlock, Fail, LockStep
<1>2. CASE c.lockoutStatus # LockoutUnlocked
  <2>1. Unlock(c, by).agg = unlock(c, by)
    BY <1>2 DEF Unlock, Ok
  <2>2. /\ Sound(unlock(c, by))
        /\ unlock(c, by).lockoutStatus = LockoutUnlocked
        /\ unlock(c, by).lockoutHistoryCount = c.lockoutHistoryCount
    BY UnlockSound
  <2>3. QED
    BY <2>1, <2>2 DEF LockStep
<1>3. QED
  BY <1>1, <1>2

-----------------------------------------------------------------------------
(* Passwords.                                                              *)

\* The clipped history starts with the replaced password and continues with
\* the old history.
LEMMA RememberShape ==
    ASSUME NEW c \in Credential
    PROVE  /\ Remember(c) \in Seq(Passwords)
           /\ Len(Remember(c)) <= HistoryDepth
           /\ \A i \in 1..Len(Remember(c)) :
                 IF i = 1 THEN Remember(c)[i] = c.password
                 ELSE i - 1 \in 1..Len(c.history) /\ Remember(c)[i] = c.history[i - 1]
<1> DEFINE h == <<c.password>> \o c.history
<1>1. c.history \in Seq(Passwords) /\ <<c.password>> \in Seq(Passwords)
  BY DEF Credential
<1>2. /\ h \in Seq(Passwords) /\ Len(h) = 1 + Len(c.history)
      /\ \A i \in 1..Len(h) : h[i] = IF i = 1 THEN c.password ELSE c.history[i - 1]
  BY <1>1
<1> HIDE DEF h
<1>3. CASE Len(h) > HistoryDepth
  <2>1. Remember(c) = SubSeq(h, 1, HistoryDepth)
    BY <1>3 DEF Remember, h
  <2>2. /\ SubSeq(h, 1, HistoryDepth) \in Seq(Passwords)
        /\ Len(SubSeq(h, 1, HistoryDepth)) = HistoryDepth
        /\ \A i \in 1..HistoryDepth : SubSeq(h, 1, HistoryDepth)[i] = h[i]
    BY <1>2, <1>3
  <2>3. QED
    BY <1>1, <1>2, <1>3, <2>1, <2>2
<1>4. CASE Len(h) <= HistoryDepth
  <2>1. Remember(c) = h
    BY <1>1, <1>2, <1>4 DEF Remember, h
  <2>2. QED
    BY <1>1, <1>2, <1>4, <2>1
<1>5. QED
  BY <1>1, <1>2, <1>3, <1>4

\* Replacing the password with one that is no reuse keeps the recent ones
\* distinct, and leaves the lockout state alone.
LEMMA ReplaceSound ==
    ASSUME NEW c, Sound(c), NEW new \in Passwords \cup {NoPassword}, NEW now \in Nat
    PROVE  /\ Sound(replacePassword(c, new, now).agg)
           /\ LockoutState(replacePassword(c, new, now).agg) = LockoutState(c)
<1>1. CASE new = NoPassword \/ IsReuse(c, new)
  BY <1>1 DEF replacePassword, Fail
<1>2. CASE new # NoPassword /\ ~IsReuse(c, new)
  <2> DEFINE d == [c EXCEPT !.history = Remember(c),
                            !.password = new,
                            !.passwordExpiresAt = ExpiryFrom(now),
                            !.forcePasswordChange = FALSE]
  <2>1. c \in Credential
    BY DEF Sound
  <2>2. ExpiryFrom(now) \in OptTime
    BY DEF ExpiryFrom, OptTime
  <2>3. d \in Credential
    BY <1>2, <2>1, <2>2, RememberShape DEF Credential
  <2>4. /\ d.history = Remember(c) /\ d.password = new
        /\ d.failedAttemptCount = c.failedAttemptCount /\ d.lastFailedAt = c.lastFailedAt
        /\ d.lockoutStatus = c.lockoutStatus /\ d.lockedAt = c.lockedAt
        /\ d.lockedUntil = c.lockedUntil /\ d.lockoutHistoryCount = c.lockoutHistoryCount
    BY <2>1 DEF Credential
  <2>5. replacePassword(c, new, now).agg = d
    BY <1>2 DEF replacePassword, Ok
  <2> HIDE DEF d
  <2>6. RecentPasswords(d)
    <3>1. Len(c.history) \in Nat
      BY <2>1 DEF Credential
    <3>2. /\ c.password # new
          /\ \A i \in 1..Len(c.history) : c.history[i] # new
      BY <1>2 DEF IsReuse
    <3>3. /\ \A i \in 1..Len(c.history) : c.history[i] # c.password
          /\ \A i, j \in 1..Len(c.history) : i # j => c.history[i] # c.history[j]
      BY DEF Sound, RecentPasswords
    <3>4. /\ Len(d.history) \in Nat /\ Len(d.history) <= HistoryDepth
          /\ \A i \in 1..Len(d.history) :
                IF i = 1 THEN d.history[i] = c.password
                ELSE i - 1 \in 1..Len(c.history) /\ d.history[i] = c.history[i - 1]
      BY <2>1, <2>4, RememberShape
    <3>5. \A i \in 1..Len(d.history) : d.history[i] # d.password
      BY <2>4, <3>2, <3>4
    <3>6. ASSUME NEW i \in 1..Len(d.history), NEW j \in 1..Len(d.history), i # j
          PROVE  d.history[i] # d.history[j]
      <4>1. CASE i = 1
        BY <3>3, <3>4, <3>6, <4>1
      <4>2. CASE j = 1
        BY <3>3, <3>4, <3>6, <4>2
      <4>3. CASE i # 1 /\ j # 1
        <5>1. /\ i - 1 \in 1..Len(c.history) /\ d.history[i] = c.history[i - 1]
              /\ j - 1 \in 1..Len(c.history) /\ d.history[j] = c.history[j - 1]
          BY <3>4, <4>3
        <5>2. i - 1 # j - 1
          BY <3>4, <3>6
        <5>3. QED
          BY <3>3, <5>1, <5>2
      <4>4. QED
        BY <4>1, <4>2, <4>3
    <3>7. QED
      BY <3>4, <3>5, <3>6 DEF RecentPasswords
  <2>7. Sound(d) /\ LockoutState(d) = LockoutState(c)
    BY <2>3, <2>4, <2>6 DEF Sound, CountMatchesStatus, LockMatchesLadder, LockoutState
  <2>8. QED
    BY <2>5, <2>7
<1>3. QED
  BY <1>1, <1>2

\* What a call did to the lockout state is judged by that state alone.
LEMMA LockStepFrame ==
    ASSUME NEW c, NEW b, NEW d, NEW now, LockStep(c, b, now), LockoutState(d) = LockoutState(b)
    PROVE  LockStep(c, d, now)
<1>1. d.lockoutStatus = b.lockoutStatus /\ d.lockoutHistoryCount = b.lockoutHistoryCount
  BY DEF LockoutState
<1>2. QED
  BY <1>1 DEF LockStep

\* A call that leaves the lockout state alone is such a step.
LEMMA LockStepStutter ==
    ASSUME NEW c, NEW d, NEW now, LockoutState(d) = LockoutState(c)
    PROVE  LockStep(c, d, now)
<1>1. d.lockoutHistoryCount = c.lockoutHistoryCount
  BY DEF LockoutState
<1>2. QED
  BY <1>1 DEF LockStep

\* Recording an event leaves the lockout state alone.
LEMMA RecordFrame ==
    ASSUME NEW c, Sound(c), NEW e
    PROVE  LockoutState(Record(c, e)) = LockoutState(c)
BY DEF Sound, Credential, Record, LockoutState

\* ChangePassword.
LEMMA ChangePasswordSound ==
    ASSUME NEW c, Sound(c), NEW new \in Passwords \cup {NoPassword}, NEW now \in Nat
    PROVE  /\ Sound(ChangePassword(c, new, now).agg)
           /\ LockStep(c, ChangePassword(c, new, now).agg, now)
<1> DEFINE v    == EnsureVerifiable(c, now)
           kind == IF RequiresPasswordChange(v.agg, now) THEN "FORCED" ELSE "USER_INITIATED"
           r    == replacePassword(v.agg, new, now)
           d    == Record(r.agg, PasswordChanged(kind))
<1>1. Sound(v.agg) /\ LockStep(c, v.agg, now)
  BY PreCheckStep
<1>2. Sound(r.agg) /\ LockoutState(r.agg) = LockoutState(v.agg)
  BY <1>1, ReplaceSound
<1>3. PasswordChanged(kind) \in CredentialEvent
  BY EventTypes
<1>4. ChangePassword(c, new, now).agg \in {v.agg, r.agg, d}
  BY DEF ChangePassword, Ok
<1> HIDE DEF v, kind, r
<1>5. LockStep(c, r.agg, now)
  BY <1>1, <1>2, LockStepFrame
<1>6. Sound(d) /\ LockoutState(d) = LockoutState(v.agg)
  BY <1>2, <1>3, RecordSound, RecordFrame
<1>7. LockStep(c, d, now)
  BY <1>1, <1>6, LockStepFrame
<1>8. QED
  BY <1>1, <1>2, <1>4, <1>5, <1>6, <1>7

\* ResetPassword.
LEMMA ResetPasswordSound ==
    ASSUME NEW c, Sound(c), NEW new \in Passwords \cup {NoPassword}, NEW now \in Nat
    PROVE  /\ Sound(ResetPassword(c, new, now).agg)
           /\ LockStep(c, ResetPassword(c, new, now).agg, now)
<1> DEFINE r == replacePassword(c, new, now)
           d == Record(r.agg, PasswordResetCompleted)
<1>1. Sound(r.agg) /\ LockoutState(r.agg) = LockoutState(c)
  BY ReplaceSound
<1>2. ResetPassword(c, new, now).agg \in {c, r.agg, d}
  BY DEF ResetPassword, Ok, Fail
<1> HIDE DEF r
<1>3. Sound(d) /\ LockoutState(d) = LockoutState(c)
  BY <1>1, EventTypes, RecordSound, RecordFrame
<1>4. LockStep(c, c, now) /\ LockStep(c, r.agg, now) /\ LockStep(c, d, now)
  BY <1>1, <1>3, LockStepStutter
<1>5. QED
  BY <1>1, <1>2, <1>3, <1>4

\* MarkForcePasswordChange.
LEMMA MarkForceSound ==
    ASSUME NEW c, Sound(c), NEW by, NEW now \in Nat
    PROVE  /\ Sound(MarkForcePasswordChange(c, by).agg)
           /\ LockStep(c, MarkForcePasswordChange(c, by).agg, now)
<1> DEFINE b == [c EXCEPT !.forcePasswordChange = TRUE]
           d == Record(b, AdminInitiatedPasswordReset)
<1>1. MarkForcePasswordChange(c, by).agg \in {c, d}
  BY DEF MarkForcePasswordChange, Ok, Fail
<1>2. Sound(b) /\ LockoutState(b) = LockoutState(c)
  BY DEF Sound, Credential, CountMatchesStatus, LockMatchesLadder, RecentPasswords, LockoutState
<1> HIDE DEF b
<1>3. Sound(d) /\ LockoutState(d) = LockoutState(c)
  BY <1>2, EventTypes, RecordSound, RecordFrame
<1>4. LockStep(c, c, now) /\ LockStep(c, d, now)
  BY <1>3, LockStepStutter
<1>5. QED
  BY <1>1, <1>3, <1>4

\* PullEvents, which is also what Snapshot keeps.
LEMMA ClearEventsSound ==
    ASSUME NEW c, Sound(c)
    PROVE  Sound(ClearEvents(c)) /\ LockoutState(ClearEvents(c)) = LockoutState(c)
<1>1. ClearEvents(c) \in Credential
  <2>1. << >> \in Seq(CredentialEvent)
    OBVIOUS
  <2>2. QED
    BY <2>1 DEF Sound, Credential, ClearEvents
<1>2. QED
  BY <1>1 DEF Sound, Credential, ClearEvents, CountMatchesStatus, LockMatchesLadder,
              RecentPasswords, LockoutState

\* A step judged by a stale reading of the clock is one judged by the clock:
\* a lock in force now was in force then.
LEMMA LockStepMonotone ==
    ASSUME NEW c, Sound(c), NEW d, NEW now \in Nat, NEW later \in Nat, now <= later,
           LockStep(c, d, now)
    PROVE  LockStep(c, d, later)
<1>1. IsLocked(c, later) => IsLocked(c, now)
  <2>1. c.lockedUntil \in Int
    BY DEF Sound, Credential, OptTime, NoTime
  <2>2. QED
    BY <2>1 DEF IsLocked
<1>2. QED
  BY <1>1 DEF LockStep

\* A snapshot of a sound credential is one RehydrateCredential accepts.
LEMMA SoundRehydrates ==
    ASSUME NEW c, Sound(c)
    PROVE  RehydrateCredential(Snapshot(c)) = Ok(ClearEvents(c))
<1>1. Sound(ClearEvents(c))
  BY ClearEventsSound
<1> DEFINE s == ClearEvents(c)
<1> HIDE DEF s
<1>2. s \in Credential /\ LockMatchesLadder(s) /\ RecentPasswords(s)
  BY <1>1 DEF Sound, s
<1>3. s.password # NoPassword /\ \A i \in 1..Len(s.history) : s.history[i] # NoPassword
  BY <1>2 DEF Credential
<1>4. s.failedAttemptCount >= 0 /\ s.lockoutHistoryCount >= 0 /\ s.lockoutStatus \in LockoutStatus
  BY <1>2 DEF Credential
<1>5. s.lockoutStatus = LockoutTemporary => s.lockedUntil # NoTime
  <2>1. SUFFICES ASSUME s.lockoutStatus = LockoutTemporary PROVE s.lockedUntil # NoTime
    OBVIOUS
  <2>2. s.lockedAt \in Nat /\ s.lockoutHistoryCount \in 1..Len(TemporaryDurations)
    BY <1>2, <2>1 DEF Credential, LockMatchesLadder, OptTime,
                      LockoutUnlocked, LockoutTemporary
  <2>3. TemporaryDurations[s.lockoutHistoryCount] \in Nat
    BY <2>2
  <2>4. QED
    BY <1>2, <2>1, <2>2, <2>3 DEF LockMatchesLadder, NoTime
<1>6. SnapshotValid(s)
  BY <1>2, <1>3, <1>4, <1>5 DEF SnapshotValid, LockMatchesLadder, RecentPasswords,
        LockoutUnlocked, LockoutTemporary, LockoutPermanent
<1>7. QED
  BY <1>6 DEF RehydrateCredential, Snapshot, s

-----------------------------------------------------------------------------
(* Who may end a lock, and what discharges a forced change.                *)

\* A call that lifts a lock finds it temporary and elapsed.
LiftStep(c, d, now) ==
    c.lockoutStatus # LockoutUnlocked /\ d.lockoutStatus = LockoutUnlocked
        => c.lockoutStatus = LockoutTemporary /\ now >= c.lockedUntil

\* A new password is new, discharges a forced change, and is not set under a
\* permanent lock; nothing else discharges one.
PasswordStep(c, d) ==
    /\ d.password # c.password =>
          /\ c.lockoutStatus # LockoutPermanent
          /\ ~IsReuse(c, d.password)
          /\ ~d.forcePasswordChange
    /\ c.forcePasswordChange /\ ~d.forcePasswordChange => d.password # c.password

\* The fields a password method works on.
PasswordState(c) == <<c.password, c.forcePasswordChange, c.history>>

LEMMA PasswordStepStutter ==
    ASSUME NEW c, NEW d, PasswordState(d) = PasswordState(c)
    PROVE  PasswordStep(c, d)
BY DEF PasswordState, PasswordStep

LEMMA RecordKeeps ==
    ASSUME NEW c, Sound(c), NEW e
    PROVE  PasswordState(Record(c, e)) = PasswordState(c) /\ Record(c, e).lockoutStatus = c.lockoutStatus
BY DEF Sound, Credential, Record, PasswordState

LEMMA OkFields ==
    ASSUME NEW a
    PROVE  Ok(a).agg = a /\ Ok(a).err = ""
BY DEF Ok

\* EnsureVerifiable.
LEMMA PreCheckLifts ==
    ASSUME NEW c, Sound(c), NEW now \in Nat
    PROVE  LET v == EnsureVerifiable(c, now)
           IN  /\ LiftStep(c, v.agg, now) /\ PasswordState(v.agg) = PasswordState(c)
               /\ v.err = "" => c.lockoutStatus # LockoutPermanent /\ ~IsLocked(c, now)
               /\ v.err # "" => v.agg = c
<1>1. c \in Credential
  BY DEF Sound
<1>2. CASE IsLocked(c, now)
  <2>1. EnsureVerifiable(c, now) = Fail("ErrAccountLocked", c)
    BY <1>2 DEF EnsureVerifiable
  <2>2. EnsureVerifiable(c, now).agg = c /\ EnsureVerifiable(c, now).err # ""
    BY <2>1 DEF Fail
  <2> QED BY <2>2, Zenon DEF LiftStep
<1>3. CASE ~IsLocked(c, now) /\ c.lockoutStatus = LockoutUnlocked
  <2>1. EnsureVerifiable(c, now) = Ok(c)
    BY <1>3 DEF EnsureVerifiable
  <2>2. EnsureVerifiable(c, now).agg = c /\ EnsureVerifiable(c, now).err = ""
    BY <2>1, OkFields, Zenon
  <2>3. c.lockoutStatus # LockoutPermanent
    BY <1>3 DEF LockoutUnlocked, LockoutPermanent
  <2> QED BY <1>3, <2>2, <2>3, Zenon DEF LiftStep
<1>4. CASE ~IsLocked(c, now) /\ c.lockoutStatus # LockoutUnlocked
  <2>1. EnsureVerifiable(c, now) = Ok(unlock(c, ""))
    BY <1>4 DEF EnsureVerifiable
  <2>2. c.lockoutStatus = LockoutTemporary /\ ~(now < c.lockedUntil)
    BY <1>1, <1>4 DEF IsLocked, Credential, LockoutStatus
  <2>3. c.lockedUntil \in Int
    BY <1>1 DEF Credential, OptTime, NoTime
  <2>4. now >= c.lockedUntil
    BY <2>2, <2>3
  <2>5. PasswordState(unlock(c, "")) = PasswordState(c)
    BY <1>1 DEF unlock, Record, Credential, PasswordState
  <2>6. EnsureVerifiable(c, now).agg = unlock(c, "") /\ EnsureVerifiable(c, now).err = ""
    BY <2>1, OkFields, Zenon
  <2>7. c.lockoutStatus # LockoutPermanent
    BY <2>2 DEF LockoutTemporary, LockoutPermanent
  <2> QED BY <1>4, <2>2, <2>4, <2>5, <2>6, <2>7, Zenon DEF LiftStep
<1> QED BY <1>2, <1>3, <1>4

\* RecordFailedAttempt and RecordSuccessfulVerification.
LEMMA AttemptLifts ==
    ASSUME NEW c, Sound(c), NEW now \in Nat
    PROVE  /\ LiftStep(c, RecordFailedAttempt(c, now).agg, now)
           /\ PasswordState(RecordFailedAttempt(c, now).agg) = PasswordState(c)
           /\ LiftStep(c, RecordSuccessfulVerification(c, now).agg, now)
           /\ PasswordState(RecordSuccessfulVerification(c, now).agg) = PasswordState(c)
<1> DEFINE v == EnsureVerifiable(c, now)
<1>1. /\ LiftStep(c, v.agg, now) /\ PasswordState(v.agg) = PasswordState(c)
      /\ v.err = "" => c.lockoutStatus # LockoutPermanent /\ ~IsLocked(c, now)
      /\ v.err # "" => v.agg = c
  BY PreCheckLifts
<1>2. Sound(v.agg) /\ v.agg \in Credential
  BY PreCheckStep DEF Sound
<1>3. RecordFailedAttempt(c, now) =
         IF v.err # ""
         THEN Fail(v.err, Record(v.agg, LoginFailed("ACCOUNT_LOCKED", v.agg.failedAttemptCount)))
         ELSE Ok(CountFailure(v.agg, now))
  BY DEF RecordFailedAttempt
<1>4. RecordSuccessfulVerification(c, now) =
         IF v.err # "" THEN v
         ELSE Ok([v.agg EXCEPT !.failedAttemptCount = 0, !.lastFailedAt = NoTime])
  BY DEF RecordSuccessfulVerification
<1>9. v.err # "" \/ v.err = ""
  OBVIOUS
<1> HIDE DEF v
<1>5. ~IsLocked(c, now) /\ c.lockoutStatus # LockoutUnlocked =>
         c.lockoutStatus = LockoutTemporary /\ now >= c.lockedUntil
  <2>1. c \in Credential
    BY DEF Sound
  <2>2. c.lockedUntil \in Int
    BY <2>1 DEF Credential, OptTime, NoTime
  <2> QED BY <2>1, <2>2 DEF IsLocked, Credential, LockoutStatus
<1>6. PasswordState(CountFailure(v.agg, now)) = PasswordState(c)
  BY <1>1, <1>2 DEF CountFailure, lock, Record, Credential, PasswordState
<1>7. CASE v.err # ""
  <2>1. RecordFailedAttempt(c, now).agg = Record(c, LoginFailed("ACCOUNT_LOCKED", c.failedAttemptCount))
    <3>1. RecordFailedAttempt(c, now) =
             Fail(v.err, Record(c, LoginFailed("ACCOUNT_LOCKED", c.failedAttemptCount)))
      BY <1>1, <1>3, <1>7, Zenon
    <3> QED BY <3>1 DEF Fail
  <2>2. RecordSuccessfulVerification(c, now).agg = c
    BY <1>1, <1>4, <1>7, Zenon
  <2> QED BY <2>1, <2>2, RecordKeeps DEF LiftStep
<1>8. CASE v.err = ""
  <2>1. RecordFailedAttempt(c, now).agg = CountFailure(v.agg, now)
    <3>1. RecordFailedAttempt(c, now) = Ok(CountFailure(v.agg, now))
      BY <1>3, <1>8, Zenon
    <3> QED BY <3>1, OkFields, Zenon
  <2>2. RecordSuccessfulVerification(c, now).agg =
           [v.agg EXCEPT !.failedAttemptCount = 0, !.lastFailedAt = NoTime]
    <3>1. RecordSuccessfulVerification(c, now) =
             Ok([v.agg EXCEPT !.failedAttemptCount = 0, !.lastFailedAt = NoTime])
      BY <1>4, <1>8, Zenon
    <3> QED BY <3>1, OkFields, Zenon
  <2>3. PasswordState(RecordSuccessfulVerification(c, now).agg) = PasswordState(c)
    BY <1>1, <1>2, <2>2 DEF Credential, PasswordState
  <2> QED BY <1>1, <1>5, <1>6, <1>8, <2>1, <2>3 DEF LiftStep
<1> QED BY <1>7, <1>8

\* An administrator's unlock says so.
LEMMA AdminUnlockRecords ==
    ASSUME NEW c, Sound(c)
    PROVE  LET d == Unlock(c, "admin").agg
           IN  /\ PasswordState(d) = PasswordState(c)
               /\ c.lockoutStatus # LockoutUnlocked =>
                     \E i \in 1..Len(d.events) : d.events[i] = AccountUnlocked("admin", c.lockoutStatus)
<1>1. c \in Credential /\ c.events \in Seq(CredentialEvent)
  BY DEF Sound, Credential
<1>2. CASE c.lockoutStatus = LockoutUnlocked
  <2>1. Unlock(c, "admin").agg = c
    BY <1>2 DEF Unlock, Fail
  <2> QED BY <1>2, <2>1
<1>3. CASE c.lockoutStatus # LockoutUnlocked
  <2>1. Unlock(c, "admin").agg = unlock(c, "admin")
    BY <1>3 DEF Unlock, Ok
  <2>2. PasswordState(unlock(c, "admin")) = PasswordState(c)
    BY <1>1 DEF unlock, Record, Credential, PasswordState
  <2>3. PICK e : e = AccountUnlocked("admin", c.lockoutStatus)
    OBVIOUS
  <2>4. unlock(c, "admin").events = Append(c.events, e)
    BY <1>1, <2>3 DEF unlock, Record, Credential
  <2>5. PICK l : l = Len(c.events) + 1
    OBVIOUS
  <2>6. l \in 1..Len(Append(c.events, e)) /\ Append(c.events, e)[l] = e
    BY <1>1, <2>5
  <2> QED BY <2>1, <2>2, <2>3, <2>4, <2>6, Zenon
<1> QED BY <1>2, <1>3

\* replacePassword, of a credential that is not locked for good.
LEMMA ReplaceIsNew ==
    ASSUME NEW c, Sound(c), c.lockoutStatus # LockoutPermanent,
           NEW new \in Passwords \cup {NoPassword}, NEW now \in Nat
    PROVE  PasswordStep(c, replacePassword(c, new, now).agg)
<1>1. c \in Credential
  BY DEF Sound
<1>2. CASE new = NoPassword \/ IsReuse(c, new)
  <2>1. replacePassword(c, new, now).agg = c
    BY <1>2 DEF replacePassword, Fail
  <2> QED BY <2>1 DEF PasswordStep
<1>3. CASE new # NoPassword /\ ~IsReuse(c, new)
  <2>1. PICK d : d = replacePassword(c, new, now).agg
    OBVIOUS
  <2>2. d = [c EXCEPT !.history = Remember(c), !.password = new,
                      !.passwordExpiresAt = ExpiryFrom(now), !.forcePasswordChange = FALSE]
    BY <1>3, <2>1 DEF replacePassword, Ok
  <2>3. d.password = new /\ d.forcePasswordChange = FALSE
    BY <1>1, <2>2 DEF Credential
  <2>4. new # c.password
    BY <1>3 DEF IsReuse
  <2> QED BY <1>3, <2>1, <2>3, <2>4 DEF PasswordStep
<1> QED BY <1>2, <1>3

\* Judged by the fields of PasswordState alone.
LEMMA PasswordStepFrame ==
    ASSUME NEW c, NEW b, NEW d, NEW e, PasswordStep(b, d), PasswordState(b) = PasswordState(c),
           c.lockoutStatus # LockoutPermanent, PasswordState(e) = PasswordState(d)
    PROVE  PasswordStep(c, e)
<1>1. /\ b.password = c.password /\ b.forcePasswordChange = c.forcePasswordChange
      /\ b.history = c.history
      /\ e.password = d.password /\ e.forcePasswordChange = d.forcePasswordChange
  BY DEF PasswordState
<1> QED BY <1>1 DEF PasswordStep, IsReuse

\* ChangePassword and ResetPassword.
LEMMA PasswordMethods ==
    ASSUME NEW c, Sound(c), NEW new \in Passwords \cup {NoPassword}, NEW now \in Nat
    PROVE  /\ PasswordStep(c, ChangePassword(c, new, now).agg)
           /\ LiftStep(c, ChangePassword(c, new, now).agg, now)
           /\ PasswordStep(c, ResetPassword(c, new, now).agg)
           /\ LiftStep(c, ResetPassword(c, new, now).agg, now)
<1>1. PasswordStep(c, ChangePassword(c, new, now).agg) /\ LiftStep(c, ChangePassword(c, new, now).agg, now)
  <2> DEFINE v    == EnsureVerifiable(c, now)
             kind == IF RequiresPasswordChange(v.agg, now) THEN "FORCED" ELSE "USER_INITIATED"
             r    == replacePassword(v.agg, new, now)
             d    == Record(r.agg, PasswordChanged(kind))
  <2>1. /\ LiftStep(c, v.agg, now) /\ PasswordState(v.agg) = PasswordState(c)
        /\ v.err = "" => c.lockoutStatus # LockoutPermanent /\ ~IsLocked(c, now)
        /\ v.err # "" => v.agg = c
    BY PreCheckLifts
  <2>2. Sound(v.agg) /\ Sound(r.agg) /\ LockoutState(r.agg) = LockoutState(v.agg)
    BY PreCheckStep, ReplaceSound
  <2>3. /\ v.err # "" => ChangePassword(c, new, now).agg = v.agg
        /\ v.err = "" => ChangePassword(c, new, now).agg \in {r.agg, d}
    BY DEF ChangePassword, Ok
  <2> HIDE DEF v, kind
  <2>4. CASE v.err # ""
    BY <2>1, <2>3, <2>4, PasswordStepStutter DEF LiftStep
  <2>5. CASE v.err = ""
    <3>1. v.agg.lockoutStatus # LockoutPermanent
      <4>1. LockoutPermanent # LockoutUnlocked
        BY DEF LockoutPermanent, LockoutUnlocked
      <4>2. v.agg = c \/ v.agg = unlock(c, "")
        BY DEF EnsureVerifiable, Fail, Ok, v
      <4>3. unlock(c, "").lockoutStatus = LockoutUnlocked
        BY DEF unlock, Record, Sound, Credential
      <4> QED BY <2>1, <2>5, <4>1, <4>2, <4>3
    <3>2. PasswordStep(v.agg, r.agg)
      BY <2>2, <3>1, ReplaceIsNew
    <3> HIDE DEF r
    <3>3. PasswordState(d) = PasswordState(r.agg) /\ d.lockoutStatus = r.agg.lockoutStatus
      BY <2>2, RecordKeeps
    <3> HIDE DEF d
    <3>4. PasswordStep(c, r.agg) /\ PasswordStep(c, d)
      BY <2>1, <2>5, <3>2, <3>3, PasswordStepFrame
    <3>5. r.agg.lockoutStatus = v.agg.lockoutStatus
      BY <2>2 DEF LockoutState
    <3>6. LiftStep(c, r.agg, now) /\ LiftStep(c, d, now)
      BY <2>1, <3>3, <3>5 DEF LiftStep
    <3> QED BY <2>3, <2>5, <3>4, <3>6
  <2> QED BY <2>4, <2>5
<1>2. PasswordStep(c, ResetPassword(c, new, now).agg) /\ LiftStep(c, ResetPassword(c, new, now).agg, now)
  <2> DEFINE r == replacePassword(c, new, now)
             d == Record(r.agg, PasswordResetCompleted)
  <2>1. CASE c.lockoutStatus = LockoutPermanent
    <3>1. ResetPassword(c, new, now).agg = c
      BY <2>1 DEF ResetPassword, Fail
    <3> QED BY <3>1, PasswordStepStutter DEF LiftStep
  <2>2. CASE c.lockoutStatus # LockoutPermanent
    <3>1. ResetPassword(c, new, now).agg \in {r.agg, d}
      BY <2>2 DEF ResetPassword, Ok
    <3>2. PasswordStep(c, r.agg) /\ Sound(r.agg) /\ LockoutState(r.agg) = LockoutState(c)
      BY <2>2, ReplaceIsNew, ReplaceSound
    <3> HIDE DEF r
    <3>3. PasswordState(d) = PasswordState(r.agg) /\ d.lockoutStatus = r.agg.lockoutStatus
      BY <3>2, RecordKeeps
    <3> HIDE DEF d
    <3>4. PasswordStep(c, d)
      BY <2>2, <3>2, <3>3, PasswordStepFrame
    <3>5. r.agg.lockoutStatus = c.lockoutStatus
      BY <3>2 DEF LockoutState
    <3> QED BY <3>1, <3>2, <3>3, <3>4, <3>5 DEF LiftStep
  <2> QED BY <2>1, <2>2
<1> QED BY <1>1, <1>2

\* MarkForcePasswordChange.
LEMMA MarkForceKeeps ==
    ASSUME NEW c, Sound(c), NEW by
    PROVE  LET d == MarkForcePasswordChange(c, by).agg
           IN  PasswordStep(c, d) /\ d.lockoutStatus = c.lockoutStatus
<1> DEFINE b == [c EXCEPT !.forcePasswordChange = TRUE]
           d == Record(b, AdminInitiatedPasswordReset)
<1>1. MarkForcePasswordChange(c, by).agg \in {c, d}
  BY DEF MarkForcePasswordChange, Ok, Fail
<1>2. d.password = c.password /\ d.forcePasswordChange = TRUE /\ d.lockoutStatus = c.lockoutStatus
  BY DEF Sound, Credential, Record
<1> HIDE DEF d
<1> QED BY <1>1, <1>2 DEF PasswordStep

===============================================================================
