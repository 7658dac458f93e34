------------------------- MODULE CredentialAggregate -------------------------
(***************************************************************************)
(* The Credential aggregate of internal/domain/credential.go: an           *)
(* identity's password, its history and its lockout state.                 *)
(*                                                                         *)
(* A password hash is a member of Passwords; two match when they are       *)
(* equal.                                                                  *)
(*                                                                         *)
(* Operators named Bug... are deliberate errors: each stands in for the    *)
(* definition that follows it when the sensitivity of a property is        *)
(* tested.  Nothing else uses them.                                        *)
(***************************************************************************)
EXTENDS Domain

CONSTANTS
    Passwords,            \* password hashes
    Threshold,            \* LockoutPolicy.Threshold
    Window,               \* LockoutPolicy.Window
    TemporaryDurations,   \* LockoutPolicy.TemporaryDurations
    HistoryDepth,         \* CredentialPolicy.HistoryDepth
    MaxAge                \* CredentialPolicy.MaxAge

\* LockoutPolicy.Validate and CredentialPolicy.Validate; config.validate
\* refuses to start the service otherwise.
ASSUME LockoutPolicyValid ==
    /\ Threshold \in Nat /\ Threshold >= 1
    /\ Window \in Nat /\ Window > 0
    /\ TemporaryDurations \in Seq(Nat)
    /\ \A i \in 1..Len(TemporaryDurations) : TemporaryDurations[i] > 0

ASSUME CredentialPolicyValid == HistoryDepth \in Nat /\ MaxAge \in Nat

\* The zero PasswordHash is not a password.
NoPassword == "zero hash"

ASSUME PasswordsNotZero == NoPassword \notin Passwords

-----------------------------------------------------------------------------
(* The aggregate's state and the events it records.                        *)

LockoutUnlocked  == "UNLOCKED"
LockoutTemporary == "LOCKED_TEMPORARY"
LockoutPermanent == "LOCKED_PERMANENT"

LockoutStatus == {LockoutUnlocked, LockoutTemporary, LockoutPermanent}

LoginFailed(reason, count) ==
    [type |-> "LoginFailed", reason |-> reason, failedAttemptCount |-> count]

AccountLocked(status, until) ==
    [type |-> "AccountLocked", lockoutType |-> status, lockedUntil |-> until]

AccountUnlocked(by, previous) ==
    [type |-> "AccountUnlocked", unlockedBy |-> by, previousLockoutType |-> previous]

PasswordChanged(changeType) == [type |-> "PasswordChanged", changeType |-> changeType]

PasswordResetCompleted == [type |-> "PasswordResetCompleted"]

AdminInitiatedPasswordReset == [type |-> "AdminInitiatedPasswordReset"]

CredentialEvent ==
         [type : {"LoginFailed"},
          reason : {"INVALID_CREDENTIALS", "ACCOUNT_LOCKED"}, failedAttemptCount : Nat]
    \cup [type : {"AccountLocked"}, lockoutType : LockoutStatus, lockedUntil : OptTime]
    \cup [type : {"AccountUnlocked"},
          unlockedBy : IdentityRef, previousLockoutType : LockoutStatus]
    \cup [type : {"PasswordChanged"}, changeType : {"USER_INITIATED", "FORCED"}]
    \cup [type : {"PasswordResetCompleted", "AdminInitiatedPasswordReset"}]

Credential ==
    [password            : Passwords,
     passwordExpiresAt   : OptTime,
     forcePasswordChange : BOOLEAN,
     failedAttemptCount  : Nat,
     lastFailedAt        : OptTime,
     lockoutStatus       : LockoutStatus,
     lockedAt            : OptTime,
     lockedUntil         : OptTime,
     lockoutHistoryCount : Nat,
     history             : Seq(Passwords),     \* newest first
     events              : Seq(CredentialEvent)]

-----------------------------------------------------------------------------
(* Construction and queries.                                               *)

ExpiryFrom(t) == IF MaxAge = 0 THEN NoTime ELSE t + MaxAge

NewCredential(password, forceChange, now) ==
    [password            |-> password,
     passwordExpiresAt   |-> ExpiryFrom(now),
     forcePasswordChange |-> forceChange,
     failedAttemptCount  |-> 0,
     lastFailedAt        |-> NoTime,
     lockoutStatus       |-> LockoutUnlocked,
     lockedAt            |-> NoTime,
     lockedUntil         |-> NoTime,
     lockoutHistoryCount |-> 0,
     history             |-> << >>,
     events              |-> << >>]

\* Forgets that a permanent lock has no end.
BugIsLocked(c, now) == c.lockoutStatus # LockoutUnlocked /\ now < c.lockedUntil

IsLocked(c, now) ==
    \/ c.lockoutStatus = LockoutPermanent
    \/ c.lockoutStatus = LockoutTemporary /\ now < c.lockedUntil

IsPasswordExpired(c, now) ==
    c.passwordExpiresAt # NoTime /\ now >= c.passwordExpiresAt

RequiresPasswordChange(c, now) ==
    c.forcePasswordChange \/ IsPasswordExpired(c, now)

-----------------------------------------------------------------------------
(* Lockout.                                                                *)

\* Escalates: the n-th lock lasts TemporaryDurations[n], later ones forever.
lock(c, now) ==
    LET n    == c.lockoutHistoryCount + 1
        temp == n <= Len(TemporaryDurations)
        st   == IF temp THEN LockoutTemporary ELSE LockoutPermanent
        til  == IF temp THEN now + TemporaryDurations[n] ELSE NoTime
    IN  Record([c EXCEPT !.lockoutHistoryCount = n,
                         !.lockedAt = now,
                         !.lockoutStatus = st,
                         !.lockedUntil = til],
               AccountLocked(st, til))

\* Leaves the lock's timestamps behind.
BugUnlockKeepsTimes(c, by) ==
    Record([c EXCEPT !.lockoutStatus = LockoutUnlocked,
                     !.failedAttemptCount = 0,
                     !.lastFailedAt = NoTime],
           AccountUnlocked(by, c.lockoutStatus))

\* Starts the escalation afresh.
BugUnlockResetsLadder(c, by) ==
    Record([c EXCEPT !.lockoutStatus = LockoutUnlocked,
                     !.lockedAt = NoTime,
                     !.lockedUntil = NoTime,
                     !.lockoutHistoryCount = 0,
                     !.failedAttemptCount = 0,
                     !.lastFailedAt = NoTime],
           AccountUnlocked(by, c.lockoutStatus))

unlock(c, by) ==
    Record([c EXCEPT !.lockoutStatus = LockoutUnlocked,
                     !.lockedAt = NoTime,
                     !.lockedUntil = NoTime,
                     !.failedAttemptCount = 0,
                     !.lastFailedAt = NoTime],
           AccountUnlocked(by, c.lockoutStatus))

\* Lifts an elapsed lock without recording AccountUnlocked.
BugEnsureVerifiable(c, now) ==
    IF IsLocked(c, now) THEN Fail("ErrAccountLocked", c)
    ELSE IF c.lockoutStatus = LockoutUnlocked THEN Ok(c)
    ELSE Ok([unlock(c, "") EXCEPT !.events = c.events])

\* Takes every temporary lock for elapsed.
BugEnsureElapsed(c, now) ==
    IF IsLocked(c, now) /\ c.lockedUntil = NoTime THEN Fail("ErrAccountLocked", c)
    ELSE IF c.lockoutStatus = LockoutUnlocked THEN Ok(c)
    ELSE Ok(unlock(c, ""))

\* Lifts an elapsed temporary lock, on behalf of nobody.
EnsureVerifiable(c, now) ==
    IF IsLocked(c, now) THEN Fail("ErrAccountLocked", c)
    ELSE IF c.lockoutStatus = LockoutUnlocked THEN Ok(c)
    ELSE Ok(unlock(c, ""))

\* Failures further apart than Window are not consecutive.
FailuresSoFar(c, now) ==
    IF c.lastFailedAt # NoTime /\ now - c.lastFailedAt > Window
    THEN 0 ELSE c.failedAttemptCount

\* Locks one failure too late.
BugCountFailure(c, now) ==
    LET n == FailuresSoFar(c, now) + 1
        f == Record([c EXCEPT !.failedAttemptCount = n, !.lastFailedAt = now],
                    LoginFailed("INVALID_CREDENTIALS", n))
    IN  IF n > Threshold THEN lock(f, now) ELSE f

CountFailure(c, now) ==
    LET n == FailuresSoFar(c, now) + 1
        f == Record([c EXCEPT !.failedAttemptCount = n, !.lastFailedAt = now],
                    LoginFailed("INVALID_CREDENTIALS", n))
    IN  IF n >= Threshold THEN lock(f, now) ELSE f

\* Counts failures, and so renews the lock, while locked.
BugRecordFailedAttempt(c, now) == Ok(CountFailure(EnsureVerifiable(c, now).agg, now))

RecordFailedAttempt(c, now) ==
    LET v == EnsureVerifiable(c, now)
    IN  IF v.err # ""
        THEN Fail(v.err, Record(v.agg, LoginFailed("ACCOUNT_LOCKED", v.agg.failedAttemptCount)))
        ELSE Ok(CountFailure(v.agg, now))

RecordSuccessfulVerification(c, now) ==
    LET v == EnsureVerifiable(c, now)
    IN  IF v.err # "" THEN v
        ELSE Ok([v.agg EXCEPT !.failedAttemptCount = 0, !.lastFailedAt = NoTime])

\* UnlockAccount, by an administrator.
Unlock(c, by) ==
    IF c.lockoutStatus = LockoutUnlocked THEN Fail("ErrAccountNotLocked", c)
    ELSE Ok(unlock(c, by))

-----------------------------------------------------------------------------
(* Password replacement.                                                   *)

\* The old password goes in front of the history, which is clipped.
Remember(c) ==
    LET h == <<c.password>> \o c.history
    IN  IF Len(h) > HistoryDepth THEN SubSeq(h, 1, HistoryDepth) ELSE h

\* Compares with the current password only.
BugIsReuse(c, new) == c.password = new

\* isReuse: the stored hash matches the new plaintext.
IsReuse(c, new) ==
    c.password = new \/ \E i \in 1..Len(c.history) : c.history[i] = new

replacePassword(c, new, now) ==
    IF new = NoPassword THEN Fail("ErrInvalidPasswordHash", c)
    ELSE IF IsReuse(c, new) THEN Fail("ErrPasswordReused", c)
    ELSE Ok([c EXCEPT !.history = Remember(c),
                      !.password = new,
                      !.passwordExpiresAt = ExpiryFrom(now),
                      !.forcePasswordChange = FALSE])

ChangePassword(c, new, now) ==
    LET v    == EnsureVerifiable(c, now)
        kind == IF RequiresPasswordChange(v.agg, now) THEN "FORCED" ELSE "USER_INITIATED"
        r    == replacePassword(v.agg, new, now)
    IN  IF v.err # "" THEN v
        ELSE IF r.err # "" THEN r
        ELSE Ok(Record(r.agg, PasswordChanged(kind)))

\* Checks the permanent lock only after replacing the password.
BugResetPassword(c, new, now) ==
    LET r == replacePassword(c, new, now)
    IN  IF r.err # "" THEN r
        ELSE IF c.lockoutStatus = LockoutPermanent THEN Fail("ErrAccountLocked", r.agg)
        ELSE Ok(Record(r.agg, PasswordResetCompleted))

\* Refused under a permanent lock; a temporary lock stays in place.
ResetPassword(c, new, now) ==
    LET r == replacePassword(c, new, now)
    IN  IF c.lockoutStatus = LockoutPermanent THEN Fail("ErrAccountLocked", c)
        ELSE IF r.err # "" THEN r
        ELSE Ok(Record(r.agg, PasswordResetCompleted))

MarkForcePasswordChange(c, by) ==
    IF by = "" THEN Fail("ErrInvalidCredential", c)
    ELSE IF c.forcePasswordChange THEN Ok(c)
    ELSE Ok(Record([c EXCEPT !.forcePasswordChange = TRUE], AdminInitiatedPasswordReset))

-----------------------------------------------------------------------------
(* Persistence.                                                            *)

\* The snapshots RehydrateCredential accepts.
SnapshotValid(s) ==
    /\ s.password # NoPassword
    /\ s.lockoutStatus \in LockoutStatus
    /\ s.failedAttemptCount >= 0 /\ s.lockoutHistoryCount >= 0
    /\ Len(s.history) <= HistoryDepth
    /\ s.lockoutStatus = LockoutUnlocked => s.lockedAt = NoTime /\ s.lockedUntil = NoTime
    /\ s.lockoutStatus = LockoutTemporary =>
          s.lockedAt # NoTime /\ s.lockedUntil # NoTime /\ s.lockoutHistoryCount >= 1
    /\ s.lockoutStatus = LockoutPermanent =>
          s.lockedAt # NoTime /\ s.lockedUntil = NoTime /\ s.lockoutHistoryCount >= 1
    /\ \A i \in 1..Len(s.history) : s.history[i] # NoPassword

RehydrateCredential(s) ==
    IF SnapshotValid(s) THEN Ok(s) ELSE Fail("ErrInvalidCredential", s)

-----------------------------------------------------------------------------
(* What holds of a credential between calls.                               *)

\* "the failed-attempt count is always consistent with the lockout status"
\* (credential.go:275): an unlocked credential is below the threshold, a
\* locked one reached it, and there is a last failure exactly when some
\* failure is counted.
CountMatchesStatus(c) ==
    /\ c.lockoutStatus = LockoutUnlocked <=> c.failedAttemptCount < Threshold
    /\ c.failedAttemptCount = 0 <=> c.lastFailedAt = NoTime

\* The lock in force is the one the escalation ladder prescribes for the
\* number of lockouts so far: that many durations after it started, or for
\* ever once the ladder is exhausted (credential.go:528-537).
LockMatchesLadder(c) ==
    /\ c.lockoutStatus = LockoutUnlocked => c.lockedAt = NoTime /\ c.lockedUntil = NoTime
    /\ c.lockoutStatus # LockoutUnlocked => c.lockedAt # NoTime /\ c.lockoutHistoryCount >= 1
    /\ c.lockoutStatus = LockoutTemporary =>
          /\ c.lockoutHistoryCount <= Len(TemporaryDurations)
          /\ c.lockedUntil = c.lockedAt + TemporaryDurations[c.lockoutHistoryCount]
    /\ c.lockoutStatus = LockoutPermanent =>
          /\ c.lockoutHistoryCount > Len(TemporaryDurations)
          /\ c.lockedUntil = NoTime

\* The password in use and the remembered ones are all different and no more
\* than the policy allows are remembered (credential.go:276, 513-520): no
\* sequence of changes and resets brings a remembered password back.
RecentPasswords(c) ==
    /\ Len(c.history) <= HistoryDepth
    /\ \A i \in 1..Len(c.history) : c.history[i] # c.password
    /\ \A i, j \in 1..Len(c.history) : i # j => c.history[i] # c.history[j]

\* The fields that make up the lockout state.
LockoutState(c) ==
    <<c.failedAttemptCount, c.lastFailedAt, c.lockoutStatus,
      c.lockedAt, c.lockedUntil, c.lockoutHistoryCount>>

=============================================================================
