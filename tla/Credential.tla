------------------------------ MODULE Credential ------------------------------
(***************************************************************************)
(* One credential used by a sequence of calls of the aggregate's methods,  *)
(* in any order.  Every caller reads the clock once, when its request      *)
(* starts, and passes that reading on (login.go:31), so a method runs with *)
(* a `now' up to MaxSkew behind the clock and successive calls may see     *)
(* time go backwards.                                                      *)
(***************************************************************************)
EXTENDS CredentialAggregate

CONSTANTS
    MaxClock,      \* bound: the clock stops here
    MaxSkew,       \* how stale the `now' of a request may be
    MaxLockouts,   \* bound: no failure is recorded after this many lockouts
    MaxPending     \* bound: events recorded before PullEvents must be called

ASSUME BoundsAssumption ==
    /\ MaxClock \in Nat /\ MaxSkew \in Nat
    /\ MaxLockouts \in Nat /\ MaxPending \in Nat

VARIABLES
    cred,    \* the aggregate
    clock    \* the service's clock

vars == <<cred, clock>>

Init ==
    /\ clock = 0
    /\ \E p \in Passwords, force \in BOOLEAN : cred = NewCredential(p, force, 0)

\* The readings of the clock a running request may hold.
Nows == {t \in 0..clock : clock - t <= MaxSkew}

\* A method call leaves the aggregate as its result says, error or not.
Call(result) ==
    /\ Len(cred.events) < MaxPending
    /\ cred' = result.agg
    /\ UNCHANGED clock

PreCheck == \E now \in Nows : Call(EnsureVerifiable(cred, now))

FailedAttempt ==
    /\ cred.lockoutHistoryCount < MaxLockouts
    /\ \E now \in Nows : Call(RecordFailedAttempt(cred, now))

Verification == \E now \in Nows : Call(RecordSuccessfulVerification(cred, now))

AdminUnlock == Call(Unlock(cred, "admin"))

PasswordChange ==
    \E new \in Passwords \cup {NoPassword}, now \in Nows : Call(ChangePassword(cred, new, now))

PasswordReset ==
    \E new \in Passwords \cup {NoPassword}, now \in Nows : Call(ResetPassword(cred, new, now))

ForceChange == \E by \in {"", "admin"} : Call(MarkForcePasswordChange(cred, by))

PullEvents ==
    /\ cred' = ClearEvents(cred)
    /\ UNCHANGED clock

Tick ==
    /\ clock < MaxClock
    /\ clock' = clock + 1
    /\ UNCHANGED cred

Next ==
    \/ PreCheck \/ FailedAttempt \/ Verification \/ AdminUnlock
    \/ PasswordChange \/ PasswordReset \/ ForceChange
    \/ PullEvents \/ Tick

Spec == Init /\ [][Next]_vars

-----------------------------------------------------------------------------
(* Invariants.                                                             *)

\* Every field of the aggregate keeps the type the Go struct gives it, and
\* every recorded event is one the aggregate declares (credential.go:179-294).
TypeOK == cred \in Credential /\ clock \in Nat

\* The invariants of the lockout state, whatever order RecordFailedAttempt,
\* EnsureVerifiable, Unlock and the password methods are called in.
LockoutConsistent == CountMatchesStatus(cred) /\ LockMatchesLadder(cred)

\* No sequence of changes and resets brings a remembered password back, and
\* the history keeps to its bound (credential.go:276, 513-520).
RecentPasswordsDistinct == RecentPasswords(cred)

\* Whatever the callers did, saving the credential and reading it back gives
\* the same credential: RehydrateCredential never rejects a snapshot the
\* aggregate itself produced (credential.go:600-675).
SnapshotRehydrates ==
    RehydrateCredential(Snapshot(cred)) = Ok(ClearEvents(cred))

-----------------------------------------------------------------------------
(* Action properties.                                                      *)

Recorded(e) == \E i \in 1..Len(cred'.events) : cred'.events[i] = e

\* A lock ends only through an administrator, or, for a temporary one, once
\* the clock has reached lockedUntil; a permanent lock never ends by itself
\* (credential.go:376-388, 431-437).
LockLifted ==
    cred.lockoutStatus # LockoutUnlocked /\ cred'.lockoutStatus = LockoutUnlocked
LockEndsOnlyWhenDue ==
    [][LockLifted =>
          \/ Recorded(AccountUnlocked("admin", cred.lockoutStatus))
          \/ cred.lockoutStatus = LockoutTemporary /\ clock >= cred.lockedUntil]_vars

\* The escalation counter never goes down, and goes up, by one, exactly when
\* a lock starts or is renewed ("Cumulative lifetime lockout counter driving
\* escalation; never reset", migrations/000003_create_credentials.up.sql:18).
EscalationNeverReset ==
    [][/\ cred'.lockoutHistoryCount \in {cred.lockoutHistoryCount, cred.lockoutHistoryCount + 1}
       /\ cred'.lockoutHistoryCount # cred.lockoutHistoryCount
             => /\ cred'.lockoutStatus # LockoutUnlocked
                /\ ~IsLocked(cred, clock)]_vars

\* While a credential is locked nothing but an administrator's unlock touches
\* its lockout state: further failures neither extend the lock nor count
\* (credential.go:399-402).
LockedIsFrozen ==
    [][IsLocked(cred, clock) /\ cred'.lockoutStatus # LockoutUnlocked
          => LockoutState(cred') = LockoutState(cred)]_vars

\* A pending forced change is discharged only by a password that is none of
\* the remembered ones, and never under a permanent lock (credential.go:474,
\* 513-524).
ForcedChangeNeedsNewPassword ==
    [][/\ cred'.password # cred.password =>
             /\ cred.lockoutStatus # LockoutPermanent
             /\ ~IsReuse(cred, cred'.password)
             /\ ~cred'.forcePasswordChange
       /\ cred.forcePasswordChange /\ ~cred'.forcePasswordChange
             => cred'.password # cred.password]_vars

=============================================================================
