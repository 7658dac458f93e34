--------------------------- MODULE SessionAggregate ---------------------------
(***************************************************************************)
(* The AuthenticationSession aggregate of                                  *)
(* internal/domain/authentication_session.go: a verified authentication    *)
(* state that ends by revocation, by inactivity or at a fixed instant.     *)
(*                                                                         *)
(* Operators named Bug... are deliberate errors, as in CredentialAggregate.*)
(***************************************************************************)
EXTENDS Domain

CONSTANTS
    IdleTimeout,        \* SessionPolicy.IdleTimeout
    AbsoluteLifetime    \* SessionPolicy.AbsoluteLifetime

ASSUME SessionPolicyType == IdleTimeout \in Nat /\ AbsoluteLifetime \in Nat

\* SessionPolicy.Validate.
SessionPolicyValid ==
    IdleTimeout > 0 /\ AbsoluteLifetime > 0 /\ IdleTimeout <= AbsoluteLifetime

SessionStatusActive  == "ACTIVE"
SessionStatusExpired == "EXPIRED"
SessionStatusRevoked == "REVOKED"

SessionStatus == {SessionStatusActive, SessionStatusExpired, SessionStatusRevoked}

AAL == {"AAL1", "AAL2", "AAL3"}

FactorType == {"TOTP", "SMS_OTP", "FIDO2", "PASSKEY"}

ReasonExpiredIdle     == "SESSION_EXPIRED_IDLE"
ReasonExpiredAbsolute == "SESSION_EXPIRED_ABSOLUTE"

\* RevokeReason.IsManual and IsExpiry.
ManualReasons ==
    {"USER_LOGOUT", "ADMIN_FORCE_LOGOUT", "PASSWORD_CHANGED", "PASSWORD_RESET",
     "DEVICE_REVOKED", "SECURITY_EVENT", "CONCURRENT_SESSION_LIMIT"}
ExpiryReasons == {ReasonExpiredIdle, ReasonExpiredAbsolute}

RevokeReason == ManualReasons \cup ExpiryReasons

SessionCreated(aal, absoluteExpiresAt, at) ==
    [type |-> "SessionCreated", aal |-> aal, absoluteExpiresAt |-> absoluteExpiresAt, at |-> at]

SessionRevoked(reason, by, at) ==
    [type |-> "SessionRevoked", reason |-> reason, revokedBy |-> by, at |-> at]

SessionEvent ==
         [type : {"SessionCreated"}, aal : AAL, absoluteExpiresAt : Nat, at : Nat]
    \cup [type : {"SessionRevoked"}, reason : RevokeReason, revokedBy : IdentityRef, at : Nat]

Session ==
    [aal               : AAL,
     factorsUsed       : SUBSET FactorType,
     status            : SessionStatus,
     createdAt         : Nat,
     lastActivityAt    : Nat,
     idleTimeout       : Nat,
     absoluteExpiresAt : Nat,
     revokedAt         : OptTime,
     revokeReason      : RevokeReason \cup {""},
     events            : Seq(SessionEvent)]

\* What a constructor that fails returns.
NilSession == [status |-> "nil"]

-----------------------------------------------------------------------------
(* Construction and queries.                                               *)

\* validateAALFactors: the level matches the factors verified.
AALMatchesFactors(aal, factors) ==
    /\ aal = "AAL1" => factors = {}
    /\ aal = "AAL2" => factors # {}
    /\ aal = "AAL3" => "FIDO2" \in factors

NewAuthenticationSession(aal, factors, now) ==
    IF ~SessionPolicyValid THEN Fail("ErrInvalidSessionPolicy", NilSession)
    ELSE IF ~AALMatchesFactors(aal, factors) THEN Fail("ErrAALFactorMismatch", NilSession)
    ELSE Ok([aal               |-> aal,
             factorsUsed       |-> factors,
             status            |-> SessionStatusActive,
             createdAt         |-> now,
             lastActivityAt    |-> now,
             idleTimeout       |-> IdleTimeout,
             absoluteExpiresAt |-> now + AbsoluteLifetime,
             revokedAt         |-> NoTime,
             revokeReason      |-> "",
             events            |-> <<SessionCreated(aal, now + AbsoluteLifetime, now)>>])

IdleExpiresAt(s) == s.lastActivityAt + s.idleTimeout

\* Dates an idle expiry at its detection.
BugExpiryAt(s, now) ==
    IF now >= s.absoluteExpiresAt
    THEN [expired |-> TRUE, reason |-> ReasonExpiredAbsolute, at |-> s.absoluteExpiresAt]
    ELSE [expired |-> now >= IdleExpiresAt(s), reason |-> ReasonExpiredIdle, at |-> now]

\* Both timeouts are evaluated; absolute wins when both have elapsed.
ExpiryAt(s, now) ==
    IF now >= s.absoluteExpiresAt
    THEN [expired |-> TRUE, reason |-> ReasonExpiredAbsolute, at |-> s.absoluteExpiresAt]
    ELSE [expired |-> now >= IdleExpiresAt(s), reason |-> ReasonExpiredIdle,
          at |-> IdleExpiresAt(s)]

IsActive(s, now) == s.status = SessionStatusActive /\ ~ExpiryAt(s, now).expired

-----------------------------------------------------------------------------
(* Transitions.                                                            *)

terminate(s, status, reason, by, at) ==
    Record([s EXCEPT !.status = status, !.revokedAt = at, !.revokeReason = reason],
           SessionRevoked(reason, by, at))

\* Expires a session that ended already.
BugEnforceExpiry(s, now) ==
    LET x == ExpiryAt(s, now)
    IN  IF x.expired
        THEN [done |-> TRUE, agg |-> terminate(s, SessionStatusExpired, x.reason, "", x.at)]
        ELSE [done |-> FALSE, agg |-> s]

\* Reports, in done, whether the session expired just now.
EnforceExpiry(s, now) ==
    LET x == ExpiryAt(s, now)
    IN  IF s.status = SessionStatusActive /\ x.expired
        THEN [done |-> TRUE, agg |-> terminate(s, SessionStatusExpired, x.reason, "", x.at)]
        ELSE [done |-> FALSE, agg |-> s]

ensureActive(s, now) ==
    CASE s.status = SessionStatusRevoked -> Fail("ErrSessionRevoked", s)
      [] s.status = SessionStatusExpired -> Fail("ErrSessionExpired", s)
      [] s.status = SessionStatusActive ->
            LET x == EnforceExpiry(s, now)
            IN  IF x.done THEN Fail("ErrSessionExpired", x.agg) ELSE Ok(s)

\* Records activity whatever the timeouts say.
BugTouch(s, now) ==
    IF s.status # SessionStatusActive THEN ensureActive(s, now)
    ELSE Ok([s EXCEPT !.lastActivityAt = IF now > @ THEN now ELSE @])

\* The idle timer never moves backwards.
Touch(s, now) ==
    LET v == ensureActive(s, now)
    IN  IF v.err # "" THEN v
        ELSE Ok([s EXCEPT !.lastActivityAt = IF now > @ THEN now ELSE @])

\* Takes any reason.
BugRevoke(s, reason, by, now) ==
    LET v == ensureActive(s, now)
    IN  IF v.err # "" THEN v
        ELSE Ok(terminate(s, SessionStatusRevoked, reason, by, now))

\* Revokes what has expired.
BugRevokeExpired(s, reason, by, now) ==
    IF reason \notin ManualReasons THEN Fail("ErrInvalidRevokeReason", s)
    ELSE IF s.status # SessionStatusActive THEN ensureActive(s, now)
    ELSE Ok(terminate(s, SessionStatusRevoked, reason, by, now))

Revoke(s, reason, by, now) ==
    LET v == ensureActive(s, now)
    IN  IF reason \notin ManualReasons THEN Fail("ErrInvalidRevokeReason", s)
        ELSE IF v.err # "" THEN v
        ELSE Ok(terminate(s, SessionStatusRevoked, reason, by, now))

-----------------------------------------------------------------------------
(* Persistence.                                                            *)

\* The snapshots RehydrateSession accepts.
SessionSnapshotValid(s) ==
    /\ s.status \in SessionStatus /\ s.aal \in AAL
    /\ s.idleTimeout > 0 /\ s.absoluteExpiresAt > s.createdAt
    /\ s.lastActivityAt >= s.createdAt
    /\ s.status = SessionStatusActive => s.revokedAt = NoTime /\ s.revokeReason = ""
    /\ s.status = SessionStatusRevoked => s.revokedAt # NoTime /\ s.revokeReason \in ManualReasons
    /\ s.status = SessionStatusExpired => s.revokedAt # NoTime /\ s.revokeReason \in ExpiryReasons
    /\ AALMatchesFactors(s.aal, s.factorsUsed)

RehydrateSession(s) ==
    IF SessionSnapshotValid(s) THEN Ok(s) ELSE Fail("ErrInvalidSession", NilSession)

=============================================================================
