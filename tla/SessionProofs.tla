---------------------------- MODULE SessionProofs ----------------------------
(***************************************************************************)
(* The AuthenticationSession aggregate keeps its invariants under every    *)
(* sequence of calls, for every policy SessionPolicy.Validate accepts and  *)
(* every skew of the callers' clocks.                                      *)
(***************************************************************************)
EXTENDS AuthenticationSession, TLAPS

USE SessionPolicyType, BoundsAssumption

\* What holds of a session between calls, at time t: its type, its deadlines
\* and, when it has ended, how.
Sound(s, t) ==
    /\ s \in Session
    /\ s.idleTimeout > 0
    /\ AALMatchesFactors(s.aal, s.factorsUsed)
    /\ s.absoluteExpiresAt = s.createdAt + AbsoluteLifetime
    /\ s.createdAt <= s.lastActivityAt
    /\ s.lastActivityAt < s.absoluteExpiresAt
    /\ s.status = SessionStatusActive => s.revokedAt = NoTime /\ s.revokeReason = ""
    /\ s.status = SessionStatusExpired =>
          /\ s.revokedAt \in Nat /\ s.revokedAt <= t
          /\ \/ s.revokeReason = ReasonExpiredAbsolute /\ s.revokedAt = s.absoluteExpiresAt
             \/ /\ s.revokeReason = ReasonExpiredIdle
                /\ s.revokedAt = IdleExpiresAt(s) /\ s.revokedAt < s.absoluteExpiresAt
    /\ s.status = SessionStatusRevoked =>
          /\ s.revokeReason \in ManualReasons
          /\ s.revokedAt \in Nat /\ s.revokedAt <= t
          /\ s.revokedAt < s.absoluteExpiresAt /\ s.revokedAt < IdleExpiresAt(s)

\* What one call may record of s, leaving d: nothing, or its end.
Tells(s, d) ==
    /\ d.aal = s.aal /\ d.createdAt = s.createdAt
    /\ \/ /\ d.events = s.events /\ d.status = s.status
          /\ d.revokedAt = s.revokedAt /\ d.revokeReason = s.revokeReason
       \/ /\ s.status = SessionStatusActive /\ d.status # SessionStatusActive
          /\ \E who \in IdentityRef :
                d.events = Append(s.events, SessionRevoked(d.revokeReason, who, d.revokedAt))

\* What one call may do to a session s, leaving d.
SessionStep(s, d) ==
    /\ Tells(s, d)
    /\ s.status # SessionStatusActive => d = s
    /\ d.idleTimeout = s.idleTimeout /\ d.absoluteExpiresAt = s.absoluteExpiresAt
    /\ d.lastActivityAt # s.lastActivityAt =>
          s.lastActivityAt < d.lastActivityAt /\ d.lastActivityAt < IdleExpiresAt(s)

Inv == Sound(session, clock) /\ published \in Seq(SessionEvent) /\ clock \in Nat

-----------------------------------------------------------------------------
(* The methods.                                                            *)

\* The events the aggregate records are events it declares.
LEMMA EventTypes ==
    /\ \A aal \in AAL, x \in Nat, at \in Nat : SessionCreated(aal, x, at) \in SessionEvent
    /\ \A reason \in RevokeReason, who \in IdentityRef, at \in Nat :
          SessionRevoked(reason, who, at) \in SessionEvent
BY DEF SessionCreated, SessionRevoked, SessionEvent

\* A call that is refused does nothing to a session.
LEMMA NoStep == ASSUME NEW s PROVE SessionStep(s, s)
BY Zenon DEF SessionStep, Tells

\* A session that NewAuthenticationSession returns is sound.
LEMMA NewSessionSound ==
    ASSUME NEW aal \in AAL, NEW factors \in SUBSET FactorType, NEW now \in Nat, NEW t \in Nat,
           SessionPolicyValid, AALMatchesFactors(aal, factors)
    PROVE  Sound(NewAuthenticationSession(aal, factors, now).agg, t)
<1> DEFINE e == SessionCreated(aal, now + AbsoluteLifetime, now)
           s == [aal               |-> aal,
                 factorsUsed       |-> factors,
                 status            |-> SessionStatusActive,
                 createdAt         |-> now,
                 lastActivityAt    |-> now,
                 idleTimeout       |-> IdleTimeout,
                 absoluteExpiresAt |-> now + AbsoluteLifetime,
                 revokedAt         |-> NoTime,
                 revokeReason      |-> "",
                 events            |-> <<e>>]
<1>1. NewAuthenticationSession(aal, factors, now).agg = s
  BY DEF NewAuthenticationSession, Ok
<1>2. e \in SessionEvent
  BY EventTypes
<1> HIDE DEF e
<1>3. <<e>> \in Seq(SessionEvent)
  BY <1>2
<1>4. s \in Session
  BY <1>3 DEF Session, SessionStatus, OptTime
<1>5. /\ s.status = SessionStatusActive /\ s.revokedAt = NoTime /\ s.revokeReason = ""
      /\ s.aal = aal /\ s.factorsUsed = factors
  OBVIOUS
<1>6. /\ s.createdAt = now /\ s.lastActivityAt = now
      /\ s.idleTimeout = IdleTimeout /\ s.absoluteExpiresAt = now + AbsoluteLifetime
  OBVIOUS
<1> HIDE DEF s
<1>7. /\ s.idleTimeout > 0 /\ s.absoluteExpiresAt = s.createdAt + AbsoluteLifetime
      /\ s.createdAt <= s.lastActivityAt /\ s.lastActivityAt < s.absoluteExpiresAt
  <2>1. IdleTimeout > 0 /\ AbsoluteLifetime > 0
    BY DEF SessionPolicyValid
  <2> QED BY <1>6, <2>1
<1>8. Sound(s, t)
  BY <1>4, <1>5, <1>7 DEF Sound, SessionStatusActive, SessionStatusExpired, SessionStatusRevoked
<1> QED BY <1>1, <1>8

\* terminate records how the session ended and leaves its deadlines alone.
LEMMA TerminateFields ==
    ASSUME NEW s \in Session, NEW status \in SessionStatus, NEW reason \in RevokeReason,
           NEW who \in IdentityRef, NEW at \in Nat
    PROVE  LET d == terminate(s, status, reason, who, at)
           IN  /\ d \in Session
               /\ d.status = status /\ d.revokedAt = at /\ d.revokeReason = reason
               /\ d.aal = s.aal /\ d.factorsUsed = s.factorsUsed /\ d.createdAt = s.createdAt
               /\ d.lastActivityAt = s.lastActivityAt /\ d.idleTimeout = s.idleTimeout
               /\ d.absoluteExpiresAt = s.absoluteExpiresAt
               /\ d.events = Append(s.events, SessionRevoked(reason, who, at))
<1> DEFINE e == SessionRevoked(reason, who, at)
<1>1. e \in SessionEvent
  BY EventTypes
<1> HIDE DEF e
<1>2. Append(s.events, e) \in Seq(SessionEvent)
  <2>1. s.events \in Seq(SessionEvent)
    BY DEF Session
  <2> QED BY <1>1, <2>1
<1>3. terminate(s, status, reason, who, at) =
         [s EXCEPT !.status = status, !.revokedAt = at, !.revokeReason = reason,
                   !.events = Append(s.events, e)]
  BY DEF terminate, Record, e, Session
<1>4. terminate(s, status, reason, who, at).events = Append(s.events, e)
  BY <1>3 DEF Session
<1> QED BY <1>2, <1>3, <1>4 DEF Session, OptTime, e

\* A live session that ends, in either way, stays sound.
LEMMA EndSound ==
    ASSUME NEW s, NEW t \in Nat, Sound(s, t), s.status = SessionStatusActive,
           NEW status \in SessionStatus, NEW reason \in RevokeReason, NEW who \in IdentityRef,
           NEW at \in Nat, at <= t,
           \/ /\ status = SessionStatusExpired
              /\ \/ reason = ReasonExpiredAbsolute /\ at = s.absoluteExpiresAt
                 \/ /\ reason = ReasonExpiredIdle
                    /\ at = IdleExpiresAt(s) /\ at < s.absoluteExpiresAt
           \/ /\ status = SessionStatusRevoked /\ reason \in ManualReasons
              /\ at < s.absoluteExpiresAt /\ at < IdleExpiresAt(s)
    PROVE  LET d == terminate(s, status, reason, who, at)
           IN  Sound(d, t) /\ SessionStep(s, d) /\ d.status = status
<1> DEFINE d == terminate(s, status, reason, who, at)
<1>1. s \in Session
  BY DEF Sound
<1>2. /\ d \in Session
      /\ d.status = status /\ d.revokedAt = at /\ d.revokeReason = reason
      /\ d.aal = s.aal /\ d.factorsUsed = s.factorsUsed /\ d.createdAt = s.createdAt
      /\ d.lastActivityAt = s.lastActivityAt /\ d.idleTimeout = s.idleTimeout
      /\ d.absoluteExpiresAt = s.absoluteExpiresAt
      /\ d.events = Append(s.events, SessionRevoked(reason, who, at))
  BY <1>1, TerminateFields
<1> HIDE DEF d
<1>3. IdleExpiresAt(d) = IdleExpiresAt(s)
  BY <1>2 DEF IdleExpiresAt
<1>4. Sound(d, t)
  BY <1>2, <1>3 DEF Sound, SessionStatusActive, SessionStatusExpired, SessionStatusRevoked
<1>5. SessionStep(s, d)
  <2>1. status # SessionStatusActive
    BY DEF SessionStatusActive, SessionStatusExpired, SessionStatusRevoked
  <2>2. Tells(s, d)
    BY <1>2, <2>1 DEF Tells
  <2> QED BY <1>2, <2>2 DEF SessionStep
<1> QED BY <1>2, <1>4, <1>5 DEF d

\* EnforceExpiry expires a session at the deadline that has passed.
LEMMA EnforceExpirySound ==
    ASSUME NEW s, NEW t \in Nat, Sound(s, t), NEW now \in Nat, now <= t
    PROVE  LET x == EnforceExpiry(s, now)
           IN  /\ Sound(x.agg, t) /\ SessionStep(s, x.agg)
               /\ x.done => x.agg.status = SessionStatusExpired
               /\ ~x.done => x.agg = s
               /\ s.status = SessionStatusActive /\ ~x.done =>
                     now < s.absoluteExpiresAt /\ now < IdleExpiresAt(s)
<1> DEFINE nobody == ""
           Ended(reason, at) == terminate(s, SessionStatusExpired, reason, nobody, at)
<1>1. IdleExpiresAt(s) \in Nat /\ s.absoluteExpiresAt \in Nat
  <2>1. s \in Session
    BY DEF Sound
  <2>2. s.lastActivityAt \in Nat /\ s.idleTimeout \in Nat /\ s.absoluteExpiresAt \in Nat
    BY <2>1 DEF Session
  <2> QED BY <2>2 DEF IdleExpiresAt
<1>0. /\ nobody \in IdentityRef /\ SessionStatusExpired \in SessionStatus
      /\ ReasonExpiredAbsolute \in RevokeReason /\ ReasonExpiredIdle \in RevokeReason
  BY DEF IdentityRef, SessionStatus, RevokeReason, ExpiryReasons
<1> HIDE DEF nobody
<1>2. CASE s.status = SessionStatusActive /\ now >= s.absoluteExpiresAt
  <2> DEFINE d == Ended(ReasonExpiredAbsolute, s.absoluteExpiresAt)
  <2>1. EnforceExpiry(s, now) = [done |-> TRUE, agg |-> d]
    BY <1>2 DEF EnforceExpiry, ExpiryAt, nobody
  <2>2. Sound(d, t) /\ SessionStep(s, d) /\ d.status = SessionStatusExpired
    <3>1. s.absoluteExpiresAt <= t
      BY <1>1, <1>2
    <3> QED BY <1>0, <1>1, <1>2, <3>1, EndSound
  <2> HIDE DEF d
  <2> QED BY <2>1, <2>2
<1>3. CASE /\ s.status = SessionStatusActive
           /\ ~(now >= s.absoluteExpiresAt) /\ now >= IdleExpiresAt(s)
  <2> DEFINE d == Ended(ReasonExpiredIdle, IdleExpiresAt(s))
  <2>1. EnforceExpiry(s, now) = [done |-> TRUE, agg |-> d]
    BY <1>3 DEF EnforceExpiry, ExpiryAt, nobody
  <2>2. Sound(d, t) /\ SessionStep(s, d) /\ d.status = SessionStatusExpired
    <3>1. IdleExpiresAt(s) <= t /\ IdleExpiresAt(s) < s.absoluteExpiresAt
      BY <1>1, <1>3
    <3> QED BY <1>0, <1>1, <1>3, <3>1, EndSound
  <2> HIDE DEF d
  <2> QED BY <2>1, <2>2
<1>4. CASE \/ s.status # SessionStatusActive
           \/ ~(now >= s.absoluteExpiresAt) /\ ~(now >= IdleExpiresAt(s))
  <2>1. EnforceExpiry(s, now) = [done |-> FALSE, agg |-> s]
    BY <1>4 DEF EnforceExpiry, ExpiryAt
  <2>2. s.status = SessionStatusActive => now < s.absoluteExpiresAt /\ now < IdleExpiresAt(s)
    BY <1>1, <1>4
  <2>3. SessionStep(s, s)
    BY NoStep
  <2> QED BY <2>1, <2>2, <2>3
<1> QED BY <1>2, <1>3, <1>4

\* ensureActive lets only a session pass that is alive, unchanged.
LEMMA EnsureActiveSound ==
    ASSUME NEW s, NEW t \in Nat, Sound(s, t), NEW now \in Nat, now <= t
    PROVE  LET v == ensureActive(s, now)
           IN  /\ Sound(v.agg, t) /\ SessionStep(s, v.agg)
               /\ v.err = "" => /\ s.status = SessionStatusActive
                                /\ now < s.absoluteExpiresAt /\ now < IdleExpiresAt(s)
<1> DEFINE x == EnforceExpiry(s, now)
<1>1. /\ Sound(x.agg, t) /\ SessionStep(s, x.agg)
      /\ x.done => x.agg.status = SessionStatusExpired
      /\ s.status = SessionStatusActive /\ ~x.done =>
            now < s.absoluteExpiresAt /\ now < IdleExpiresAt(s)
  BY EnforceExpirySound
<1> HIDE DEF x
<1>2. CASE s.status = SessionStatusActive
  <2>1. SessionStep(s, s)
    BY NoStep
  <2> QED BY <1>1, <1>2, <2>1 DEF ensureActive, x, Ok, Fail, SessionStatusActive,
                                  SessionStatusExpired, SessionStatusRevoked
<1>3. CASE s.status # SessionStatusActive
  <2>1. ensureActive(s, now).agg = s /\ ensureActive(s, now).err # ""
    BY <1>3 DEF ensureActive, Fail, Sound, Session, SessionStatus, SessionStatusActive,
          SessionStatusExpired, SessionStatusRevoked
  <2>2. SessionStep(s, s)
    BY NoStep
  <2> QED BY <1>3, <2>1, <2>2
<1> QED BY <1>2, <1>3

\* Touch moves the idle timer of a live session forward.
LEMMA TouchSound ==
    ASSUME NEW s, NEW t \in Nat, Sound(s, t), NEW now \in Nat, now <= t
    PROVE  Sound(Touch(s, now).agg, t) /\ SessionStep(s, Touch(s, now).agg)
<1> DEFINE v == ensureActive(s, now)
           d == [s EXCEPT !.lastActivityAt = IF now > s.lastActivityAt THEN now
                                             ELSE s.lastActivityAt]
<1>1. /\ Sound(v.agg, t) /\ SessionStep(s, v.agg)
      /\ v.err = "" => /\ s.status = SessionStatusActive
                       /\ now < s.absoluteExpiresAt /\ now < IdleExpiresAt(s)
  BY EnsureActiveSound
<1> HIDE DEF v
<1>2. CASE v.err = ""
  <2>1. Touch(s, now).agg = d
    BY <1>2 DEF Touch, Ok, v, Sound, Session
  <2>2. d \in Session
    BY DEF Sound, Session
  <2>3. /\ d.status = s.status /\ d.revokedAt = s.revokedAt /\ d.revokeReason = s.revokeReason
        /\ d.aal = s.aal /\ d.factorsUsed = s.factorsUsed /\ d.createdAt = s.createdAt
        /\ d.idleTimeout = s.idleTimeout /\ d.absoluteExpiresAt = s.absoluteExpiresAt
        /\ d.lastActivityAt = IF now > s.lastActivityAt THEN now ELSE s.lastActivityAt
        /\ d.events = s.events
    BY DEF Sound, Session
  <2> HIDE DEF d
  <2>4. s.status = SessionStatusActive /\ now < s.absoluteExpiresAt /\ now < IdleExpiresAt(s)
    BY <1>1, <1>2
  <2>5. Sound(d, t)
    <3>1. /\ s.lastActivityAt \in Nat /\ s.createdAt \in Nat /\ s.absoluteExpiresAt \in Nat
          /\ d.createdAt <= d.lastActivityAt /\ d.lastActivityAt < d.absoluteExpiresAt
      <4>1. /\ s \in Session /\ s.createdAt <= s.lastActivityAt
            /\ s.lastActivityAt < s.absoluteExpiresAt
        BY DEF Sound
      <4>2. s.lastActivityAt \in Nat /\ s.createdAt \in Nat /\ s.absoluteExpiresAt \in Nat
        BY <4>1 DEF Session
      <4> QED BY <2>3, <2>4, <4>1, <4>2
    <3> QED BY <2>2, <2>3, <2>4, <3>1 DEF Sound, SessionStatusActive, SessionStatusExpired,
                                          SessionStatusRevoked
  <2>6. SessionStep(s, d)
    <3>1. Tells(s, d)
      BY <2>3 DEF Tells
    <3>2. s.lastActivityAt \in Nat
      BY DEF Sound, Session
    <3> QED BY <2>3, <2>4, <3>1, <3>2 DEF SessionStep
  <2> QED BY <2>1, <2>5, <2>6
<1>3. CASE v.err # ""
  BY <1>1, <1>3 DEF Touch, v
<1> QED BY <1>2, <1>3

\* Revoke ends a live session, for a reason a caller may give.
LEMMA RevokeSound ==
    ASSUME NEW s, NEW t \in Nat, Sound(s, t), NEW now \in Nat, now <= t,
           NEW reason \in RevokeReason, NEW who \in IdentityRef
    PROVE  Sound(Revoke(s, reason, who, now).agg, t) /\ SessionStep(s, Revoke(s, reason, who, now).agg)
<1> DEFINE v == ensureActive(s, now)
           d == terminate(s, SessionStatusRevoked, reason, who, now)
<1>1. /\ Sound(v.agg, t) /\ SessionStep(s, v.agg)
      /\ v.err = "" => /\ s.status = SessionStatusActive
                       /\ now < s.absoluteExpiresAt /\ now < IdleExpiresAt(s)
  BY EnsureActiveSound
<1> HIDE DEF v
<1>2. CASE reason \notin ManualReasons
  <2>1. SessionStep(s, s)
    BY NoStep
  <2> QED BY <1>2, <2>1 DEF Revoke, Fail
<1>3. CASE reason \in ManualReasons /\ v.err # ""
  BY <1>1, <1>3 DEF Revoke, v
<1>4. CASE reason \in ManualReasons /\ v.err = ""
  <2>1. Revoke(s, reason, who, now).agg = d
    BY <1>4 DEF Revoke, v, Ok
  <2>2. SessionStatusRevoked \in SessionStatus
    BY DEF SessionStatus
  <2>3. Sound(d, t) /\ SessionStep(s, d)
    BY <1>1, <1>4, <2>2, EndSound
  <2> QED BY <2>1, <2>3
<1> QED BY <1>2, <1>3, <1>4

-----------------------------------------------------------------------------
(* The machine.                                                            *)

LEMMA InitInv == Init => Inv
<1> SUFFICES ASSUME Init PROVE Inv
  OBVIOUS
<1>1. PICK aal \in AAL, factors \in SUBSET FactorType, now \in Nows :
         /\ NewAuthenticationSession(aal, factors, now).err = ""
         /\ session = NewAuthenticationSession(aal, factors, now).agg
  BY DEF Init
<1>2. SessionPolicyValid /\ AALMatchesFactors(aal, factors)
  BY <1>1 DEF NewAuthenticationSession, Fail
<1>3. clock = MaxSkew /\ published = << >>
  BY Zenon DEF Init
<1>4. now \in Nat /\ clock \in Nat
  <2>1. now \in 0..clock
    BY DEF Nows
  <2> QED BY <1>3, <2>1
<1>5. Sound(session, clock)
  BY <1>1, <1>2, <1>4, NewSessionSound
<1>6. published \in Seq(SessionEvent)
  BY <1>3
<1> QED BY <1>4, <1>5, <1>6 DEF Inv

\* Every step of the machine is a call, a pull of the events or a tick.
LEMMA Steps ==
    ASSUME Inv, [Next]_vars
    PROVE  \/ Sound(session', clock) /\ SessionStep(session, session') /\ UNCHANGED <<published, clock>>
           \/ PullEvents
           \/ clock' = clock + 1 /\ UNCHANGED <<session, published>>
           \/ UNCHANGED vars
<1> USE DEF Inv
<1>1. \A now \in Nows : now \in Nat /\ now <= clock
  BY DEF Nows
<1>2. CASE SweepExpiry
  <2>1. PICK now \in Nows : Call(EnforceExpiry(session, now).agg)
    BY <1>2 DEF SweepExpiry
  <2>2. LET x == EnforceExpiry(session, now)
        IN  Sound(x.agg, clock) /\ SessionStep(session, x.agg)
    BY <1>1, EnforceExpirySound
  <2> QED BY <2>1, <2>2 DEF Call
<1>3. CASE Activity
  <2>1. PICK now \in Nows : Call(Touch(session, now).agg)
    BY <1>3 DEF Activity
  <2>2. Sound(Touch(session, now).agg, clock) /\ SessionStep(session, Touch(session, now).agg)
    BY <1>1, TouchSound
  <2> QED BY <2>1, <2>2 DEF Call
<1>4. CASE Logout
  <2>1. PICK reason \in RevokeReason, who \in IdentityRef, now \in Nows :
           Call(Revoke(session, reason, who, now).agg)
    BY <1>4 DEF Logout
  <2> DEFINE d == Revoke(session, reason, who, now).agg
  <2>2. Sound(d, clock) /\ SessionStep(session, d)
    BY <1>1, RevokeSound
  <2> QED BY <2>1, <2>2 DEF Call
<1>5. CASE Tick
  BY <1>5 DEF Tick
<1> QED BY <1>2, <1>3, <1>4, <1>5 DEF Next

\* Pulling the events changes nothing else.
LEMMA ClearEventsFields ==
    ASSUME NEW s \in Session
    PROVE  LET d == ClearEvents(s)
           IN  /\ d \in Session
               /\ d.status = s.status /\ d.revokedAt = s.revokedAt
               /\ d.revokeReason = s.revokeReason /\ d.aal = s.aal
               /\ d.factorsUsed = s.factorsUsed /\ d.createdAt = s.createdAt
               /\ d.lastActivityAt = s.lastActivityAt /\ d.idleTimeout = s.idleTimeout
               /\ d.absoluteExpiresAt = s.absoluteExpiresAt
               /\ ClearEvents(d) = d
<1>1. << >> \in Seq(SessionEvent)
  OBVIOUS
<1> QED BY <1>1 DEF ClearEvents, Session

LEMMA PullSound ==
    ASSUME NEW s, NEW t \in Nat, Sound(s, t)
    PROVE  /\ Sound(ClearEvents(s), t)
           /\ SessionStep(ClearEvents(s), ClearEvents(s))
           /\ Snapshot(ClearEvents(s)) = Snapshot(s)
<1> DEFINE d == ClearEvents(s)
<1>1. s \in Session
  BY DEF Sound
<1>2. /\ d \in Session
      /\ d.status = s.status /\ d.revokedAt = s.revokedAt
      /\ d.revokeReason = s.revokeReason /\ d.aal = s.aal
      /\ d.factorsUsed = s.factorsUsed /\ d.createdAt = s.createdAt
      /\ d.lastActivityAt = s.lastActivityAt /\ d.idleTimeout = s.idleTimeout
      /\ d.absoluteExpiresAt = s.absoluteExpiresAt
      /\ ClearEvents(d) = d
  BY <1>1, ClearEventsFields
<1> HIDE DEF d
<1>3. IdleExpiresAt(d) = IdleExpiresAt(s)
  BY <1>2 DEF IdleExpiresAt
<1>4. Sound(d, t)
  BY <1>2, <1>3 DEF Sound
<1>5. Snapshot(d) = Snapshot(s)
  BY <1>2 DEF Snapshot, d
<1>6. SessionStep(d, d)
  BY NoStep
<1> QED BY <1>4, <1>5, <1>6 DEF d

LEMMA StepInv == Inv /\ [Next]_vars => Inv'
<1> SUFFICES ASSUME Inv, [Next]_vars PROVE Inv'
  OBVIOUS
<1>1. CASE Sound(session', clock) /\ UNCHANGED <<published, clock>>
  BY <1>1 DEF Inv
<1>2. CASE PullEvents
  <2>1. Sound(session, clock) /\ session \in Session /\ clock \in Nat
    BY DEF Inv, Sound
  <2>2. Sound(ClearEvents(session), clock)
    BY <2>1, PullSound
  <2>3. session.events \in Seq(SessionEvent)
    BY <2>1 DEF Session
  <2>4. published \o session.events \in Seq(SessionEvent)
    BY <2>3 DEF Inv
  <2> QED BY <1>2, <2>1, <2>2, <2>4 DEF PullEvents, Inv
<1>3. CASE clock' = clock + 1 /\ UNCHANGED <<session, published>>
  <2>1. Sound(session, clock) /\ clock \in Nat
    BY DEF Inv
  <2>2. clock + 1 \in Nat /\ \A x \in Nat : x <= clock => x <= clock + 1
    BY <2>1
  <2>3. Sound(session, clock + 1)
    BY <2>1, <2>2, Zenon DEF Sound
  <2> QED BY <1>3, <2>1, <2>2, <2>3 DEF Inv
<1>4. CASE UNCHANGED vars
  BY <1>4 DEF Inv, vars
<1> QED BY <1>1, <1>2, <1>3, <1>4, Steps

\* Every field of a session keeps the type its Go struct gives it, whatever the
\* calls (authentication_session.go:179-196).
THEOREM SessionTypeCorrect == Spec => []TypeOK
<1>1. Inv => TypeOK
  BY DEF Inv, Sound, TypeOK
<1> QED BY <1>1, InitInv, StepInv, PTL DEF Spec

\* A session ends at its own deadline or by a revocation before it
\* (authentication_session.go:345-401), for every policy and skew.
THEOREM AlwaysEndsInOneWay == Spec => []EndsInOneWay
<1>1. Inv => EndsInOneWay
  BY DEF Inv, Sound, EndsInOneWay
<1> QED BY <1>1, InitInv, StepInv, PTL DEF Spec

\* No activity prolongs a session past the lifetime fixed at its creation
\* (authentication_session.go:177, 251).
THEOREM ActivityAlwaysWithinLifetime == Spec => []ActivityWithinLifetime
<1>1. Inv => ActivityWithinLifetime
  BY DEF Inv, Sound, ActivityWithinLifetime
<1> QED BY <1>1, InitInv, StepInv, PTL DEF Spec

\* Every session that can be reached is accepted by RehydrateSession as it was
\* saved (authentication_session.go:425-497).
THEOREM SnapshotAlwaysRehydrates == Spec => []SnapshotRehydrates
<1>1. Inv => SnapshotRehydrates
  <2> SUFFICES ASSUME Inv PROVE SnapshotRehydrates
    OBVIOUS
  <2> DEFINE d == ClearEvents(session)
  <2>1. Sound(d, clock)
    BY PullSound DEF Inv
  <2> HIDE DEF d
  <2>2. SessionSnapshotValid(d)
    <3>1. d.absoluteExpiresAt > d.createdAt /\ d.lastActivityAt >= d.createdAt
      <4>1. /\ d \in Session /\ d.createdAt <= d.lastActivityAt
            /\ d.lastActivityAt < d.absoluteExpiresAt
        BY <2>1 DEF Sound
      <4>2. d.createdAt \in Nat /\ d.lastActivityAt \in Nat /\ d.absoluteExpiresAt \in Nat
        BY <4>1 DEF Session
      <4> QED BY <4>1, <4>2
    <3>2. d.status \in SessionStatus /\ d.aal \in AAL
      BY <2>1 DEF Sound, Session
    <3>3. NoTime \notin Nat
      BY DEF NoTime
    <3> QED BY <2>1, <3>1, <3>2, <3>3 DEF Sound, SessionSnapshotValid, ExpiryReasons
  <2> QED BY <2>2 DEF SnapshotRehydrates, RehydrateSession, Snapshot, d
<1> QED BY <1>1, InitInv, StepInv, PTL DEF Spec

\* Nothing about an ended session ever changes, and the deadlines of none do
\* (authentication_session.go:176-177).
THEOREM EndIsAlwaysFinal == Spec => EndIsFinal
<1> DEFINE A == /\ session.status # SessionStatusActive => Snapshot(session') = Snapshot(session)
                /\ session'.idleTimeout = session.idleTimeout
                /\ session'.absoluteExpiresAt = session.absoluteExpiresAt
<1>1. Inv /\ [Next]_vars => [A]_vars
  <2> SUFFICES ASSUME Inv, [Next]_vars PROVE A \/ UNCHANGED vars
    OBVIOUS
  <2>1. CASE SessionStep(session, session')
    BY <2>1 DEF SessionStep
  <2>2. CASE PullEvents
    <3>1. Sound(session, clock) /\ session \in Session /\ clock \in Nat
      BY DEF Inv, Sound
    <3>2. Snapshot(ClearEvents(session)) = Snapshot(session)
      BY <3>1, PullSound
    <3>3. /\ ClearEvents(session).idleTimeout = session.idleTimeout
          /\ ClearEvents(session).absoluteExpiresAt = session.absoluteExpiresAt
      BY <3>1, ClearEventsFields
    <3> QED BY <2>2, <3>2, <3>3 DEF PullEvents
  <2> QED BY <2>1, <2>2, Steps
<1> QED BY <1>1, InitInv, StepInv, PTL DEF Spec, EndIsFinal

\* Activity counts only while the session is alive
\* (authentication_session.go:333-342).
THEOREM NeverLateActivity == Spec => NoLateActivity
<1> DEFINE A == session'.lastActivityAt # session.lastActivityAt =>
                   /\ session.lastActivityAt < session'.lastActivityAt
                   /\ session'.lastActivityAt < IdleExpiresAt(session)
<1>1. Inv /\ [Next]_vars => [A]_vars
  <2> SUFFICES ASSUME Inv, [Next]_vars PROVE A \/ UNCHANGED vars
    OBVIOUS
  <2>1. CASE SessionStep(session, session')
    BY <2>1 DEF SessionStep
  <2>2. CASE PullEvents
    <3>1. session \in Session
      BY DEF Inv, Sound
    <3>2. ClearEvents(session).lastActivityAt = session.lastActivityAt
      BY <3>1, ClearEventsFields
    <3> QED BY <2>2, <3>2 DEF PullEvents
  <2> QED BY <2>1, <2>2, Steps
<1> QED BY <1>1, InitInv, StepInv, PTL DEF Spec, NoLateActivity

-----------------------------------------------------------------------------
(* The story.                                                              *)

\* What pulling and recording events do to the story they tell.
LEMMA Stories ==
    ASSUME NEW p \in Seq(SessionEvent), NEW q \in Seq(SessionEvent)
    PROVE  /\ (p \o q) \o << >> = p \o q
           /\ \A e \in SessionEvent : p \o Append(q, e) = Append(p \o q, e)
           /\ \A b, e \in SessionEvent : p \o q = <<b>> => p \o Append(q, e) = <<b, e>>
<1>1. (p \o q) \o << >> = p \o q
  OBVIOUS
<1>2. ASSUME NEW e \in SessionEvent PROVE p \o Append(q, e) = Append(p \o q, e)
  OBVIOUS
<1>3. ASSUME NEW b \in SessionEvent, NEW e \in SessionEvent, p \o q = <<b>>
      PROVE  p \o Append(q, e) = <<b, e>>
  <2>1. p \o Append(q, e) = Append(p \o q, e)
    BY <1>2
  <2>2. Append(<<b>>, e) = <<b, e>>
    <3> DEFINE x == Append(<<b>>, e)
               y == <<b, e>>
    <3>1. /\ x \in Seq(SessionEvent) /\ Len(x) = 2 /\ x[1] = b /\ x[2] = e
          /\ y \in Seq(SessionEvent) /\ Len(y) = 2 /\ y[1] = b /\ y[2] = e
      OBVIOUS
    <3> HIDE DEF x, y
    <3>2. \A i \in 1..2 : x[i] = y[i]
      BY <3>1
    <3>3. x = y
      BY <3>1, <3>2
    <3> QED BY <3>3 DEF x, y
  <2> QED BY <1>3, <2>1, <2>2, Zenon
<1> QED BY <1>1, <1>2, <1>3

LEMMA InitStory == Init => EventsTellTheStory
<1> SUFFICES ASSUME Init PROVE EventsTellTheStory
  OBVIOUS
<1>1. PICK aal \in AAL, factors \in SUBSET FactorType, now \in Nows :
         /\ NewAuthenticationSession(aal, factors, now).err = ""
         /\ session = NewAuthenticationSession(aal, factors, now).agg
  BY DEF Init
<1>2. SessionPolicyValid /\ AALMatchesFactors(aal, factors)
  BY <1>1 DEF NewAuthenticationSession, Fail
<1> DEFINE born == SessionCreated(aal, now + AbsoluteLifetime, now)
<1>3. /\ session.status = SessionStatusActive /\ session.events = <<born>>
      /\ born = SessionCreated(session.aal, session.absoluteExpiresAt, session.createdAt)
  BY <1>1, <1>2 DEF NewAuthenticationSession, Ok
<1> HIDE DEF born
<1>4. published = << >>
  BY Zenon DEF Init
<1>5. << >> \o <<born>> = <<born>>
  OBVIOUS
<1> QED BY <1>3, <1>4, <1>5 DEF EventsTellTheStory

LEMMA StepStory == Inv /\ EventsTellTheStory /\ [Next]_vars => EventsTellTheStory'
<1> SUFFICES ASSUME Inv, EventsTellTheStory, [Next]_vars PROVE EventsTellTheStory'
  OBVIOUS
<1> DEFINE born == SessionCreated(session.aal, session.absoluteExpiresAt, session.createdAt)
<1>1. /\ session \in Session /\ session.events \in Seq(SessionEvent)
      /\ published \in Seq(SessionEvent) /\ born \in SessionEvent
  <2>1. session \in Session /\ published \in Seq(SessionEvent)
    BY DEF Inv, Sound
  <2>2. session.aal \in AAL /\ session.absoluteExpiresAt \in Nat /\ session.createdAt \in Nat
    BY <2>1 DEF Session
  <2> QED BY <2>1, <2>2, EventTypes DEF Session
<1>2. CASE Sound(session', clock) /\ SessionStep(session, session') /\ UNCHANGED <<published, clock>>
  <2>1. born' = born /\ Tells(session, session')
    BY <1>2 DEF SessionStep, Tells
  <2> HIDE DEF born
  <2>2. CASE session'.events = session.events /\ session'.status = session.status
             /\ session'.revokedAt = session.revokedAt
             /\ session'.revokeReason = session.revokeReason
    BY <1>2, <2>1, <2>2 DEF EventsTellTheStory, born
  <2>3. ASSUME session.status = SessionStatusActive, session'.status # SessionStatusActive,
               NEW who \in IdentityRef,
               session'.events = Append(session.events,
                                        SessionRevoked(session'.revokeReason, who, session'.revokedAt))
        PROVE  EventsTellTheStory'
    <3> DEFINE e == SessionRevoked(session'.revokeReason, who, session'.revokedAt)
    <3>1. e \in SessionEvent
      <4>1. session'.revokeReason \in RevokeReason /\ session'.revokedAt \in Nat
        <5>1. session' \in Session /\ session'.status \in SessionStatus
          BY <1>2 DEF Sound, Session
        <5>2. ReasonExpiredAbsolute \in RevokeReason /\ ReasonExpiredIdle \in RevokeReason
              /\ ManualReasons \subseteq RevokeReason
          BY DEF RevokeReason, ExpiryReasons
        <5> QED BY <1>2, <2>3, <5>1, <5>2 DEF Sound, SessionStatus
      <4> QED BY <4>1, EventTypes
    <3> HIDE DEF e
    <3>2. published \o session.events = <<born>>
      BY <2>3 DEF EventsTellTheStory, born
    <3>3. published' \o session'.events = <<born, e>>
      <4>1. published' = published /\ session'.events = Append(session.events, e)
        BY <1>2, <2>3 DEF e
      <4>2. published \o Append(session.events, e) = <<born, e>>
        BY <1>1, <3>1, <3>2, Stories DEF born
      <4> QED BY <4>1, <4>2, Zenon
    <3> QED BY <2>1, <2>3, <3>3 DEF EventsTellTheStory, born, e
  <2> QED BY <2>1, <2>2, <2>3 DEF Tells
<1>3. CASE PullEvents
  <2>1. /\ session'.status = session.status /\ session'.revokedAt = session.revokedAt
        /\ session'.revokeReason = session.revokeReason /\ session'.aal = session.aal
        /\ session'.createdAt = session.createdAt
        /\ session'.absoluteExpiresAt = session.absoluteExpiresAt
    BY <1>1, <1>3, ClearEventsFields DEF PullEvents
  <2>2. session'.events = << >>
    BY <1>1, <1>3 DEF PullEvents, ClearEvents, Session
  <2>3. published' \o session'.events = published \o session.events
    BY <1>1, <1>3, <2>2, Stories DEF PullEvents
  <2> QED BY <2>1, <2>3 DEF EventsTellTheStory
<1>4. CASE UNCHANGED <<session, published>>
  BY <1>4 DEF EventsTellTheStory
<1> QED BY <1>2, <1>3, <1>4, Steps DEF vars

\* The events a session records and publishes are its creation and, exactly
\* when it has ended, its end (authentication_session.go:246, 394).
THEOREM EventsAlwaysTellTheStory == Spec => []EventsTellTheStory
BY InitInv, StepInv, InitStory, StepStory, PTL DEF Spec

=============================================================================
