------------------------ MODULE AuthenticationSession ------------------------
(***************************************************************************)
(* One session used by a sequence of calls of the aggregate's methods, in  *)
(* any order, each with a reading of the clock up to MaxSkew old (see      *)
(* Credential.tla).                                                        *)
(***************************************************************************)
EXTENDS SessionAggregate

CONSTANTS
    MaxClock,   \* bound: the clock stops here
    MaxSkew     \* how stale the `now' of a request may be

ASSUME BoundsAssumption == MaxClock \in Nat /\ MaxSkew \in Nat

VARIABLES
    session,     \* the aggregate
    published,   \* the events pulled so far
    clock        \* the service's clock

vars == <<session, published, clock>>

Nows == {t \in 0..clock : clock - t <= MaxSkew}

Init ==
    /\ clock = MaxSkew
    /\ published = << >>
    /\ \E aal \in AAL, factors \in SUBSET FactorType, now \in Nows :
          LET r == NewAuthenticationSession(aal, factors, now)
          IN  r.err = "" /\ session = r.agg

Call(agg) ==
    /\ session' = agg
    /\ UNCHANGED <<published, clock>>

SweepExpiry == \E now \in Nows : Call(EnforceExpiry(session, now).agg)

Activity == \E now \in Nows : Call(Touch(session, now).agg)

Logout ==
    \E reason \in RevokeReason, by \in IdentityRef, now \in Nows :
        Call(Revoke(session, reason, by, now).agg)

PullEvents ==
    /\ published' = published \o session.events
    /\ session' = ClearEvents(session)
    /\ UNCHANGED clock

Tick ==
    /\ clock < MaxClock
    /\ clock' = clock + 1
    /\ UNCHANGED <<session, published>>

Next == SweepExpiry \/ Activity \/ Logout \/ PullEvents \/ Tick

Spec == Init /\ [][Next]_vars

-----------------------------------------------------------------------------

\* Every field keeps the type the Go struct gives it
\* (authentication_session.go:179-196).
TypeOK ==
    /\ session \in Session
    /\ published \in Seq(SessionEvent)
    /\ clock \in Nat

\* Only its own deadline expires a session, and only before either deadline
\* can it be revoked: an EXPIRED session ended at the exact instant its reason
\* names, which has passed, and a REVOKED one ended while it was still alive,
\* for a reason a caller may give (authentication_session.go:345-401).
EndsInOneWay ==
    /\ session.status = SessionStatusExpired =>
          /\ session.revokedAt <= clock
          /\ \/ /\ session.revokeReason = ReasonExpiredAbsolute
                /\ session.revokedAt = session.absoluteExpiresAt
             \/ /\ session.revokeReason = ReasonExpiredIdle
                /\ session.revokedAt = IdleExpiresAt(session)
                /\ session.revokedAt < session.absoluteExpiresAt
    /\ session.status = SessionStatusRevoked =>
          /\ session.revokeReason \in ManualReasons
          /\ session.revokedAt <= clock
          /\ session.revokedAt < session.absoluteExpiresAt
          /\ session.revokedAt < IdleExpiresAt(session)

\* No activity prolongs a session past the lifetime fixed at its creation
\* (authentication_session.go:177, 251).
ActivityWithinLifetime ==
    /\ session.absoluteExpiresAt = session.createdAt + AbsoluteLifetime
    /\ session.createdAt <= session.lastActivityAt
    /\ session.lastActivityAt < session.absoluteExpiresAt

\* Saving the session and reading it back gives the same session
\* (authentication_session.go:425-497).
SnapshotRehydrates == RehydrateSession(Snapshot(session)) = Ok(ClearEvents(session))

\* The events tell the session's story, once: its creation and, exactly when
\* it has ended, its end, with the reason and the instant the session keeps.
EventsTellTheStory ==
    LET story == published \o session.events
        born  == SessionCreated(session.aal, session.absoluteExpiresAt, session.createdAt)
    IN  \/ session.status = SessionStatusActive /\ story = <<born>>
        \/ /\ session.status # SessionStatusActive
           /\ \E by \in IdentityRef :
                 story = <<born, SessionRevoked(session.revokeReason, by, session.revokedAt)>>

\* "a REVOKED or EXPIRED session can never become ACTIVE again": nothing about
\* an ended session ever changes, and the timeouts of none do
\* (authentication_session.go:176-177).
EndIsFinal ==
    [][/\ session.status # SessionStatusActive => Snapshot(session') = Snapshot(session)
       /\ session'.idleTimeout = session.idleTimeout
       /\ session'.absoluteExpiresAt = session.absoluteExpiresAt]_vars

\* Activity counts only while the session is alive: it moves the idle timer
\* forward, from before the instant the session would have expired
\* (authentication_session.go:333-342).
NoLateActivity ==
    [][session'.lastActivityAt # session.lastActivityAt =>
          /\ session.lastActivityAt < session'.lastActivityAt
          /\ session'.lastActivityAt < IdleExpiresAt(session)]_vars

=============================================================================
