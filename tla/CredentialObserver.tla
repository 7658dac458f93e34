-------------------------- MODULE CredentialObserver --------------------------
(***************************************************************************)
(* A credential together with a consumer that sees nothing but the domain  *)
(* events the callers pull.                                                *)
(***************************************************************************)
EXTENDS Credential

VARIABLE
    consumer    \* the consumer's copy of the state, rebuilt from the events

observerVars == <<cred, clock, consumer>>

\* What the events say about the credential.
Projection(c) ==
    [lockoutStatus |-> c.lockoutStatus, lockedUntil |-> c.lockedUntil,
     forcePasswordChange |-> c.forcePasswordChange]

\* An AccountUnlocked that names another lock than the one the consumer
\* knows of leaves the consumer with a lock it cannot explain.
Apply(view, e) ==
    CASE e.type = "AccountLocked" ->
            [view EXCEPT !.lockoutStatus = e.lockoutType, !.lockedUntil = e.lockedUntil]
      [] e.type = "AccountUnlocked" /\ e.previousLockoutType = view.lockoutStatus ->
            [view EXCEPT !.lockoutStatus = LockoutUnlocked, !.lockedUntil = NoTime]
      [] e.type = "AdminInitiatedPasswordReset" ->
            [view EXCEPT !.forcePasswordChange = TRUE]
      [] e.type \in {"PasswordChanged", "PasswordResetCompleted"} ->
            [view EXCEPT !.forcePasswordChange = FALSE]
      [] OTHER -> view

\* The view after the first n of the events.
ApplyAll(view, events) ==
    LET after[n \in 0..Len(events)] ==
            IF n = 0 THEN view ELSE Apply(after[n - 1], events[n])
    IN  after[Len(events)]

ObserverInit ==
    /\ Init
    /\ consumer = Projection(cred)

ObserverNext ==
    \/ /\ PullEvents
       /\ consumer' = ApplyAll(consumer, cred.events)
    \/ /\ \/ PreCheck \/ FailedAttempt \/ Verification \/ AdminUnlock
          \/ PasswordChange \/ PasswordReset \/ ForceChange \/ Tick
       /\ UNCHANGED consumer

ObserverSpec == ObserverInit /\ [][ObserverNext]_observerVars

\* The recorded events tell the whole story of the lockout state and of the
\* forced-change flag: a consumer that applies them in order holds the same
\* lock, with the same end, and the same flag as the aggregate, once it has
\* applied what is still pending (the record calls of credential.go:376-564).
EventsReproduceState == ApplyAll(consumer, cred.events) = Projection(cred)

=============================================================================
