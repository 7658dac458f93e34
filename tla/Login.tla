-------------------------------- MODULE Login --------------------------------
(***************************************************************************)
(* Concurrent logins of one identity from one client: the usecase of       *)
(* internal/features/login/usecase/login.go over its repositories.         *)
(*                                                                         *)
(* A request runs through the stages of Login(); the stage a request is in *)
(* is the next call it makes to Redis, to the identity service or to       *)
(* Postgres, and everything between two such calls is one step.  Postgres  *)
(* transactions are READ COMMITTED (db.go:40): each statement sees what is *)
(* committed when it runs, and an UPDATE holds its row until the           *)
(* transaction ends.                                                       *)
(*                                                                         *)
(* Operators named Bug... are deliberate errors, as in CredentialAggregate.*)
(***************************************************************************)
EXTENDS CredentialAggregate, SessionAggregate, FiniteSets

CONSTANTS
    Requests,          \* login requests; each creates at most one session
    Unaddressed,       \* those whose client address is the zero netip.Addr
    ConcurrentPolicy,  \* Config.ConcurrentPolicy, any non-empty string
    ConcurrentMax,     \* Config.ConcurrentMax
    Second,            \* clock ticks in a second
    Faulty,            \* whether calls may fail and requests may be cut off
    Meanwhile,         \* what other features may do: "register", "revoke", "enrol"
    MaxInFlight,       \* bound: requests running at the same time
    MaxClock           \* bound: the clock stops here

ASSUME LoginAssumption ==
    /\ IsFiniteSet(Requests)
    /\ ConcurrentMax \in Nat /\ Second \in Nat \ {0}
    /\ MaxInFlight \in Nat /\ MaxClock \in Nat
    /\ Faulty \in BOOLEAN /\ Unaddressed \subseteq Requests
    /\ Meanwhile \subseteq {"register", "revoke", "enrol"}

VARIABLES
    clock,
    req,        \* the running requests' local state
    credRow,    \* the identity's row of credentials
    sessions,   \* authentication_sessions, by the request that created the row
    families,   \* the sessions with a refresh_token_families and a refresh_tokens row
    outbox,     \* outbox_events, in commit order
    device,     \* the row of registered_devices for the client's fingerprint
    factor,     \* since when the identity has an ACTIVE row in mfa_factors, if it has
    attempts,   \* the outcome of a request's login_attempts row, if any
    mfaStore    \* the requests whose MFA session is in Redis

db == <<credRow, sessions, families, outbox, device, factor>>
vars == <<clock, req, credRow, sessions, families, outbox, device, factor, attempts, mfaStore>>

Stages ==
    {"idle", "rateLimit", "resolve", "load", "decide", "txFail", "txForced", "txMFA",
     "mfaStore", "txPolicy", "txOldest", "txEvict", "txWrite", "done"}

Outcomes ==
    {"RATE_LIMITED", "FAILED_CREDENTIALS", "LOCKED", "PASSWORD_CHANGE_REQUIRED",
     "MFA_REQUIRED", "SUCCEEDED"}

Responses ==
    {"COMPLETED", "MFA_REQUIRED", "PASSWORD_CHANGE_REQUIRED", "ErrRateLimited",
     "ErrLoginInvalidCredentials", "ErrLoginAccountLocked", "ErrSystemUpstream",
     "ErrSystemDatabase", "ErrSystemInternal"}

\* A credential and the session event streams share the outbox.
OutboxRow(aggregate, event) == [aggregate |-> aggregate, event |-> event]
OutboxRows(aggregate, events) == [i \in 1..Len(events) |-> OutboxRow(aggregate, events[i])]

\* A request that holds no credential.
NilCredential == [lockoutStatus |-> "nil"]

Idle ==
    [stage |-> "idle", now |-> 0, correct |-> FALSE, cred |-> NilCredential,
     evict |-> << >>, evicted |-> {}, response |-> ""]

NoDevice == [trustStatus |-> "none", lastSeenAt |-> 0, revokedAt |-> NoTime]

\* What Register inserts.
NewDevice(now) == [trustStatus |-> "REGISTERED", lastSeenAt |-> now, revokedAt |-> NoTime]

Init ==
    /\ clock = 0
    /\ \E p \in Passwords, force \in BOOLEAN : credRow = NewCredential(p, force, 0)
    /\ req = [r \in Requests |-> Idle]
    /\ sessions = [r \in Requests |-> NilSession]
    /\ families = {}
    /\ outbox = << >>
    /\ device \in {NoDevice, NewDevice(0)}
    /\ factor \in {NoTime, 0}
    /\ attempts = [r \in Requests |-> ""]
    /\ mfaStore = {}

-----------------------------------------------------------------------------
(* Stages.                                                                 *)

InFlight == {r \in Requests : req[r].stage \notin {"idle", "done"}}

Goto(r, stage) == req' = [req EXCEPT ![r].stage = stage]

\* Ends the request; what it held in memory and its row locks go with it.
Respond(r, response) ==
    req' = [req EXCEPT ![r] = [Idle EXCEPT !.stage = "done", !.response = response]]

\* recordAttemptBestEffort: a failed write is logged and forgotten.
RecordAttemptBestEffort(r, outcome) ==
    \/ attempts' = [attempts EXCEPT ![r] = outcome]
    \/ Faulty /\ UNCHANGED attempts

Start(r) ==
    /\ req[r].stage = "idle"
    /\ Cardinality(InFlight) < MaxInFlight
    /\ \E correct \in BOOLEAN :
          req' = [req EXCEPT ![r].stage = "rateLimit", ![r].now = clock, ![r].correct = correct]
    /\ UNCHANGED <<clock, db, attempts, mfaStore>>

\* checkRateLimit, whose answer is any (RateLimit.tla models the limiter).
CheckRateLimit(r) ==
    /\ req[r].stage = "rateLimit"
    /\ \/ Goto(r, "resolve") /\ UNCHANGED attempts
       \/ Respond(r, "ErrRateLimited") /\ RecordAttemptBestEffort(r, "RATE_LIMITED")
       \/ Faulty /\ Respond(r, "ErrSystemUpstream") /\ UNCHANGED attempts
    /\ UNCHANGED <<clock, db, mfaStore>>

\* Records the attempt and answers the same whatever was missing.
InvalidCredentials(r) ==
    /\ Respond(r, "ErrLoginInvalidCredentials")
    /\ RecordAttemptBestEffort(r, "FAILED_CREDENTIALS")

\* ResolveIdentity: a missing or inactive identity, and one that has no
\* credential, end as invalidCredentials.
ResolveIdentity(r) ==
    /\ req[r].stage = "resolve"
    /\ \/ Goto(r, "load") /\ UNCHANGED attempts
       \/ InvalidCredentials(r)
       \/ Faulty /\ Respond(r, "ErrSystemUpstream") /\ UNCHANGED attempts
    /\ UNCHANGED <<clock, db, mfaStore>>

\* FindByIdentity and what follows in memory: the lockout pre-check, the
\* password verification and its consequence for the credential.
LoadAndVerify(r) ==
    LET loaded  == RehydrateCredential(credRow)
        checked == EnsureVerifiable(loaded.agg, req[r].now)
        failed  == RecordFailedAttempt(checked.agg, req[r].now)
        passed  == RecordSuccessfulVerification(checked.agg, req[r].now)
    IN  /\ req[r].stage = "load"
        /\ \/ /\ loaded.err # "" \/ Faulty
              /\ Respond(r, "ErrSystemDatabase")
              /\ UNCHANGED attempts
           \/ /\ loaded.err = "" /\ checked.err # ""
              /\ Respond(r, "ErrLoginAccountLocked")
              /\ RecordAttemptBestEffort(r, "LOCKED")
           \/ /\ loaded.err = "" /\ checked.err = "" /\ ~req[r].correct
              /\ req' = [req EXCEPT ![r].stage = "txFail", ![r].cred = failed.agg]
              /\ UNCHANGED attempts
           \/ /\ loaded.err = "" /\ checked.err = "" /\ req[r].correct
              /\ req' = [req EXCEPT ![r].stage = "decide", ![r].cred = passed.agg]
              /\ UNCHANGED attempts
        /\ UNCHANGED <<clock, db, mfaStore>>

\* Finds a revoked device too.
BugFindByFingerprint == device.trustStatus # "none"

\* FindByFingerprint: whether the device is recognised.
FindByFingerprint == device.trustStatus \notin {"none", "REVOKED"}

HasActiveFactor == factor # NoTime

\* BR-003.
MFARequired == HasActiveFactor \/ ~FindByFingerprint

\* The device and factor reads and the decision tree.  The session is
\* constructed, and the tokens are made, before the transaction.
Decide(r) ==
    LET forced  == RequiresPasswordChange(req[r].cred, req[r].now)
        session == NewAuthenticationSession("AAL1", {}, req[r].now)
    IN  /\ req[r].stage = "decide"
        /\ \/ forced /\ Goto(r, "txForced")
           \/ ~forced /\ MFARequired /\ Goto(r, "txMFA")
           \/ ~forced /\ ~MFARequired /\ session.err = "" /\ Goto(r, "txPolicy")
           \/ Faulty /\ Respond(r, "ErrSystemDatabase")
           \/ /\ Faulty \/ (~forced /\ ~MFARequired /\ session.err # "")
              /\ Respond(r, "ErrSystemInternal")
        /\ UNCHANGED <<clock, db, attempts, mfaStore>>

-----------------------------------------------------------------------------
(* Transactions.                                                           *)

\* A failed statement, a lost connection, a failed commit: rolled back.
TxRollback(r) ==
    /\ Respond(r, "ErrSystemDatabase")
    /\ UNCHANGED <<db, attempts>>

\* Commit fails to report: its writes are durable and the caller gets an error.
TxUnknown(r, writes) == Faulty /\ writes /\ Respond(r, "ErrSystemDatabase")

\* The UPDATE leaves out the two lock times.
BugSaveOmitsTimes(r, outcome) ==
    /\ credRow' = [Snapshot(req[r].cred) EXCEPT !.lockedAt = credRow.lockedAt,
                                                !.lockedUntil = credRow.lockedUntil]
    /\ outbox' = outbox \o OutboxRows("credential", req[r].cred.events)
    /\ attempts' = [attempts EXCEPT ![r] = outcome]
    /\ UNCHANGED <<sessions, families, device, factor>>

\* The events are pulled and never appended.
BugEventsDropped(r, outcome) ==
    /\ credRow' = Snapshot(req[r].cred)
    /\ attempts' = [attempts EXCEPT ![r] = outcome]
    /\ UNCHANGED <<sessions, families, outbox, device, factor>>

\* Save, Append and Record of a login that creates no session.
CredentialWrites(r, outcome) ==
    /\ credRow' = Snapshot(req[r].cred)
    /\ outbox' = outbox \o OutboxRows("credential", req[r].cred.events)
    /\ attempts' = [attempts EXCEPT ![r] = outcome]
    /\ UNCHANGED <<sessions, families, device, factor>>

TxFail(r) ==
    /\ req[r].stage = "txFail"
    /\ \/ CredentialWrites(r, "FAILED_CREDENTIALS") /\ Respond(r, "ErrLoginInvalidCredentials")
       \/ TxUnknown(r, CredentialWrites(r, "FAILED_CREDENTIALS"))
       \/ Faulty /\ TxRollback(r)
    /\ UNCHANGED <<clock, mfaStore>>

TxForcedChange(r) ==
    /\ req[r].stage = "txForced"
    /\ \/ /\ CredentialWrites(r, "PASSWORD_CHANGE_REQUIRED")
          /\ Respond(r, "PASSWORD_CHANGE_REQUIRED")
       \/ TxUnknown(r, CredentialWrites(r, "PASSWORD_CHANGE_REQUIRED"))
       \/ Faulty /\ TxRollback(r)
    /\ UNCHANGED <<clock, mfaStore>>

TxMFARequired(r) ==
    /\ req[r].stage = "txMFA"
    /\ \/ CredentialWrites(r, "MFA_REQUIRED") /\ Goto(r, "mfaStore")
       \/ TxUnknown(r, CredentialWrites(r, "MFA_REQUIRED"))
       \/ Faulty /\ TxRollback(r)
    /\ UNCHANGED <<clock, mfaStore>>

\* Treats the Redis write as best effort.
BugStoreMFASession(r) ==
    /\ req[r].stage = "mfaStore"
    /\ mfaStore' \in {mfaStore, mfaStore \cup {r}}
    /\ Respond(r, "MFA_REQUIRED")
    /\ UNCHANGED <<clock, db, attempts>>

\* The Redis write follows the commit; an error may hide a write that happened.
StoreMFASession(r) ==
    /\ req[r].stage = "mfaStore"
    /\ \/ mfaStore' = mfaStore \cup {r} /\ Respond(r, "MFA_REQUIRED")
       \/ Faulty /\ mfaStore' \in {mfaStore, mfaStore \cup {r}} /\ Respond(r, "ErrSystemUpstream")
    /\ UNCHANGED <<clock, db, attempts>>

-----------------------------------------------------------------------------
(* completeSession's transaction.                                          *)

\* The rows CountActive counts, FindOldestActive and ListActive select from.
ActiveRows == {x \in Requests : sessions[x].status = SessionStatusActive}

\* scanSessionRow rejects what RehydrateSession rejects, and the text that
\* Create stores for the zero address, which ParseAddr does not take back.
Readable(x) == x \notin Unaddressed /\ RehydrateSession(sessions[x]).err = ""

\* A row can be evicted unless the session turns out to have expired; then the
\* EXPIRED state stays in memory and the row stays ACTIVE.
Evictable(x, now) == Revoke(sessions[x], "CONCURRENT_SESSION_LIMIT", "", now).err = ""

\* ORDER BY created_at DESC.
BugByCreation(S) ==
    {q \in [1..Cardinality(S) -> S] :
        \A i, j \in 1..Cardinality(S) :
            i < j => q[i] # q[j] /\ sessions[q[i]].createdAt >= sessions[q[j]].createdAt}

\* ORDER BY created_at leaves rows of the same instant in any order.
ByCreation(S) ==
    {q \in [1..Cardinality(S) -> S] :
        \A i, j \in 1..Cardinality(S) :
            i < j => q[i] # q[j] /\ sessions[q[i]].createdAt <= sessions[q[j]].createdAt}

\* Goes on to revoke the given rows, or, when there are none, to the writes.
EvictAll(r, rows) ==
    req' = [req EXCEPT ![r].evict = rows,
                       ![r].stage = IF rows = << >> THEN "txWrite" ELSE "txEvict"]

\* Counts the sessions there are, not the one about to be added.
BugApplyPolicy(r) ==
    /\ req[r].stage = "txPolicy"
    /\ Goto(r, IF Cardinality(ActiveRows) > ConcurrentMax THEN "txOldest" ELSE "txWrite")
    /\ UNCHANGED <<clock, db, attempts, mfaStore>>

\* applyConcurrentSessionPolicy up to the first UPDATE.  An unknown policy
\* means no policy.
ApplyPolicy(r) ==
    /\ req[r].stage = "txPolicy"
    /\ \/ /\ ConcurrentPolicy = "SINGLE" /\ \A x \in ActiveRows : Readable(x)
          /\ \E q \in ByCreation({x \in ActiveRows : Evictable(x, req[r].now)}) : EvictAll(r, q)
          /\ UNCHANGED <<db, attempts>>
       \/ /\ ConcurrentPolicy = "LIMIT_N"
          /\ Goto(r, IF Cardinality(ActiveRows) >= ConcurrentMax THEN "txOldest" ELSE "txWrite")
          /\ UNCHANGED <<db, attempts>>
       \/ /\ ConcurrentPolicy \notin {"SINGLE", "LIMIT_N"}
          /\ Goto(r, "txWrite")
          /\ UNCHANGED <<db, attempts>>
       \/ /\ Faulty \/ (ConcurrentPolicy = "SINGLE" /\ \E x \in ActiveRows : ~Readable(x))
          /\ TxRollback(r)
    /\ UNCHANGED <<clock, mfaStore>>

\* FindOldestActive, in a statement and so on a snapshot of its own.
FindOldest(r) ==
    /\ req[r].stage = "txOldest"
    /\ \/ ActiveRows = {} /\ EvictAll(r, << >>) /\ UNCHANGED <<db, attempts>>
       \/ \E q \in ByCreation(ActiveRows) :
             /\ ActiveRows # {} /\ Readable(q[1])
             /\ EvictAll(r, IF Evictable(q[1], req[r].now) THEN <<q[1]>> ELSE << >>)
             /\ UNCHANGED <<db, attempts>>
       \/ /\ \/ Faulty
             \/ \E q \in ByCreation(ActiveRows) : ActiveRows # {} /\ ~Readable(q[1])
          /\ TxRollback(r)
    /\ UNCHANGED <<clock, mfaStore>>

\* The transaction that holds row x.
Holds(r, x) == x \in req[r].evicted

Waits(r, o) ==
    /\ r # o
    /\ req[r].stage = "txEvict"
    /\ Holds(o, Head(req[r].evict))

\* Revokes the first row every time round.
BugEvictNext(r) ==
    /\ req[r].stage = "txEvict"
    /\ \A o \in Requests : ~Waits(r, o)
    /\ req' = [req EXCEPT ![r].evicted = @ \cup {Head(req[r].evict)}]
    /\ UNCHANGED <<clock, db, attempts, mfaStore>>

\* sessions.Revoke: the UPDATE waits for whoever holds the row.
EvictNext(r) ==
    /\ req[r].stage = "txEvict"
    /\ \A o \in Requests : ~Waits(r, o)
    /\ req' = [req EXCEPT ![r].evicted = @ \cup {Head(req[r].evict)},
                          ![r].evict = Tail(@),
                          ![r].stage = IF Len(req[r].evict) = 1 THEN "txWrite" ELSE "txEvict"]
    /\ UNCHANGED <<clock, db, attempts, mfaStore>>

\* A statement fails while it waits for a row, or Postgres breaks a cycle of
\* waiting transactions by failing one of them.
AbortEviction(r) ==
    /\ req[r].stage = "txEvict"
    /\ \/ Faulty
       \/ \E cycle \in SUBSET Requests :
             r \in cycle /\ \A x \in cycle : \E o \in cycle : Waits(x, o)
    /\ TxRollback(r)
    /\ UNCHANGED <<clock, mfaStore>>

\* The idle timeout in units of two seconds.
BugSessionRow(s) == [Snapshot(s) EXCEPT !.idleTimeout = (@ \div (2 * Second)) * 2 * Second]

\* What Create stores of a session: the idle timeout in whole seconds.
SessionRow(s) == [Snapshot(s) EXCEPT !.idleTimeout = (@ \div Second) * Second]

\* Touch of a device, which does not ask whether it has been revoked since.
TouchDevice(now) == [device EXCEPT !.lastSeenAt = now]

\* The evicted rows' updates, then the device, credential, session, token,
\* outbox and attempt writes.  The evicted sessions' events are dropped.
SessionWrites(r) ==
    LET session == NewAuthenticationSession("AAL1", {}, req[r].now).agg
        Evicted(x) == [sessions[x] EXCEPT !.status = SessionStatusRevoked,
                                          !.revokedAt = req[r].now,
                                          !.revokeReason = "CONCURRENT_SESSION_LIMIT"]
    IN  /\ sessions' = [x \in Requests |->
                           IF x = r THEN SessionRow(session)
                           ELSE IF Holds(r, x) THEN Evicted(x)
                           ELSE sessions[x]]
        /\ device' = TouchDevice(req[r].now)
        /\ credRow' = Snapshot(req[r].cred)
        /\ families' = families \cup {r}
        /\ outbox' = outbox \o OutboxRows("credential", req[r].cred.events)
                            \o OutboxRows(r, session.events)
        /\ attempts' = [attempts EXCEPT ![r] = "SUCCEEDED"]
        /\ UNCHANGED factor

\* Records the attempt outside the transaction.
BugTxSession(r) ==
    /\ req[r].stage = "txWrite"
    /\ \/ SessionWrites(r) /\ Respond(r, "COMPLETED")
       \/ /\ Faulty /\ Respond(r, "ErrSystemDatabase") /\ UNCHANGED db
          /\ attempts' = [attempts EXCEPT ![r] = "SUCCEEDED"]
    /\ UNCHANGED <<clock, mfaStore>>

TxSession(r) ==
    /\ req[r].stage = "txWrite"
    /\ \/ SessionWrites(r) /\ Respond(r, "COMPLETED")
       \/ TxUnknown(r, SessionWrites(r))
       \/ Faulty /\ TxRollback(r)
    /\ UNCHANGED <<clock, mfaStore>>

-----------------------------------------------------------------------------

\* The process stops, or the client goes away, between two calls.
CutOff(r) ==
    /\ Faulty /\ r \in InFlight
    /\ Respond(r, "")
    /\ UNCHANGED <<clock, db, attempts, mfaStore>>

Step(r) ==
    \/ CheckRateLimit(r) \/ ResolveIdentity(r) \/ LoadAndVerify(r) \/ Decide(r)
    \/ TxFail(r) \/ TxForcedChange(r) \/ TxMFARequired(r) \/ StoreMFASession(r)
    \/ ApplyPolicy(r) \/ FindOldest(r) \/ EvictNext(r) \/ AbortEviction(r) \/ TxSession(r)

Tick ==
    /\ clock < MaxClock
    /\ clock' = clock + 1
    /\ UNCHANGED <<req, db, attempts, mfaStore>>

-----------------------------------------------------------------------------
(* What other features do to the tables this one reads.                   *)

\* Register: ON CONFLICT DO NOTHING, so only where there is no row.
RegisterDevice ==
    /\ "register" \in Meanwhile /\ device.trustStatus = "none"
    /\ device' = NewDevice(clock)
    /\ UNCHANGED factor

\* Sets trust_status and revoked_at.
RevokeDevice ==
    /\ "revoke" \in Meanwhile /\ device.trustStatus = "REGISTERED"
    /\ device' = [device EXCEPT !.trustStatus = "REVOKED", !.revokedAt = clock]
    /\ UNCHANGED factor

\* A first factor becomes ACTIVE.
EnrolFactor ==
    /\ "enrol" \in Meanwhile /\ factor = NoTime
    /\ factor' = clock
    /\ UNCHANGED device

Elsewhere ==
    /\ RegisterDevice \/ RevokeDevice \/ EnrolFactor
    /\ UNCHANGED <<clock, req, credRow, sessions, families, outbox, attempts, mfaStore>>

-----------------------------------------------------------------------------

\* Nothing is left to do within the bounds.
Finished ==
    /\ clock = MaxClock /\ \A r \in Requests : req[r].stage = "done"
    /\ UNCHANGED vars

Next ==
    \/ \E r \in Requests : Start(r) \/ Step(r) \/ CutOff(r)
    \/ Tick \/ Elsewhere \/ Finished

Spec == Init /\ [][Next]_vars

\* A request is a goroutine, the calls it makes answer or time out.
FairSpec == Spec /\ \A r \in Requests : WF_vars(Step(r))

-----------------------------------------------------------------------------
(* Invariants.                                                             *)

Request ==
    [stage : Stages, now : Nat, correct : BOOLEAN, cred : Credential \cup {NilCredential},
     evict : Seq(Requests), evicted : SUBSET Requests, response : Responses \cup {""}]

OutboxEvent ==
         [aggregate : {"credential"}, event : CredentialEvent]
    \cup [aggregate : Requests, event : SessionEvent]

\* The tables and the requests' locals keep their types.
TypeOK ==
    /\ clock \in Nat
    /\ req \in [Requests -> Request]
    /\ credRow \in Credential
    /\ sessions \in [Requests -> Session \cup {NilSession}]
    /\ families \in SUBSET Requests
    /\ outbox \in Seq(OutboxEvent)
    /\ device \in [trustStatus : {"none", "REGISTERED", "REVOKED"}, lastSeenAt : Nat,
                   revokedAt : OptTime]
    /\ factor \in OptTime
    /\ attempts \in [Requests -> Outcomes \cup {""}]
    /\ mfaStore \in SUBSET Requests

\* Save overwrites the row with a credential read before the transaction
\* (login.go:63, db/credential.go:74-99).  Whatever updates that loses, the
\* row is never a mixture: its counter agrees with its lock, its lock with the
\* ladder, and FindByIdentity can always read it back.
CredentialRowSound ==
    /\ CountMatchesStatus(credRow)
    /\ LockMatchesLadder(credRow)
    /\ RehydrateCredential(credRow) = Ok(credRow)

HasEvent(aggregate, type) ==
    \E i \in 1..Len(outbox) : outbox[i].aggregate = aggregate /\ outbox[i].event.type = type

\* A session, its refresh-token family, its SUCCEEDED attempt and its
\* SessionCreated event exist together or not at all, and the device was last
\* seen by one of the sessions there are, whichever call fails and wherever the
\* request is cut off (login.go:312-373, db.go:37-61).
LoginIsAtomic ==
    \A r \in Requests :
        /\ sessions[r] # NilSession <=> attempts[r] = "SUCCEEDED"
        /\ r \in families <=> attempts[r] = "SUCCEEDED"
        /\ HasEvent(r, "SessionCreated") <=> attempts[r] = "SUCCEEDED"
        /\ attempts[r] = "SUCCEEDED" =>
              \E x \in Requests :
                 sessions[x] # NilSession /\ sessions[x].createdAt = device.lastSeenAt

\* A session row a policy query selects can be read back, if its client had an
\* address (db/session.go:42-43, 163, 182): storing the idle timeout in seconds
\* leaves a usable session.
SessionRowsReadable == \A x \in ActiveRows \ Unaddressed : Readable(x)

\* BR-003 (login.go:114-121), and "a revoked fingerprint can never [...] be
\* treated as recognized again" (db/device.go:14-16): a login that began after a
\* factor was enrolled or the device revoked opens no session by password alone,
\* and one that does was under way when that happened.
SecondFactorDemanded ==
    \A r \in Requests :
        sessions[r] # NilSession =>
            /\ factor # NoTime => sessions[r].createdAt <= factor
            /\ device.trustStatus = "REVOKED" => sessions[r].createdAt <= device.revokedAt
            /\ device.trustStatus # "none"

Promise == INSTANCE LoginPromise WITH
    record     <- attempts,
    opened     <- {r \in Requests : sessions[r] # NilSession},
    challenged <- mfaStore,
    answer     <- [r \in Requests |-> req[r].response]

\* A login keeps its promise (LoginPromise.tla) through every failed call,
\* unreported commit and cut: one record, made with the session it opens, and
\* one answer that agrees with it (login.go:26-385).
KeepsPromise == Promise!PSpec

LiveSessions == {x \in ActiveRows : IsActive(sessions[x], clock)}

\* FR-LOGIN-012: the policy bounds the sessions in use at one time, which
\* "TxSessions" (repository.go:133-135) calls race-free.
LiveWithinLimit ==
    Cardinality(LiveSessions) <= (IF ConcurrentPolicy = "SINGLE" THEN 1 ELSE ConcurrentMax)

\* LIMIT_N evicts the oldest session (authentication_session.go:84-86): no
\* evicted session is younger than one still active.
OldestEvicted ==
    \A x, y \in Requests :
        sessions[x].status = SessionStatusRevoked /\ y \in ActiveRows
            => sessions[x].createdAt <= sessions[y].createdAt

\* "every write this feature makes [...] commits atomically with the outbox
\* rows recording it" (repository.go:3-5): a revoked session has its
\* SessionRevoked event in the outbox.
EvictionOnRecord ==
    \A x \in Requests :
        sessions[x].status = SessionStatusRevoked => HasEvent(x, "SessionRevoked")

LockEvents == {i \in 1..Len(outbox) : outbox[i].event.type = "AccountLocked"}

\* The row's escalation counter counts the AccountLocked events on record: a
\* lock is stored with its event or neither is (login.go:160-176).
LocksOnRecord == credRow.lockoutHistoryCount = Cardinality(LockEvents)

\* Whatever updates overlapping logins lose, the lock the row is under is on
\* record with its type and its end, and so is every lockout the row counts
\* (login.go:160-166, 335, 355-358).
StoredLocksOnRecord ==
    /\ credRow.lockoutHistoryCount <= Cardinality(LockEvents)
    /\ credRow.lockoutStatus # LockoutUnlocked =>
          \E i \in 1..Len(outbox) :
             outbox[i] = OutboxRow("credential",
                                   AccountLocked(credRow.lockoutStatus, credRow.lockedUntil))

-----------------------------------------------------------------------------
(* Action and liveness properties.                                         *)

\* "Cumulative lifetime lockout counter driving escalation; never reset"
\* (migrations/000003_create_credentials.up.sql:18).
RowEscalationNeverReset ==
    [][credRow'.lockoutHistoryCount >= credRow.lockoutHistoryCount]_vars

\* A lock in force shields the row: no login, right or wrong password, writes
\* the credential before its lock has run out (login.go:63-88, 157-176,
\* credential.go EnsureVerifiable).
LockedRowUntouched == [][IsLocked(credRow, clock) => credRow' = credRow]_vars

\* A request that started is answered: no error path forgets to answer, and
\* no group of transactions evicting the same sessions waits for ever.  Each of
\* finitely many requests runs once, so that all who started are answered says
\* that a time comes when none is in flight, and stays (login.go:26-410).
EveryRequestAnswered == <>[](InFlight = {})

=============================================================================
