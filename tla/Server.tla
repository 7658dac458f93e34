-------------------------------- MODULE Server --------------------------------
(***************************************************************************)
(* The process: `serve' of cmd/server/serve.go from loading the            *)
(* configuration to its exit, with Build, Ready and Close of               *)
(* container/container.go, the relay's goroutine, readiness probes and     *)
(* login requests over both transports.                                    *)
(*                                                                         *)
(* server.Run is not part of the repository: as serve uses it, it accepts  *)
(* requests until it is told to stop, waits for those in flight for at     *)
(* most ShutdownTimeout, and then runs the OnShutdown functions in order.  *)
(* Requests that outlast it have their contexts cancelled.                 *)
(*                                                                         *)
(* Operators named Bug... are deliberate errors, as in CredentialAggregate.*)
(***************************************************************************)
EXTENDS Config, ErrorContract, Sequences

CONSTANTS
    Requests,   \* login requests
    FactorSets  \* the active factors a user may have

ASSUME ServerAssumption == FactorSets \subseteq SUBSET FactorTypes

VARIABLES
    config,     \* the two sources of the configuration, then their union
    stage,      \* how far serve has got
    step,       \* the next step of Build or of Close
    con,        \* the fields of Container that are not nil
    open,       \* what has been opened and not closed
    cancelled,  \* whether relayCtx is
    relay,      \* the relay's goroutine
    probe,      \* the ping a request to /readyz waits for, or the last answer
    forced,     \* whether a wait of the shutdown timed out
    req         \* by request: its transport, where it is, why it ended and the answer

process == <<config, stage, step, con, open, cancelled, forced>>
vars == <<config, stage, step, con, open, cancelled, forced, relay, probe, req>>

Stages == {"load", "build", "serving", "draining", "stopOps", "closing", "exited"}

Resources == {"telemetry", "postgres", "redis", "identity", "loopback", "writer"}

Fields == {"telemetry", "postgres", "redis", "clients", "relayCancel", "writer"}

BuildSteps == <<"telemetry", "postgres", "redis", "signer", "clients", "relay", "rest">>

CloseSteps == <<"relayCancel", "clients", "writer", "redis", "postgres", "telemetry">>

NoRequest ==
    [transport |-> "", body |-> "", at |-> "none", cause |-> "", factors |-> {}, answer |-> << >>]

\* A file and an environment that depart from a complete configuration in one
\* key, or in the two keys of a pair that is checked together.
Departures ==
    {{k} : k \in ConfigKeys}
        \cup {{"auth.token.private_key_pem", "auth.token.private_key_path"},
              {"telemetry.enabled", "telemetry.otlp_endpoint"}}

Complete == [k \in ConfigKeys |-> IF k = "auth.token.private_key_pem" THEN "unset" ELSE "good"]

Init ==
    /\ \E D \in Departures : \E f, e \in [D -> Values] :
          config = [file |-> [k \in ConfigKeys |-> IF k \in D THEN f[k] ELSE Complete[k]],
                    env  |-> [k \in ConfigKeys |-> IF k \in D THEN e[k] ELSE "unset"]]
    /\ stage = "load" /\ step = 1
    /\ con = {} /\ open = {}
    /\ cancelled = FALSE /\ forced = FALSE
    /\ relay = "absent" /\ probe = "no"
    /\ req = [r \in Requests |-> NoRequest]

-----------------------------------------------------------------------------
(* Load and Build.                                                         *)

Load ==
    /\ stage = "load"
    /\ LET cfg == Merge(config.file, config.env)
       IN  IF LoadOk(cfg) THEN config' = cfg /\ stage' = "build"
           ELSE config' = << >> /\ stage' = "exited"
    /\ UNCHANGED <<step, con, open, cancelled, forced, relay, probe, req>>

\* On to the next step of Build.  Nothing reads the configuration after it.
Built ==
    IF step < Len(BuildSteps) THEN step' = step + 1 /\ UNCHANGED <<config, stage>>
    ELSE step' = 1 /\ stage' = "serving" /\ config' = << >>

\* The deferred function: Close, on what there is.
BuildFailed ==
    /\ stage' = "closing" /\ step' = 1 /\ config' = << >>
    /\ UNCHANGED <<con, open, relay>>

\* telemetry.New, postgres.New and redis.New: each may fail.
BuildStore(s) ==
    /\ BuildSteps[step] = s
    /\ \/ con' = con \cup {s} /\ open' = open \cup {s} /\ Built /\ UNCHANGED relay
       \/ BuildFailed

BuildSigner ==
    /\ BuildSteps[step] = "signer"
    /\ IF SignerOk(config) THEN Built /\ UNCHANGED <<con, open, relay>> ELSE BuildFailed

\* The first connection is not closed when the second fails.
BugInitGrpcConns ==
    /\ BuildSteps[step] = "clients"
    /\ \/ /\ IsSet(config, "services.identity.addr")
          /\ con' = con \cup {"clients"} /\ open' = open \cup {"identity", "loopback"}
          /\ Built /\ UNCHANGED relay
       \/ /\ stage' = "closing" /\ step' = 1 /\ config' = << >>
          /\ open' = open \cup {"identity"} /\ UNCHANGED <<con, relay>>

\* InitGrpcConns: an empty address is an error, and so may either connection
\* be; when the second fails the first is closed, and none is kept.
InitGrpcConns ==
    /\ BuildSteps[step] = "clients"
    /\ \/ /\ IsSet(config, "services.identity.addr")
          /\ con' = con \cup {"clients"} /\ open' = open \cup {"identity", "loopback"}
          /\ Built /\ UNCHANGED relay
       \/ BuildFailed

\* The relay's context, the writer and the goroutine.
StartRelay ==
    /\ BuildSteps[step] = "relay"
    /\ con' = con \cup {"relayCancel", "writer"} /\ open' = open \cup {"writer"}
    /\ relay' = "waiting"
    /\ Built

RegisterREST ==
    /\ BuildSteps[step] = "rest"
    /\ (Built /\ UNCHANGED <<con, open, relay>>) \/ BuildFailed

Build ==
    /\ stage = "build"
    /\ \/ \E s \in {"telemetry", "postgres", "redis"} : BuildStore(s)
       \/ BuildSigner \/ InitGrpcConns \/ StartRelay \/ RegisterREST
    /\ UNCHANGED <<cancelled, forced, probe, req>>

-----------------------------------------------------------------------------
(* server.Run and Close.                                                   *)

InFlight == {r \in Requests : req[r].at \notin {"none", "answered", "cut"}}

\* A signal, or a listener that fails.
Stop ==
    /\ stage = "serving"
    /\ stage' = "draining"
    /\ UNCHANGED <<config, step, con, open, cancelled, forced, relay, probe, req>>

Drained ==
    /\ stage = "draining"
    /\ stage' = "stopOps"
    /\ forced' = (InFlight # {})
    /\ UNCHANGED <<config, step, con, open, cancelled, relay, probe, req>>

Probing == probe \in {"postgres", "redis"}

\* opsServer.Shutdown: waits for a probe, and may give up waiting.
StopOps ==
    /\ stage = "stopOps"
    /\ stage' = "closing"
    /\ forced' = (forced \/ Probing)
    /\ UNCHANGED <<config, step, con, open, cancelled, relay, probe, req>>

\* pgxpool's Close waits until every connection is back.
ConnectionsBack == relay # "batch" /\ \A r \in Requests : req[r].at # "postgres"

\* What a step of Close closes.
Closes(s) == IF s = "clients" THEN {"identity", "loopback"} ELSE {s}

\* The relay's context is not cancelled.
BugClose ==
    LET s == CloseSteps[step]
    IN  /\ stage = "closing"
        /\ s = "postgres" /\ s \in con => ConnectionsBack
        /\ open' = IF s \in con THEN open \ Closes(s) ELSE open
        /\ IF step < Len(CloseSteps) THEN step' = step + 1 /\ UNCHANGED stage
           ELSE step' = 1 /\ stage' = "exited"
        /\ UNCHANGED <<config, con, cancelled, forced, relay, probe, req>>

\* The pool is closed under its users.
BugCloseNow ==
    LET s == CloseSteps[step]
    IN  /\ stage = "closing"
        /\ open' = IF s \in con THEN open \ Closes(s) ELSE open
        /\ cancelled' = (cancelled \/ (s = "relayCancel" /\ s \in con))
        /\ IF step < Len(CloseSteps) THEN step' = step + 1 /\ UNCHANGED stage
           ELSE step' = 1 /\ stage' = "exited"
        /\ UNCHANGED <<config, con, forced, relay, probe, req>>

\* Close, step by step; an error of one is collected and the next follows.
Close ==
    LET s == CloseSteps[step]
    IN  /\ stage = "closing"
        /\ s = "postgres" /\ s \in con => ConnectionsBack
        /\ open' = IF s \in con THEN open \ Closes(s) ELSE open
        /\ cancelled' = (cancelled \/ (s = "relayCancel" /\ s \in con))
        /\ IF step < Len(CloseSteps) THEN step' = step + 1 /\ UNCHANGED stage
           ELSE step' = 1 /\ stage' = "exited"
        /\ UNCHANGED <<config, con, forced, relay, probe, req>>

-----------------------------------------------------------------------------
(* The relay's goroutine.  Whatever a cancelled context interrupts, the    *)
(* deferred Rollback gives the connection back.                            *)

\* A tick: publishBatch begins a transaction, unless Begin fails.
RelayBegin ==
    /\ relay = "waiting" /\ ~cancelled /\ "postgres" \in open
    /\ relay' = "batch"
    /\ UNCHANGED <<process, probe, req>>

RelayFinish ==
    /\ relay = "batch"
    /\ relay' = "waiting"
    /\ UNCHANGED <<process, probe, req>>

RelayStop ==
    /\ relay = "waiting" /\ cancelled
    /\ relay' = "ended"
    /\ UNCHANGED <<process, probe, req>>

-----------------------------------------------------------------------------
(* /readyz, which the ops server answers once Build is done.               *)

Probe ==
    /\ stage \in {"serving", "draining"} /\ ~Probing
    /\ probe' = "postgres"
    /\ UNCHANGED <<process, relay, req>>

\* Redis is asked first.
BugReady ==
    /\ \/ probe = "postgres" /\ "redis" \in open /\ probe' = "redis"
       \/ probe = "redis" /\ "postgres" \in open /\ probe' = "ok"
       \/ Probing /\ probe' = "no"
    /\ UNCHANGED <<process, relay, req>>

\* Container.Ready: Postgres, then Redis; a ping may fail, and one of a closed
\* client does.
Ready ==
    /\ \/ probe = "postgres" /\ "postgres" \in open /\ probe' = "redis"
       \/ probe = "redis" /\ "redis" \in open /\ probe' = "ok"
       \/ Probing /\ probe' = "no"
    /\ UNCHANGED <<process, relay, req>>

-----------------------------------------------------------------------------
(* Login requests.                                                         *)

Goto(r, place) == req' = [req EXCEPT ![r].at = place]

\* What the client receives of a status: over HTTP the gateway's envelope.
Deliver(r, st) == IF req[r].transport = "http" THEN errorHandler(st) ELSE st

\* Ends the request with an error of the handler.
Refuse(r, cause) ==
    req' = [req EXCEPT ![r].at = "answered", ![r].cause = cause,
                       ![r].answer = Deliver(r, AppError(Refusal(cause)))]

\* Ends the request with a status that did not pass the AppError interceptor.
Fault(r, cause, grpcCode) ==
    req' = [req EXCEPT ![r].at = "answered", ![r].cause = cause,
                       ![r].answer = Deliver(r, Status(grpcCode, NoInfo))]

Answer(r, result, factors) ==
    req' = [req EXCEPT ![r].at = "answered", ![r].cause = result, ![r].factors = factors,
                       ![r].answer = ToProtoResponse(result, factors)]

\* A body that is no JSON document can only reach the gateway.
Accept(r) ==
    /\ stage = "serving" /\ req[r].at = "none"
    /\ \E transport \in {"http", "grpc"}, body \in {"valid", "invalid", "malformed"} :
          /\ body = "malformed" => transport = "http"
          /\ req' = [req EXCEPT ![r].transport = transport, ![r].body = body,
                                ![r].at = IF transport = "http" THEN "gateway" ELSE "handler"]
    /\ UNCHANGED <<process, relay, probe>>

\* The generated gateway: decodes the body and calls over the loopback
\* connection, which a draining server may refuse.
Gateway(r) ==
    /\ req[r].at = "gateway"
    /\ \/ req[r].body = "malformed" /\ Fault(r, "malformed", "InvalidArgument")
       \/ req[r].body # "malformed" /\ "loopback" \in open /\ Goto(r, "handler")
       \/ req[r].body # "malformed" /\ stage # "serving" /\ Fault(r, "stopped", "Unavailable")

\* Handler.Login up to the usecase: ToDTO and the validator.
Handle(r) ==
    /\ req[r].at = "handler"
    /\ IF req[r].body = "invalid" THEN Refuse(r, "invalidRequest") ELSE Goto(r, "redis")

\* The usecase's calls; Login.tla models what they change.
CheckRateLimit(r) ==
    /\ req[r].at = "redis"
    /\ \/ "redis" \in open /\ Goto(r, "identity")
       \/ "redis" \in open /\ Refuse(r, "rateLimited")
       \/ Refuse(r, "redisFailed")

ResolveIdentity(r) ==
    /\ req[r].at = "identity"
    /\ \/ "identity" \in open /\ Goto(r, "postgres")
       \/ "identity" \in open /\ \E c \in {"unknownIdentity", "inactiveIdentity"} : Refuse(r, c)
       \/ Refuse(r, "identityFailed")

Persist(r) ==
    /\ req[r].at = "postgres"
    /\ \/ \E c \in {"noCredential", "wrongPassword", "lockedForAWhile", "lockedForGood", "internal"} :
             "postgres" \in open /\ Refuse(r, c)
       \/ \E result \in Results \ {"MFA_REQUIRED"} : "postgres" \in open /\ Answer(r, result, {})
       \/ \E factors \in FactorSets :
             /\ "postgres" \in open
             /\ req' = [req EXCEPT ![r].at = "mfaStore", ![r].factors = factors]
       \/ Refuse(r, "postgresFailed")

StoreMFASession(r) ==
    /\ req[r].at = "mfaStore"
    /\ \/ "redis" \in open /\ Answer(r, "MFA_REQUIRED", req[r].factors)
       \/ Refuse(r, "redisFailed")

\* The Recovery interceptor, outside AppError, turns a panic into a status.
Panic(r) ==
    /\ req[r].at \in {"handler", "redis", "identity", "postgres", "mfaStore"}
    /\ Fault(r, "panicked", "Internal")

Request(r) ==
    /\ ~forced
    /\ \/ Gateway(r) \/ Handle(r) \/ CheckRateLimit(r) \/ ResolveIdentity(r)
       \/ Persist(r) \/ StoreMFASession(r) \/ Panic(r)
    /\ UNCHANGED <<process, relay, probe>>

\* A request that outlasts the wait for it: its calls end with its context and
\* its answer reaches nobody.
CutOff(r) ==
    /\ forced /\ r \in InFlight
    /\ Goto(r, "cut")
    /\ UNCHANGED <<process, relay, probe>>

-----------------------------------------------------------------------------

Shutdown == Drained \/ StopOps \/ Close

Exited == stage = "exited" /\ UNCHANGED vars

Next ==
    \/ Load \/ Build \/ Stop \/ Shutdown \/ Exited
    \/ RelayBegin \/ RelayFinish \/ RelayStop
    \/ Probe \/ Ready
    \/ \E r \in Requests : Accept(r) \/ Request(r) \/ CutOff(r)

Spec == Init /\ [][Next]_vars

\* serve's own steps run to their end, and so do the relay's and a request's:
\* their calls return, with an error once their context is cancelled.
FairSpec ==
    /\ Spec
    /\ WF_vars(Load) /\ WF_vars(Build) /\ WF_vars(Shutdown)
    /\ WF_vars(RelayFinish) /\ WF_vars(RelayStop)
    /\ \A r \in Requests : WF_vars(Request(r) \/ CutOff(r))

-----------------------------------------------------------------------------
(* Properties.                                                             *)

Envelope ==
    [http : {200, 429, 500, 502, 503}, code : Codes, codeClient : {"00", "01", "02", "03", "04", "07"},
     details : SUBSET {"retry_after", "locked_until"}]

NativeStatus ==
    [grpcCode : {"OK", "InvalidArgument", "Unauthenticated", "PermissionDenied",
                 "ResourceExhausted", "Unavailable", "Internal"},
     info : [domain : {"", "araquanid"}, reason : Codes \cup {""},
             metadata : SUBSET {"retry_after", "locked_until"}]]

Response == [result : Results, factors : SUBSET FactorTypes]

\* The process, its goroutines and the requests keep their types, and every
\* answer is one of the catalog's (apperror.go:53-62).
TypeOK ==
    /\ stage \in Stages /\ step \in 1..Len(BuildSteps)
    /\ con \in SUBSET Fields /\ open \in SUBSET Resources
    /\ cancelled \in BOOLEAN /\ forced \in BOOLEAN
    /\ relay \in {"absent", "waiting", "batch", "ended"}
    /\ probe \in {"no", "postgres", "redis", "ok"}
    /\ req \in [Requests ->
          [transport : {"", "http", "grpc"}, body : {"", "valid", "invalid", "malformed"},
           at : {"none", "gateway", "handler", "redis", "identity", "postgres", "mfaStore",
                 "answered", "cut"},
           cause : Causes \cup Results \cup {"", "malformed", "stopped", "panicked"},
           factors : SUBSET FactorTypes,
           answer : Envelope \cup NativeStatus \cup Response \cup {<< >>}]]

\* The keys that Build makes the policies and limits of the usecase from.
PolicyKeys ==
    {"auth.lockout.threshold", "auth.lockout.window", "auth.lockout.tier1_duration",
     "auth.lockout.tier2_duration", "auth.session.idle_timeout_web",
     "auth.session.absolute_web", "auth.session.concurrent_max",
     "auth.rate_limit.ip_max_attempts", "auth.rate_limit.ip_window",
     "auth.rate_limit.identity_max_attempts", "auth.rate_limit.identity_window"}

\* No process is built with a policy that lacks a value: each comes from the
\* environment or, where that is silent, from the file (config.go:185-294,
\* container.go:176-205).
PoliciesConfigured ==
    [][stage = "load" /\ stage' = "build" =>
          \A k \in PolicyKeys :
              "good" = IF config.env[k] = "unset" THEN config.file[k] ELSE config.env[k]]_vars

\* Close "is safe to call on a partially built Container" (container.go:237-239)
\* and forgets nothing: whichever step of Build failed, and however a shutdown
\* went, all that was opened has been closed when the process ends.
NothingLeaks == stage = "exited" => open = {}

\* What is in use is open: the pool for as long as a connection of it is out,
\* and every store while a request that is being waited for can still call it
\* (container.go:237-261, serve.go:56-67).
StoresOutliveTheirUsers ==
    /\ ~ConnectionsBack => "postgres" \in open
    /\ InFlight # {} /\ ~forced => {"postgres", "redis", "identity", "loopback"} \subseteq open

\* /readyz says yes only while both stores are open, even when Close overtakes
\* it: Ready asks last for what Close closes first (container.go:225-256).
ReadyIsTrue ==
    [][probe # "ok" /\ probe' = "ok" => {"postgres", "redis"} \subseteq open']_vars

\* "so the HTTP gateway can recover it losslessly" (middleware/apperror.go:27-29):
\* over either transport a client learns the outcome its request had, code,
\* details and factors; only a rate limit and system errors are HTTP errors
\* (apperror.go:77-79).
ClientLearnsOutcome ==
    \A r \in Requests :
        LET answer == req[r].answer
            e      == Refusal(req[r].cause)
        IN  req[r].at = "answered" =>
            /\ req[r].cause \in Causes /\ req[r].transport = "http" =>
                  /\ answer.code = e.code /\ answer.details = e.details
                  /\ answer.http = 200 <=> e.code \in BusinessCodes
            /\ req[r].cause \in Causes /\ req[r].transport = "grpc" =>
                  answer.info.reason = e.code /\ answer.info.metadata = e.details
            /\ req[r].cause \in Results =>
                  answer = [result |-> req[r].cause, factors |-> req[r].factors \ {"PASSKEY"}]

\* FR-LOGIN-003, as apperror.go:25-28 has it: an unknown or inactive identity, a
\* missing credential and a wrong password are answered in the same way.
RefusalsLookAlike ==
    \A r, s \in Requests :
        /\ req[r].at = "answered" /\ req[s].at = "answered"
        /\ req[r].cause \in Unverified /\ req[s].cause \in Unverified
        /\ req[r].transport = req[s].transport
        => req[r].answer = req[s].answer

\* A build that fails and a process told to stop both end, and the relay that
\* Build started ends with them: neither its batch nor a request keeps pgxpool's
\* Close waiting for ever (container.go:133-151, 240-260, publisher.go:71-76).
ShutdownCompletes ==
    stage # "serving" ~>
        \/ stage = "serving"
        \/ stage = "exited" /\ relay \in {"absent", "ended"}

=============================================================================
