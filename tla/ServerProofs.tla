----------------------------- MODULE ServerProofs -----------------------------
(***************************************************************************)
(* The life of the process and the answers it gives, for any number of     *)
(* requests: what is open at each step of serve, Build and Close, who uses *)
(* it, and what a client learns.                                           *)
(***************************************************************************)
EXTENDS Server, TLAPS

\* The field of Container by which Close reaches a resource.
Owner(x) == IF x \in {"identity", "loopback"} THEN "clients" ELSE x

\* The fields set when a step of Build begins.
FieldsAt ==
    << {}, {"telemetry"}, {"telemetry", "postgres"}, {"telemetry", "postgres", "redis"},
       {"telemetry", "postgres", "redis"}, {"telemetry", "postgres", "redis", "clients"}, Fields >>

\* The fields Close has still to go through when one of its steps begins.
Left ==
    << Fields, {"clients", "writer", "redis", "postgres", "telemetry"},
       {"writer", "redis", "postgres", "telemetry"}, {"redis", "postgres", "telemetry"},
       {"postgres", "telemetry"}, {"telemetry"}, {} >>

Holds(fields) == {x \in Resources : Owner(x) \in fields}

ProcessInv ==
    /\ stage \in Stages /\ step \in 1..7 /\ con \in SUBSET Fields
    /\ stage \notin {"build", "closing"} => step = 1
    /\ stage = "load" => con = {}
    /\ stage = "build" => con = FieldsAt[step]
    /\ stage \in {"serving", "draining", "stopOps"} => con = Fields
    /\ stage \notin {"closing", "exited"} => open = Holds(con)
    /\ stage = "closing" => step \in 1..6 /\ open = Holds(con \cap Left[step])
    /\ stage = "exited" => open = {}

LEMMA OpenAll ==
    Holds(Fields) = Resources
BY DEF Holds, Resources, Owner, Fields

\* A step of Close closes what its field holds, and no more.
LEMMA CloseStep ==
    ASSUME NEW i \in 1..6, NEW C \in SUBSET Fields
    PROVE  /\ CloseSteps[i] \in C =>
                Holds(C \cap Left[i]) \ Closes(CloseSteps[i]) = Holds(C \cap Left[i + 1])
           /\ CloseSteps[i] \notin C => Holds(C \cap Left[i]) = Holds(C \cap Left[i + 1])
           /\ Holds(C \cap Left[7]) = {}
<1>1. Holds(C \cap Left[7]) = {}
  BY DEF Holds, Left
<1>2. CASE i = 1
  BY <1>1, <1>2 DEF Holds, Left, Closes, CloseSteps, Owner, Resources, Fields
<1>3. CASE i = 2
  BY <1>1, <1>3 DEF Holds, Left, Closes, CloseSteps, Owner, Resources, Fields
<1>4. CASE i = 3
  BY <1>1, <1>4 DEF Holds, Left, Closes, CloseSteps, Owner, Resources, Fields
<1>5. CASE i = 4
  BY <1>1, <1>5 DEF Holds, Left, Closes, CloseSteps, Owner, Resources, Fields
<1>6. CASE i = 5
  BY <1>1, <1>6 DEF Holds, Left, Closes, CloseSteps, Owner, Resources, Fields
<1>7. CASE i = 6
  BY <1>1, <1>7 DEF Holds, Left, Closes, CloseSteps, Owner, Resources, Fields
<1>8. i = 1 \/ i = 2 \/ i = 3 \/ i = 4 \/ i = 5 \/ i = 6
  OBVIOUS
<1> QED BY <1>2, <1>3, <1>4, <1>5, <1>6, <1>7, <1>8, Zenon

\* A step of Build adds a field and what it holds.
LEMMA BuildStep ==
    /\ FieldsAt[1] = {}
    /\ \A i \in 1..3 : FieldsAt[i + 1] = FieldsAt[i] \cup {BuildSteps[i]}
    /\ FieldsAt[5] = FieldsAt[4]
    /\ FieldsAt[6] = FieldsAt[5] \cup {"clients"}
    /\ FieldsAt[7] = FieldsAt[6] \cup {"relayCancel", "writer"} /\ FieldsAt[7] = Fields
<1>1. FieldsAt[2] = FieldsAt[1] \cup {BuildSteps[1]}
  BY DEF FieldsAt, BuildSteps
<1>2. FieldsAt[3] = FieldsAt[2] \cup {BuildSteps[2]}
  BY DEF FieldsAt, BuildSteps
<1>3. FieldsAt[4] = FieldsAt[3] \cup {BuildSteps[3]}
  BY DEF FieldsAt, BuildSteps
<1>4. \A i \in 1..3 : FieldsAt[i + 1] = FieldsAt[i] \cup {BuildSteps[i]}
  <2> TAKE i \in 1..3
  <2>1. i = 1 \/ i = 2 \/ i = 3
    OBVIOUS
  <2>2. 1 + 1 = 2 /\ 2 + 1 = 3 /\ 3 + 1 = 4
    OBVIOUS
  <2> QED BY <1>1, <1>2, <1>3, <2>1, <2>2, Zenon
<1> QED BY <1>4 DEF FieldsAt, Fields

LEMMA StepNames ==
    ASSUME NEW i \in 1..7
    PROVE  /\ BuildSteps[i] \in {"telemetry", "postgres", "redis"} => i \in 1..3
           /\ BuildSteps[i] = "signer" => i = 4
           /\ BuildSteps[i] = "clients" => i = 5
           /\ BuildSteps[i] = "relay" => i = 6
           /\ BuildSteps[i] = "rest" => i = 7
           /\ Len(BuildSteps) = 7 /\ Len(CloseSteps) = 6
           /\ i \in 1..6 => (CloseSteps[i] = "postgres" => i = 5)
<1>1. i = 1 \/ i = 2 \/ i = 3 \/ i = 4 \/ i = 5 \/ i = 6 \/ i = 7
  OBVIOUS
<1> QED BY <1>1 DEF BuildSteps, CloseSteps

LEMMA InitProcess ==
    ASSUME Init
    PROVE  ProcessInv
<1>1. stage = "load" /\ step = 1 /\ con = {} /\ open = {}
  BY DEF Init
<1>2. Holds({}) = {}
  BY DEF Holds
<1> QED BY <1>1, <1>2 DEF ProcessInv, Stages

LEMMA LoadProcess ==
    ASSUME ProcessInv, Load
    PROVE  ProcessInv'
<1>1. stage = "load" /\ stage' \in {"build", "exited"} /\ UNCHANGED <<step, con, open>>
  BY DEF Load
<1>2. step = 1 /\ con = {} /\ open = Holds({}) /\ FieldsAt[1] = {} /\ Holds({}) = {}
  BY <1>1, BuildStep DEF ProcessInv, Holds
<1> QED BY <1>1, <1>2 DEF ProcessInv, Stages

LEMMA BuildFailedProcess ==
    ASSUME ProcessInv, stage = "build", BuildFailed
    PROVE  ProcessInv'
<1>1. stage' = "closing" /\ step' = 1 /\ con' = con /\ open' = open
  BY DEF BuildFailed
<1>2. open = Holds(con) /\ con \in SUBSET Fields
  BY DEF ProcessInv
<1>3. con \cap Left[1] = con
  BY <1>2 DEF Left
<1>4. 1 \in 1..7 /\ 1 \in 1..6
  OBVIOUS
<1> QED BY <1>1, <1>2, <1>3, <1>4, Zenon DEF ProcessInv, Stages

\* A step of Build that succeeds.
LEMMA BuiltProcess ==
    ASSUME ProcessInv, stage = "build", Built,
           step \in 1..6 => con' = FieldsAt[step + 1], step = 7 => con' = Fields,
           open' = Holds(con')
    PROVE  ProcessInv'
<1>1. step \in 1..7 /\ Len(BuildSteps) = 7
  BY StepNames DEF ProcessInv
<1>2. CASE step \in 1..6
  <2>1. step' = step + 1 /\ stage' = "build"
    BY <1>1, <1>2 DEF Built
  <2>2. step' \in 1..7
    BY <1>2, <2>1
  <2>3. con' = FieldsAt[step']
    BY <1>2, <2>1
  <2>4. con' \in SUBSET Fields
    <3>1. step = 1 \/ step = 2 \/ step = 3 \/ step = 4 \/ step = 5 \/ step = 6
      BY <1>2
    <3>2. \A i \in 2..7 : FieldsAt[i] \in SUBSET Fields
      <4> TAKE i \in 2..7
      <4>1. i = 2 \/ i = 3 \/ i = 4 \/ i = 5 \/ i = 6 \/ i = 7
        OBVIOUS
      <4> QED BY <4>1 DEF FieldsAt, Fields
    <3>3. step' \in 2..7
      BY <1>2, <2>1
    <3> QED BY <2>3, <3>2, <3>3
  <2> QED BY <2>1, <2>2, <2>3, <2>4, Zenon DEF ProcessInv, Stages
<1>3. CASE step = 7
  <2>1. step' = 1 /\ stage' = "serving" /\ con' = Fields
    BY <1>1, <1>3 DEF Built
  <2>2. step' \in 1..7
    BY <2>1
  <2> QED BY <2>1, <2>2, Zenon DEF ProcessInv, Stages
<1>4. step \in 1..6 \/ step = 7
  BY <1>1
<1> QED BY <1>2, <1>3, <1>4

LEMMA BuildProcess ==
    ASSUME ProcessInv, Build
    PROVE  ProcessInv'
<1>1. stage = "build" /\ step \in 1..7 /\ con = FieldsAt[step] /\ open = Holds(con)
  BY DEF Build, ProcessInv
<1>2. CASE BuildFailed
  BY <1>1, <1>2, BuildFailedProcess
<1>3. ASSUME NEW s \in {"telemetry", "postgres", "redis"}, BuildSteps[step] = s,
             con' = con \cup {s}, open' = open \cup {s}, Built
      PROVE  ProcessInv'
  <2>1. step \in 1..3
    BY <1>1, <1>3, StepNames
  <2>2. con' = FieldsAt[step + 1]
    BY <1>1, <1>3, <2>1, BuildStep
  <2>3. open' = Holds(con')
    BY <1>1, <1>3 DEF Holds, Owner, Resources
  <2>4. step # 7
    BY <2>1
  <2> QED BY <1>1, <1>3, <2>2, <2>3, <2>4, BuiltProcess
<1>4. ASSUME BuildSteps[step] = "signer", Built, UNCHANGED <<con, open>>
      PROVE  ProcessInv'
  <2>1. step = 4
    BY <1>1, <1>4, StepNames
  <2>2. step + 1 = 5 /\ step # 7
    BY <2>1
  <2>3. con' = FieldsAt[step + 1] /\ open' = Holds(con')
    BY <1>1, <1>4, <2>1, <2>2, BuildStep
  <2> QED BY <1>1, <1>4, <2>2, <2>3, BuiltProcess
<1>5. ASSUME BuildSteps[step] = "clients", Built, con' = con \cup {"clients"},
             open' = open \cup {"identity", "loopback"}
      PROVE  ProcessInv'
  <2>1. step = 5
    BY <1>1, <1>5, StepNames
  <2>2. step + 1 = 6 /\ step # 7
    BY <2>1
  <2>3. con' = FieldsAt[step + 1]
    BY <1>1, <1>5, <2>1, <2>2, BuildStep
  <2>4. open' = Holds(con')
    BY <1>1, <1>5 DEF Holds, Owner, Resources
  <2> QED BY <1>1, <1>5, <2>2, <2>3, <2>4, BuiltProcess
<1>6. ASSUME BuildSteps[step] = "relay", Built, con' = con \cup {"relayCancel", "writer"},
             open' = open \cup {"writer"}
      PROVE  ProcessInv'
  <2>1. step = 6
    BY <1>1, <1>6, StepNames
  <2>2. step + 1 = 7 /\ step # 7
    BY <2>1
  <2>3. con' = FieldsAt[step + 1]
    BY <1>1, <1>6, <2>1, <2>2, BuildStep
  <2>4. open' = Holds(con')
    BY <1>1, <1>6 DEF Holds, Owner, Resources
  <2> QED BY <1>1, <1>6, <2>2, <2>3, <2>4, BuiltProcess
<1>7. ASSUME BuildSteps[step] = "rest", Built, UNCHANGED <<con, open>>
      PROVE  ProcessInv'
  <2>1. step = 7
    BY <1>1, <1>7, StepNames
  <2>2. step \notin 1..6
    BY <2>1
  <2>3. con' = Fields /\ open' = Holds(con')
    BY <1>1, <1>7, <2>1, BuildStep
  <2> QED BY <1>1, <1>7, <2>2, <2>3, BuiltProcess
<1> QED BY <1>2, <1>3, <1>4, <1>5, <1>6, <1>7
        DEF Build, BuildStore, BuildSigner, InitGrpcConns, StartRelay, RegisterREST

LEMMA CloseProcess ==
    ASSUME ProcessInv, Close
    PROVE  ProcessInv'
<1>1. stage = "closing" /\ step \in 1..6 /\ con \in SUBSET Fields /\ open = Holds(con \cap Left[step])
  BY DEF Close, ProcessInv
<1>2. con' = con /\ open' = Holds(con \cap Left[step + 1])
  BY <1>1, CloseStep DEF Close
<1>3. Len(CloseSteps) = 6
  BY <1>1, StepNames
<1>4. CASE step \in 1..5
  <2>1. step' = step + 1 /\ stage' = "closing"
    BY <1>1, <1>3, <1>4 DEF Close
  <2>2. step' \in 1..6 /\ step' \in 1..7
    BY <1>4, <2>1
  <2> QED BY <1>1, <1>2, <2>1, <2>2, Zenon DEF ProcessInv, Stages
<1>5. CASE step = 6
  <2>1. step' = 1 /\ stage' = "exited"
    BY <1>3, <1>5 DEF Close
  <2>2. step' \in 1..7 /\ step + 1 = 7
    BY <1>5, <2>1
  <2>3. open' = {}
    BY <1>1, <1>2, <2>2, CloseStep
  <2> QED BY <1>1, <1>2, <2>1, <2>2, <2>3, Zenon DEF ProcessInv, Stages
<1>6. step \in 1..5 \/ step = 6
  BY <1>1
<1> QED BY <1>4, <1>5, <1>6

LEMMA NextProcess ==
    ASSUME ProcessInv, [Next]_vars
    PROVE  ProcessInv'
<1>1. CASE UNCHANGED process
  BY <1>1, Zenon DEF ProcessInv, process
<1>2. CASE Load
  BY <1>2, LoadProcess
<1>3. CASE Build
  BY <1>3, BuildProcess
<1>4. CASE Stop
  BY <1>4, Zenon DEF Stop, ProcessInv, Stages
<1>5. CASE Drained
  BY <1>5, Zenon DEF Drained, ProcessInv, Stages
<1>6. CASE StopOps
  <2>1. stage = "stopOps" /\ stage' = "closing" /\ step' = step /\ con' = con /\ open' = open
    BY <1>6 DEF StopOps
  <2>2. step = 1 /\ con = Fields /\ open = Holds(con) /\ step \in 1..7
    BY <2>1, Zenon DEF ProcessInv
  <2>3. con \cap Left[1] = con
    BY <2>2 DEF Left
  <2>4. 1 \in 1..6
    OBVIOUS
  <2> QED BY <2>1, <2>2, <2>3, <2>4, Zenon DEF ProcessInv, Stages
<1>7. CASE Close
  BY <1>7, CloseProcess
<1>8. CASE RelayBegin \/ RelayFinish \/ RelayStop \/ Probe \/ Ready
  BY <1>1, <1>8 DEF RelayBegin, RelayFinish, RelayStop, Probe, Ready
<1>9. ASSUME NEW r \in Requests, Accept(r) \/ Request(r) \/ CutOff(r) PROVE ProcessInv'
  BY <1>1, <1>9 DEF Accept, Request, CutOff
<1> QED BY <1>1, <1>2, <1>3, <1>4, <1>5, <1>6, <1>7, <1>8, <1>9 DEF Next, Shutdown, Exited, vars, process

-----------------------------------------------------------------------------
(* The contract of errors.                                                 *)

GrpcCodes ==
    {"OK", "InvalidArgument", "Unauthenticated", "PermissionDenied", "ResourceExhausted",
     "Unavailable", "Internal"}

LEMMA Catalog ==
    ASSUME NEW c \in Codes
    PROVE  /\ lookup(c).grpcCode \in GrpcCodes
           /\ lookup(c).codeClient \in {"00", "01", "02", "03", "04", "07"}
           /\ HTTPStatus(c) \in {200, 429, 500, 502, 503}
           /\ c # "Success" => (HTTPStatus(c) = 200 <=> c \in BusinessCodes)
<1>1. lookup(c) = catalog[c]
  BY DEF lookup, catalog
<1>2. CASE c = "Success"
  <2>1. catalog[c] = Entry("00", 0, "OK")
    BY <1>2 DEF catalog
  <2> QED BY <1>1, <1>2, <2>1 DEF Entry, HTTPStatus, GrpcCodes, BusinessCodes
<1>3. CASE c = "ErrRequestValidation"
  <2>1. catalog[c] = Entry("01", 0, "InvalidArgument")
    BY <1>3 DEF catalog
  <2> QED BY <1>1, <1>3, <2>1 DEF Entry, HTTPStatus, GrpcCodes, BusinessCodes
<1>4. CASE c = "ErrLoginInvalidCredentials"
  <2>1. catalog[c] = Entry("02", 0, "Unauthenticated")
    BY <1>4 DEF catalog
  <2> QED BY <1>1, <1>4, <2>1 DEF Entry, HTTPStatus, GrpcCodes, BusinessCodes
<1>5. CASE c = "ErrLoginAccountLocked"
  <2>1. catalog[c] = Entry("03", 0, "PermissionDenied")
    BY <1>5 DEF catalog
  <2> QED BY <1>1, <1>5, <2>1 DEF Entry, HTTPStatus, GrpcCodes, BusinessCodes
<1>6. CASE c = "ErrRateLimited"
  <2>1. catalog[c] = Entry("04", 429, "ResourceExhausted")
    BY <1>6 DEF catalog
  <2> QED BY <1>1, <1>6, <2>1 DEF Entry, HTTPStatus, GrpcCodes, BusinessCodes
<1>7. CASE c = "ErrSystemDatabase"
  <2>1. catalog[c] = Entry("07", 503, "Unavailable")
    BY <1>7 DEF catalog
  <2> QED BY <1>1, <1>7, <2>1 DEF Entry, HTTPStatus, GrpcCodes, BusinessCodes
<1>8. CASE c = "ErrSystemUpstream"
  <2>1. catalog[c] = Entry("07", 502, "Unavailable")
    BY <1>8 DEF catalog
  <2> QED BY <1>1, <1>8, <2>1 DEF Entry, HTTPStatus, GrpcCodes, BusinessCodes
<1>9. CASE c = "ErrSystemInternal"
  <2>1. catalog[c] = Entry("07", 500, "Internal")
    BY <1>9 DEF catalog
  <2> QED BY <1>1, <1>9, <2>1 DEF Entry, HTTPStatus, GrpcCodes, BusinessCodes
<1> QED BY <1>2, <1>3, <1>4, <1>5, <1>6, <1>7, <1>8, <1>9 DEF Codes, BusinessCodes, SystemCodes

Details == SUBSET {"retry_after", "locked_until"}

LEMMA Refusals ==
    ASSUME NEW c \in Causes
    PROVE  /\ Refusal(c) = Error(Refusal(c).code, Refusal(c).details)
           /\ Refusal(c).code \in Codes \ {"Success"} /\ Refusal(c).details \in Details
           /\ c \in Unverified => Refusal(c) = Error("ErrLoginInvalidCredentials", {})
<1>1. CASE c \in Unverified
  <2>1. Refusal(c) = Error("ErrLoginInvalidCredentials", {})
    BY <1>1 DEF Refusal, Unverified
  <2> QED BY <2>1 DEF Error, Codes, BusinessCodes, Details
<1>2. CASE c \notin Unverified
  <2>1. \/ c = "invalidRequest" /\ Refusal(c) = Error("ErrRequestValidation", {})
        \/ c = "rateLimited" /\ Refusal(c) = Error("ErrRateLimited", {"retry_after"})
        \/ c = "lockedForAWhile" /\ Refusal(c) = Error("ErrLoginAccountLocked", {"locked_until"})
        \/ c = "lockedForGood" /\ Refusal(c) = Error("ErrLoginAccountLocked", {})
        \/ c \in {"redisFailed", "identityFailed"} /\ Refusal(c) = Error("ErrSystemUpstream", {})
        \/ c = "postgresFailed" /\ Refusal(c) = Error("ErrSystemDatabase", {})
        \/ c = "internal" /\ Refusal(c) = Error("ErrSystemInternal", {})
    BY <1>2 DEF Refusal, RateLimited, Causes, Unverified
  <2> QED BY <1>2, <2>1 DEF Error, Codes, BusinessCodes, SystemCodes, Details
<1> QED BY <1>1, <1>2

\* What a client of a transport is told of a status.
Told(transport, st) == IF transport = "http" THEN errorHandler(st) ELSE st

Answers == Envelope \cup NativeStatus \cup Response \cup {<< >>}

\* The gateway recovers what the interceptor packed.
LEMMA Recovered ==
    ASSUME NEW c \in Causes
    PROVE  LET st == AppError(Refusal(c))
           IN  /\ errorHandler(st).code = Refusal(c).code
               /\ errorHandler(st).details = Refusal(c).details
               /\ errorHandler(st).http = 200 <=> Refusal(c).code \in BusinessCodes
               /\ st.info.reason = Refusal(c).code /\ st.info.metadata = Refusal(c).details
               /\ errorHandler(st) \in Envelope /\ st \in NativeStatus
<1> DEFINE st == AppError(Refusal(c))
<1>1. PICK code \in Codes \ {"Success"}, details \in Details : Refusal(c) = Error(code, details)
  BY Refusals
<1>2. Refusal(c).code = code /\ Refusal(c).details = details
  BY <1>1 DEF Error
<1>3. st = [grpcCode |-> lookup(code).grpcCode,
            info |-> [domain |-> "araquanid", reason |-> code, metadata |-> details]]
  BY <1>2 DEF AppError, Status
<1>4. recoverCode(st) = Error(code, details)
  BY <1>3 DEF recoverCode
<1>5. errorHandler(st) = [http |-> HTTPStatus(code), code |-> code,
                          codeClient |-> lookup(code).codeClient, details |-> details]
  BY <1>4 DEF errorHandler, Error
<1>6. errorHandler(st) \in Envelope
  BY <1>5, Catalog DEF Envelope, Details
<1>7. st \in NativeStatus
  <2>1. PICK g \in GrpcCodes : g = lookup(code).grpcCode
    BY Catalog
  <2>2. PICK i : i = [domain |-> "araquanid", reason |-> code, metadata |-> details]
    OBVIOUS
  <2>3. i \in [domain : {"", "araquanid"}, reason : Codes \cup {""},
               metadata : SUBSET {"retry_after", "locked_until"}]
    BY <2>2 DEF Details
  <2>4. st = [grpcCode |-> g, info |-> i]
    BY <1>3, <2>1, <2>2, Zenon
  <2> HIDE DEF st
  <2> QED BY <2>3, <2>4 DEF NativeStatus, GrpcCodes
<1>8. errorHandler(st).http = 200 <=> code \in BusinessCodes
  BY <1>5, Catalog
<1> QED BY <1>2, <1>3, <1>5, <1>6, <1>7, <1>8

\* A status that did not pass the interceptor.
LEMMA Unpacked ==
    ASSUME NEW g \in {"InvalidArgument", "Unavailable", "Internal"}
    PROVE  errorHandler(Status(g, NoInfo)) \in Envelope /\ Status(g, NoInfo) \in NativeStatus
<1>1. Status(g, NoInfo) \in NativeStatus
  BY DEF NativeStatus, Status, NoInfo
<1>2. recoverCode(Status(g, NoInfo)) = Error("ErrSystemInternal", {})
  BY DEF recoverCode, Status, NoInfo
<1>3. "ErrSystemInternal" \in Codes
  BY DEF Codes, SystemCodes
<1>4. errorHandler(Status(g, NoInfo)) =
         [http |-> HTTPStatus("ErrSystemInternal"), code |-> "ErrSystemInternal",
          codeClient |-> lookup("ErrSystemInternal").codeClient, details |-> {}]
  BY <1>2 DEF errorHandler, Error
<1>5. errorHandler(Status(g, NoInfo)) \in Envelope
  BY <1>3, <1>4, Catalog DEF Envelope
<1> QED BY <1>1, <1>5

-----------------------------------------------------------------------------
(* Requests.                                                               *)

Places ==
    {"none", "gateway", "handler", "redis", "identity", "postgres", "mfaStore", "answered", "cut"}

Faults == {"malformed", "stopped", "panicked"}

Records ==
    [transport : {"", "http", "grpc"}, body : {"", "valid", "invalid", "malformed"}, at : Places,
     cause : Causes \cup Results \cup {""} \cup Faults, factors : SUBSET FactorTypes, answer : Answers]

\* The answer is the one the cause calls for.
Answered(m) ==
    /\ m.transport \in {"http", "grpc"}
    /\ \/ m.cause \in Causes /\ m.answer = Told(m.transport, AppError(Refusal(m.cause)))
       \/ m.cause \in Results /\ m.answer = ToProtoResponse(m.cause, m.factors)
       \/ m.cause \in Faults

Proper(m) ==
    /\ m \in Records
    /\ m.at # "none" => m.transport \in {"http", "grpc"}
    /\ m.at = "answered" => Answered(m)

RequestInv == req \in [Requests -> Records] /\ \A r \in Requests : Proper(req[r])

\* A request's step ends it or takes it to its next call.
Waits == {"gateway", "handler", "redis", "identity", "postgres", "mfaStore"}

LEMMA MovesProper ==
    ASSUME RequestInv, NEW r \in Requests, NEW p \in Places \ {"none", "answered"},
           req[r].at # "none", req' = [req EXCEPT ![r].at = p]
    PROVE  RequestInv' /\ req'[r].at = p /\ \A x \in Requests \ {r} : req'[x] = req[x]
<1>1. req[r] \in Records /\ req[r].transport \in {"http", "grpc"}
  BY DEF RequestInv, Proper
<1>2. req' \in [Requests -> Records]
  BY <1>1 DEF RequestInv, Records
<1>3. req'[r].at = p /\ req'[r].transport = req[r].transport
  BY <1>1 DEF RequestInv, Records
<1>4. \A x \in Requests \ {r} : req'[x] = req[x]
  BY DEF RequestInv
<1>5. Proper(req[r])'
  BY <1>1, <1>2, <1>3 DEF Proper
<1> QED BY <1>2, <1>3, <1>4, <1>5 DEF RequestInv, Proper

LEMMA RefuseProper ==
    ASSUME RequestInv, NEW r \in Requests, NEW c \in Causes, req[r].at # "none", Refuse(r, c)
    PROVE  RequestInv' /\ req'[r].at = "answered" /\ \A x \in Requests \ {r} : req'[x] = req[x]
<1>1. req[r] \in Records /\ req[r].transport \in {"http", "grpc"}
  BY DEF RequestInv, Proper
<1>2. PICK a : a = Told(req[r].transport, AppError(Refusal(c)))
  OBVIOUS
<1>3. a \in Answers
  BY <1>2, Recovered DEF Told, Answers
<1>4. req' = [req EXCEPT ![r].at = "answered", ![r].cause = c, ![r].answer = a]
  BY <1>2, Zenon DEF Refuse, Deliver, Told
<1>5. req' \in [Requests -> Records]
  BY <1>1, <1>3, <1>4 DEF RequestInv, Records, Places
<1>6. /\ req'[r].at = "answered" /\ req'[r].cause = c /\ req'[r].answer = a
      /\ req'[r].transport = req[r].transport
  BY <1>1, <1>4 DEF RequestInv, Records
<1>7. \A x \in Requests \ {r} : req'[x] = req[x]
  BY <1>4 DEF RequestInv
<1>8. Answered(req'[r])
  BY <1>1, <1>2, <1>6, Zenon DEF Answered
<1> QED BY <1>1, <1>5, <1>6, <1>7, <1>8 DEF RequestInv, Proper

LEMMA FaultProper ==
    ASSUME RequestInv, NEW r \in Requests, NEW c \in Faults, req[r].at # "none",
           NEW g \in {"InvalidArgument", "Unavailable", "Internal"}, Fault(r, c, g)
    PROVE  RequestInv' /\ req'[r].at = "answered" /\ \A x \in Requests \ {r} : req'[x] = req[x]
<1>1. req[r] \in Records /\ req[r].transport \in {"http", "grpc"}
  BY DEF RequestInv, Proper
<1>2. PICK a : a = Deliver(r, Status(g, NoInfo))
  OBVIOUS
<1>3. a \in Answers
  BY <1>2, Unpacked DEF Deliver, Answers
<1>4. req' = [req EXCEPT ![r].at = "answered", ![r].cause = c, ![r].answer = a]
  BY <1>2, Zenon DEF Fault
<1>5. req' \in [Requests -> Records]
  BY <1>1, <1>3, <1>4 DEF RequestInv, Records, Places
<1>6. req'[r].at = "answered" /\ req'[r].cause = c /\ req'[r].transport = req[r].transport
  BY <1>1, <1>4 DEF RequestInv, Records
<1>7. \A x \in Requests \ {r} : req'[x] = req[x]
  BY <1>4 DEF RequestInv
<1>8. Answered(req'[r])
  BY <1>1, <1>6, Zenon DEF Answered
<1> QED BY <1>1, <1>5, <1>6, <1>7, <1>8 DEF RequestInv, Proper

LEMMA AnswerProper ==
    ASSUME RequestInv, NEW r \in Requests, NEW result \in Results, req[r].at # "none",
           NEW factors \in SUBSET FactorTypes, Answer(r, result, factors)
    PROVE  RequestInv' /\ req'[r].at = "answered" /\ \A x \in Requests \ {r} : req'[x] = req[x]
<1>1. req[r] \in Records /\ req[r].transport \in {"http", "grpc"}
  BY DEF RequestInv, Proper
<1>2. PICK a : a = ToProtoResponse(result, factors)
  OBVIOUS
<1>3. a \in Answers
  BY <1>2 DEF ToProtoResponse, factorTypes, Answers, Response
<1>4. req' = [req EXCEPT ![r].at = "answered", ![r].cause = result, ![r].factors = factors,
                         ![r].answer = a]
  BY <1>2, Zenon DEF Answer
<1>5. req' \in [Requests -> Records]
  BY <1>1, <1>3, <1>4 DEF RequestInv, Records, Places
<1>6. /\ req'[r].at = "answered" /\ req'[r].cause = result /\ req'[r].answer = a
      /\ req'[r].factors = factors /\ req'[r].transport = req[r].transport
  BY <1>1, <1>4 DEF RequestInv, Records
<1>7. \A x \in Requests \ {r} : req'[x] = req[x]
  BY <1>4 DEF RequestInv
<1>8. Answered(req'[r])
  BY <1>1, <1>2, <1>6, Zenon DEF Answered
<1> QED BY <1>1, <1>5, <1>6, <1>7, <1>8 DEF RequestInv, Proper

-----------------------------------------------------------------------------
(* Who uses what.                                                          *)

Flying(m) == m.at \notin {"none", "answered", "cut"}

UseInv ==
    /\ relay = "batch" => "postgres" \in open
    /\ \A r \in Requests : req[r].at = "postgres" => "postgres" \in open
    /\ ~forced => \A r \in Requests : Flying(req[r]) => stage \in {"serving", "draining"}
    /\ forced => stage \in {"stopOps", "closing", "exited"}
    /\ Probing => con = Fields /\ stage \notin {"load", "build"}
    /\ relay \in {"absent", "waiting", "batch", "ended"} /\ probe \in {"no", "postgres", "redis", "ok"}
    /\ forced \in BOOLEAN /\ cancelled \in BOOLEAN

Inv == ProcessInv /\ RequestInv /\ UseInv

\* While requests are waited for everything is open.
LEMMA FlyingOpen ==
    ASSUME Inv, ~forced, NEW r \in Requests, Flying(req[r])
    PROVE  open = Resources /\ stage \in {"serving", "draining"}
<1>1. stage \in {"serving", "draining"}
  BY DEF Inv, UseInv
<1>2. con = Fields /\ open = Holds(con)
  BY <1>1 DEF Inv, ProcessInv
<1> QED BY <1>1, <1>2, OpenAll

\* The steps of a request.
Steps(r) ==
    /\ RequestInv'
    /\ \A x \in Requests \ {r} : req'[x] = req[x]
    /\ ~forced /\ Flying(req[r])

LEMMA RequestSteps ==
    ASSUME RequestInv, NEW r \in Requests, Request(r)
    PROVE  Steps(r) /\ UNCHANGED <<process, relay, probe>>
<1>1. ~forced /\ UNCHANGED <<process, relay, probe>>
  BY DEF Request
<1>2. CASE Gateway(r)
  <2>1. Flying(req[r]) /\ req[r].at # "none"
    BY <1>2 DEF Gateway, Flying
  <2>2. CASE Fault(r, "malformed", "InvalidArgument")
    BY <1>1, <2>1, <2>2, FaultProper DEF Faults, Steps
  <2>3. CASE Fault(r, "stopped", "Unavailable")
    BY <1>1, <2>1, <2>3, FaultProper DEF Faults, Steps
  <2>4. CASE Goto(r, "handler")
    BY <1>1, <2>1, <2>4, MovesProper DEF Goto, Places, Steps
  <2> QED BY <1>1, <1>2, <2>2, <2>3, <2>4 DEF Gateway
<1>3. CASE Handle(r)
  <2>1. Flying(req[r]) /\ req[r].at # "none"
    BY <1>3 DEF Handle, Flying
  <2>2. CASE Refuse(r, "invalidRequest")
    BY <1>1, <2>1, <2>2, RefuseProper DEF Causes, Steps
  <2>3. CASE Goto(r, "redis")
    BY <1>1, <2>1, <2>3, MovesProper DEF Goto, Places, Steps
  <2> QED BY <1>1, <1>3, <2>2, <2>3 DEF Handle
<1>4. CASE CheckRateLimit(r)
  <2>1. Flying(req[r]) /\ req[r].at # "none"
    BY <1>4 DEF CheckRateLimit, Flying
  <2>2. CASE Refuse(r, "rateLimited") \/ Refuse(r, "redisFailed")
    BY <1>1, <2>1, <2>2, RefuseProper DEF Causes, Steps
  <2>3. CASE Goto(r, "identity")
    BY <1>1, <2>1, <2>3, MovesProper DEF Goto, Places, Steps
  <2> QED BY <1>1, <1>4, <2>2, <2>3 DEF CheckRateLimit
<1>5. CASE ResolveIdentity(r)
  <2>1. Flying(req[r]) /\ req[r].at # "none"
    BY <1>5 DEF ResolveIdentity, Flying
  <2>2. ASSUME NEW c \in {"unknownIdentity", "inactiveIdentity", "identityFailed"}, Refuse(r, c)
        PROVE  Steps(r)
    BY <1>1, <2>1, <2>2, RefuseProper DEF Causes, Unverified, Steps
  <2>3. CASE Goto(r, "postgres")
    BY <1>1, <2>1, <2>3, MovesProper DEF Goto, Places, Steps
  <2> QED BY <1>1, <1>5, <2>2, <2>3 DEF ResolveIdentity
<1>6. CASE Persist(r)
  <2>1. Flying(req[r]) /\ req[r].at # "none"
    BY <1>6 DEF Persist, Flying
  <2>2. ASSUME NEW c \in {"noCredential", "wrongPassword", "lockedForAWhile", "lockedForGood", "internal",
                          "postgresFailed"}, Refuse(r, c)
        PROVE  Steps(r)
    BY <1>1, <2>1, <2>2, RefuseProper DEF Causes, Unverified, Steps
  <2>3. ASSUME NEW result \in Results, Answer(r, result, {})
        PROVE  Steps(r)
    BY <1>1, <2>1, <2>3, AnswerProper DEF Steps
  <2>4. ASSUME NEW factors \in FactorSets,
               req' = [req EXCEPT ![r].at = "mfaStore", ![r].factors = factors]
        PROVE  Steps(r)
    <3>1. factors \in SUBSET FactorTypes
      BY ServerAssumption
    <3>2. req[r] \in Records /\ req[r].transport \in {"http", "grpc"}
      BY <2>1 DEF RequestInv, Proper
    <3>3. req' \in [Requests -> Records]
      BY <2>4, <3>1, <3>2 DEF RequestInv, Records, Places
    <3>4. req'[r].at = "mfaStore" /\ req'[r].transport = req[r].transport
      BY <2>4, <3>2 DEF RequestInv, Records
    <3>5. \A x \in Requests \ {r} : req'[x] = req[x]
      BY <2>4 DEF RequestInv
    <3> QED BY <1>1, <2>1, <3>2, <3>3, <3>4, <3>5 DEF RequestInv, Proper, Steps
  <2> QED BY <1>1, <1>6, <2>2, <2>3, <2>4 DEF Persist
<1>7. CASE StoreMFASession(r)
  <2>1. Flying(req[r]) /\ req[r].at # "none" /\ req[r].factors \in SUBSET FactorTypes
    BY <1>7 DEF StoreMFASession, Flying, RequestInv, Records
  <2>2. CASE Refuse(r, "redisFailed")
    BY <1>1, <2>1, <2>2, RefuseProper DEF Causes, Steps
  <2>3. CASE Answer(r, "MFA_REQUIRED", req[r].factors)
    BY <1>1, <2>1, <2>3, AnswerProper DEF Results, Steps
  <2> QED BY <1>1, <1>7, <2>2, <2>3 DEF StoreMFASession
<1>8. CASE Panic(r)
  <2>1. Flying(req[r]) /\ req[r].at # "none" /\ Fault(r, "panicked", "Internal")
    BY <1>8 DEF Panic, Flying
  <2> QED BY <1>1, <2>1, FaultProper DEF Faults, Steps
<1> QED BY <1>1, <1>2, <1>3, <1>4, <1>5, <1>6, <1>7, <1>8 DEF Request

LEMMA AcceptProper ==
    ASSUME RequestInv, NEW r \in Requests, Accept(r)
    PROVE  /\ RequestInv' /\ req'[r].at \in {"gateway", "handler"} /\ stage = "serving"
           /\ \A x \in Requests \ {r} : req'[x] = req[x]
           /\ UNCHANGED <<process, relay, probe>>
<1>1. stage = "serving" /\ req[r].at = "none" /\ UNCHANGED <<process, relay, probe>>
  BY DEF Accept
<1>2. PICK t \in {"http", "grpc"}, b \in {"valid", "invalid", "malformed"}, p \in {"gateway", "handler"} :
         req' = [req EXCEPT ![r].transport = t, ![r].body = b, ![r].at = p]
  BY DEF Accept
<1>3. req[r] \in Records
  BY DEF RequestInv
<1>4. req' \in [Requests -> Records]
  BY <1>2, <1>3 DEF RequestInv, Records, Places
<1>5. req'[r].at = p /\ req'[r].transport = t
  BY <1>2, <1>3 DEF RequestInv, Records
<1>6. \A x \in Requests \ {r} : req'[x] = req[x]
  BY <1>2 DEF RequestInv
<1> QED BY <1>1, <1>4, <1>5, <1>6 DEF RequestInv, Proper

LEMMA CutOffProper ==
    ASSUME RequestInv, NEW r \in Requests, CutOff(r)
    PROVE  /\ RequestInv' /\ req'[r].at = "cut" /\ forced
           /\ \A x \in Requests \ {r} : req'[x] = req[x]
           /\ UNCHANGED <<process, relay, probe>>
<1>1. forced /\ req[r].at # "none" /\ req' = [req EXCEPT ![r].at = "cut"]
      /\ UNCHANGED <<process, relay, probe>>
  BY DEF CutOff, InFlight, Goto
<1> QED BY <1>1, MovesProper DEF Places

\* Nothing is in flight, and nobody asks, before the process serves.
LEMMA Quiet ==
    ASSUME Inv, stage \in {"load", "build"}
    PROVE  ~forced /\ ~Probing /\ \A r \in Requests : ~Flying(req[r])
BY DEF Inv, UseInv

LEMMA CloseUse ==
    ASSUME Inv, Close
    PROVE  UseInv'
<1>1. /\ stage = "closing" /\ stage' \in {"closing", "exited"} /\ con' = con
      /\ UNCHANGED <<forced, relay, probe, req>>
  BY DEF Close
<1>2. cancelled' \in BOOLEAN
  BY DEF Close, Inv, UseInv
<1>3. ~ConnectionsBack /\ "postgres" \in open => "postgres" \in open'
  <2> SUFFICES ASSUME ~ConnectionsBack, "postgres" \in open PROVE "postgres" \in open'
    OBVIOUS
  <2>1. PICK s : s = CloseSteps[step]
    OBVIOUS
  <2>2. s \in con => s # "postgres"
    BY <2>1 DEF Close
  <2>3. open' = IF s \in con THEN open \ Closes(s) ELSE open
    BY <2>1 DEF Close
  <2> QED BY <2>2, <2>3 DEF Closes
<1>4. ~forced => \A r \in Requests : ~Flying(req[r])
  BY <1>1 DEF Inv, UseInv
<1> QED BY <1>1, <1>2, <1>3, <1>4 DEF Inv, UseInv, ConnectionsBack, Probing, Flying

LEMMA NextUse ==
    ASSUME Inv, Next
    PROVE  RequestInv' /\ UseInv'
<1>0. ProcessInv /\ RequestInv /\ UseInv
  BY DEF Inv
<1>1. ASSUME req' = req PROVE RequestInv'
  BY <1>0, <1>1, Zenon DEF RequestInv
<1>2. CASE Load
  <2>1. /\ stage = "load" /\ stage' \in {"build", "exited"}
        /\ UNCHANGED <<con, open, cancelled, forced, relay, probe, req>>
    BY <1>2 DEF Load
  <2> QED BY <1>0, <1>1, <2>1, Quiet DEF UseInv, Probing, Flying
<1>3. CASE Build
  <2>1. stage = "build" /\ UNCHANGED <<cancelled, forced, probe, req>>
    BY <1>3 DEF Build
  <2>2. open \subseteq open' /\ relay' \in {relay, "waiting"}
    BY <1>3 DEF Build, BuildStore, BuildSigner, InitGrpcConns, StartRelay, RegisterREST, BuildFailed
  <2> QED BY <1>0, <1>1, <2>1, <2>2, Quiet DEF UseInv, Probing, Flying
<1>4. CASE Stop
  BY <1>0, <1>1, <1>4 DEF Stop, UseInv, Probing, Flying
<1>5. CASE Drained
  <2>1. /\ stage = "draining" /\ stage' = "stopOps" /\ forced' = (InFlight # {})
        /\ UNCHANGED <<con, open, cancelled, relay, probe, req>>
    BY <1>5 DEF Drained
  <2>2. ~forced' => \A r \in Requests : ~Flying(req[r])
    BY <2>1 DEF InFlight, Flying
  <2>3. forced' \in BOOLEAN
    BY <2>1
  <2> QED BY <1>0, <1>1, <2>1, <2>2, <2>3 DEF UseInv, Probing, Flying
<1>6. CASE StopOps
  <2>1. /\ stage = "stopOps" /\ stage' = "closing" /\ forced' = (forced \/ Probing)
        /\ UNCHANGED <<con, open, cancelled, relay, probe, req>>
    BY <1>6 DEF StopOps
  <2>2. ~forced' => \A r \in Requests : ~Flying(req[r])
    BY <1>0, <2>1 DEF UseInv
  <2>3. forced' \in BOOLEAN
    BY <2>1
  <2> QED BY <1>0, <1>1, <2>1, <2>2, <2>3 DEF UseInv, Probing, Flying
<1>7. CASE Close
  BY <1>1, <1>7, CloseUse DEF Close
<1>8. CASE Exited
  BY <1>0, <1>1, <1>8, Zenon DEF Exited, vars, UseInv, Probing
<1>9. CASE RelayBegin \/ RelayFinish \/ RelayStop
  BY <1>0, <1>1, <1>9 DEF RelayBegin, RelayFinish, RelayStop, process, UseInv, Probing, Flying
<1>10. CASE Probe
  <2>1. con = Fields
    BY <1>0, <1>10 DEF Probe, ProcessInv
  <2> QED BY <1>0, <1>1, <1>10, <2>1 DEF Probe, process, UseInv, Probing, Flying
<1>11. CASE Ready
  BY <1>0, <1>1, <1>11 DEF Ready, process, UseInv, Probing, Flying
<1>12. ASSUME NEW r \in Requests, Accept(r) PROVE RequestInv' /\ UseInv'
  <2>1. /\ RequestInv' /\ req'[r].at \in {"gateway", "handler"} /\ stage = "serving"
        /\ \A x \in Requests \ {r} : req'[x] = req[x]
        /\ UNCHANGED <<process, relay, probe>>
    BY <1>0, <1>12, AcceptProper
  <2> QED BY <1>0, <2>1 DEF process, UseInv, Probing, Flying
<1>13. ASSUME NEW r \in Requests, Request(r) PROVE RequestInv' /\ UseInv'
  <2>1. Steps(r) /\ UNCHANGED <<process, relay, probe>>
    BY <1>0, <1>13, RequestSteps
  <2>2. open = Resources /\ stage \in {"serving", "draining"}
    BY <2>1, FlyingOpen DEF Steps
  <2>3. "postgres" \in open
    BY <2>2 DEF Resources
  <2> QED BY <1>0, <2>1, <2>2, <2>3 DEF Steps, process, UseInv, Probing, Flying
<1>14. ASSUME NEW r \in Requests, CutOff(r) PROVE RequestInv' /\ UseInv'
  <2>1. /\ RequestInv' /\ req'[r].at = "cut" /\ forced
        /\ \A x \in Requests \ {r} : req'[x] = req[x]
        /\ UNCHANGED <<process, relay, probe>>
    BY <1>0, <1>14, CutOffProper
  <2> QED BY <1>0, <2>1 DEF process, UseInv, Probing, Flying
<1> QED BY <1>2, <1>3, <1>4, <1>5, <1>6, <1>7, <1>8, <1>9, <1>10, <1>11, <1>12, <1>13, <1>14
        DEF Next, Shutdown

LEMMA AlwaysInv ==
    Spec => []Inv
<1>1. Init => Inv
  <2> SUFFICES ASSUME Init PROVE Inv
    OBVIOUS
  <2>1. NoRequest \in Records
    BY DEF NoRequest, Records, Places, Answers
  <2>2. req = [r \in Requests |-> NoRequest]
    BY DEF Init
  <2>3. NoRequest.at = "none"
    BY DEF NoRequest
  <2>4. RequestInv
    BY <2>1, <2>2, <2>3 DEF RequestInv, Proper
  <2>5. UseInv
    BY <2>2, <2>3 DEF Init, UseInv, Probing, Flying
  <2> QED BY <2>4, <2>5, InitProcess DEF Inv
<1>2. Inv /\ [Next]_vars => Inv'
  <2> SUFFICES ASSUME Inv, [Next]_vars PROVE Inv'
    OBVIOUS
  <2>1. ProcessInv'
    BY NextProcess DEF Inv
  <2>2. CASE Next
    BY <2>1, <2>2, NextUse DEF Inv
  <2>3. CASE UNCHANGED vars
    BY <2>1, <2>3, Zenon DEF vars, Inv, RequestInv, UseInv, Probing
  <2> QED BY <2>2, <2>3
<1> QED BY <1>1, <1>2, PTL DEF Spec

-----------------------------------------------------------------------------
(* The theorems.                                                           *)

\* Whichever step of Build failed and however the shutdown went, all that was
\* opened has been closed when the process ends (container.go:237-261).
THEOREM NothingEverLeaks ==
    Spec => []NothingLeaks
<1>1. Inv => NothingLeaks
  BY DEF Inv, ProcessInv, NothingLeaks
<1> QED BY <1>1, AlwaysInv, PTL

\* For any number of requests: the pool is open while a connection of it is
\* out, and every store while a request that is waited for may call it.
THEOREM StoresAlwaysOutlive ==
    Spec => []StoresOutliveTheirUsers
<1>1. Inv => StoresOutliveTheirUsers
  <2> SUFFICES ASSUME Inv PROVE StoresOutliveTheirUsers
    OBVIOUS
  <2>1. ~ConnectionsBack => "postgres" \in open
    BY DEF Inv, UseInv, ConnectionsBack
  <2>2. ASSUME InFlight # {}, ~forced PROVE {"postgres", "redis", "identity", "loopback"} \subseteq open
    <3>1. PICK r \in Requests : Flying(req[r])
      BY <2>2 DEF InFlight, Flying
    <3>2. open = Resources
      BY <2>2, <3>1, FlyingOpen
    <3> QED BY <3>2 DEF Resources
  <2> QED BY <2>1, <2>2 DEF StoresOutliveTheirUsers
<1> QED BY <1>1, AlwaysInv, PTL

\* /readyz says yes only while both stores are open: Postgres is asked before
\* Redis and closed after it (container.go:225-256).
THEOREM ReadyIsAlwaysTrue ==
    Spec => ReadyIsTrue
<1>1. Inv /\ [Next]_vars => [probe # "ok" /\ probe' = "ok" => {"postgres", "redis"} \subseteq open']_vars
  <2> SUFFICES ASSUME Inv, Next, probe # "ok", probe' = "ok"
               PROVE  {"postgres", "redis"} \subseteq open'
    OBVIOUS
  <2>0. RequestInv
    BY DEF Inv
  <2>1. Ready
    <3>1. ASSUME NEW r \in Requests, Accept(r) \/ Request(r) \/ CutOff(r) PROVE probe' = probe
      BY <3>1 DEF Accept, Request, CutOff
    <3>2. Load \/ Build \/ Stop \/ Shutdown \/ Exited \/ RelayBegin \/ RelayFinish \/ RelayStop
             => probe' = probe
      BY DEF Load, Build, Stop, Shutdown, Drained, StopOps, Close, Exited, vars,
             RelayBegin, RelayFinish, RelayStop
    <3>3. Probe => probe' = "postgres"
      BY DEF Probe
    <3> QED BY <3>1, <3>2, <3>3 DEF Next
  <2>2. probe = "redis" /\ "redis" \in open /\ open' = open
    BY <2>1 DEF Ready, process
  <2>3. con = Fields /\ stage \notin {"load", "build"} /\ ProcessInv
    BY <2>2 DEF Inv, UseInv, Probing
  <2>4. CASE stage \notin {"closing", "exited"}
    <3>1. open = Resources
      BY <2>3, <2>4, OpenAll DEF ProcessInv
    <3> QED BY <2>2, <3>1 DEF Resources
  <2>5. CASE stage = "closing"
    <3>1. step \in 1..6 /\ open = Holds(con \cap Left[step])
      BY <2>3, <2>5 DEF ProcessInv
    <3>2. "redis" \in Left[step]
      BY <2>2, <3>1 DEF Holds, Owner
    <3>3. step = 1 \/ step = 2 \/ step = 3 \/ step = 4 \/ step = 5 \/ step = 6
      BY <3>1
    <3>4. "postgres" \in Left[step]
      BY <3>2, <3>3 DEF Left, Fields
    <3>5. "postgres" \in open
      BY <2>3, <3>1, <3>4 DEF Holds, Owner, Fields, Resources
    <3> QED BY <2>2, <3>5
  <2>6. CASE stage = "exited"
    BY <2>2, <2>3, <2>6 DEF ProcessInv
  <2> QED BY <2>4, <2>5, <2>6
<1> QED BY <1>1, AlwaysInv, PTL DEF Spec, ReadyIsTrue

\* Over either transport, whatever happens to the process meanwhile, a client
\* learns the code, the details and the factors of its request's outcome
\* (middleware/apperror.go:27-29, gateway.go:17-71).
THEOREM ClientAlwaysLearnsOutcome ==
    Spec => []ClientLearnsOutcome
<1>1. Inv => ClientLearnsOutcome
  <2> SUFFICES ASSUME Inv, NEW r \in Requests, req[r].at = "answered"
               PROVE  LET answer == req[r].answer
                          e      == Refusal(req[r].cause)
                      IN  /\ req[r].cause \in Causes /\ req[r].transport = "http" =>
                                /\ answer.code = e.code /\ answer.details = e.details
                                /\ answer.http = 200 <=> e.code \in BusinessCodes
                          /\ req[r].cause \in Causes /\ req[r].transport = "grpc" =>
                                answer.info.reason = e.code /\ answer.info.metadata = e.details
                          /\ req[r].cause \in Results =>
                                answer = [result  |-> req[r].cause,
                                          factors |-> req[r].factors \ {"PASSKEY"}]
    BY Zenon DEF ClientLearnsOutcome
  <2>1. Answered(req[r])
    BY DEF Inv, RequestInv, Proper
  <2>2. Causes \cap Results = {} /\ Causes \cap Faults = {} /\ Results \cap Faults = {}
    BY DEF Causes, Unverified, Results, Faults
  <2>3. CASE req[r].cause \in Causes
    <3>1. req[r].answer = Told(req[r].transport, AppError(Refusal(req[r].cause)))
      BY <2>1, <2>2, <2>3 DEF Answered
    <3>2. req[r].cause \notin Results
      BY <2>2, <2>3
    <3>3. req[r].transport = "http" => req[r].answer = errorHandler(AppError(Refusal(req[r].cause)))
      BY <3>1 DEF Told
    <3>4. req[r].transport = "grpc" => req[r].answer = AppError(Refusal(req[r].cause))
      BY <3>1 DEF Told
    <3> QED BY <2>3, <3>2, <3>3, <3>4, Recovered
  <2>4. CASE req[r].cause \in Results
    <3>1. req[r].answer = ToProtoResponse(req[r].cause, req[r].factors)
      BY <2>1, <2>2, <2>4 DEF Answered
    <3>2. req[r].cause \notin Causes
      BY <2>2, <2>4
    <3> QED BY <3>1, <3>2 DEF ToProtoResponse, factorTypes
  <2> QED BY <2>3, <2>4
<1> QED BY <1>1, AlwaysInv, PTL

\* An unknown or inactive identity, a missing credential and a wrong password
\* cannot be told apart by their answers (apperror.go:25-28).
THEOREM RefusalsAlwaysLookAlike ==
    Spec => []RefusalsLookAlike
<1>1. Inv => RefusalsLookAlike
  <2> SUFFICES ASSUME Inv, NEW r \in Requests, NEW s \in Requests,
                      req[r].at = "answered", req[s].at = "answered",
                      req[r].cause \in Unverified, req[s].cause \in Unverified,
                      req[r].transport = req[s].transport
               PROVE  req[r].answer = req[s].answer
    BY DEF RefusalsLookAlike
  <2>1. Answered(req[r]) /\ Answered(req[s])
    BY DEF Inv, RequestInv, Proper
  <2>2. Unverified \subseteq Causes /\ Unverified \cap Results = {} /\ Unverified \cap Faults = {}
    BY DEF Causes, Unverified, Results, Faults
  <2>3. /\ req[r].answer = Told(req[r].transport, AppError(Refusal(req[r].cause)))
        /\ req[s].answer = Told(req[s].transport, AppError(Refusal(req[s].cause)))
    BY <2>1, <2>2 DEF Answered
  <2>4. Refusal(req[r].cause) = Refusal(req[s].cause)
    BY <2>2, Refusals
  <2> QED BY <2>3, <2>4
<1> QED BY <1>1, AlwaysInv, PTL

\* The process, its goroutines and the requests keep their types, and every
\* answer is one the catalog has (apperror.go:53-62).
THEOREM ServerTypeCorrect ==
    Spec => []TypeOK
<1>1. Inv => TypeOK
  <2> SUFFICES ASSUME Inv PROVE TypeOK
    OBVIOUS
  <2>1. stage \in Stages /\ step \in 1..7 /\ con \in SUBSET Fields /\ Len(BuildSteps) = 7
    BY StepNames DEF Inv, ProcessInv
  <2>2. open \in SUBSET Resources
    BY DEF Inv, ProcessInv, Holds
  <2>3. /\ cancelled \in BOOLEAN /\ forced \in BOOLEAN
        /\ relay \in {"absent", "waiting", "batch", "ended"}
        /\ probe \in {"no", "postgres", "redis", "ok"}
    BY DEF Inv, UseInv
  <2>4. Causes \cup Results \cup {""} \cup Faults
           = Causes \cup Results \cup {"", "malformed", "stopped", "panicked"}
    BY DEF Faults
  <2>5. req \in [Requests -> Records]
    BY DEF Inv, RequestInv
  <2>6. step \in 1..Len(BuildSteps)
    BY <2>1
  <2> QED BY <2>1, <2>2, <2>3, <2>4, <2>5, <2>6, Zenon DEF TypeOK, Records, Places, Answers
<1> QED BY <1>1, AlwaysInv, PTL

\* Whatever the file and the environment hold, Build is reached only with a
\* value for every policy and limit of the usecase (config.go:185-294).
THEOREM PoliciesAlwaysConfigured ==
    Spec => PoliciesConfigured
<1>1. [Next]_vars =>
         [stage = "load" /\ stage' = "build" =>
             \A k \in PolicyKeys :
                 "good" = IF config.env[k] = "unset" THEN config.file[k] ELSE config.env[k]]_vars
  <2> SUFFICES ASSUME Next, stage = "load", stage' = "build", NEW k \in PolicyKeys
               PROVE  "good" = IF config.env[k] = "unset" THEN config.file[k] ELSE config.env[k]
    BY Zenon
  <2>1. Load
    <3>1. ASSUME NEW r \in Requests, Accept(r) \/ Request(r) \/ CutOff(r) PROVE stage' = stage
      BY <3>1 DEF Accept, Request, CutOff, process
    <3>2. RelayBegin \/ RelayFinish \/ RelayStop \/ Probe \/ Ready \/ Exited => stage' = stage
      BY DEF RelayBegin, RelayFinish, RelayStop, Probe, Ready, process, Exited, vars
    <3>3. Build \/ Stop \/ Shutdown => stage # "load"
      BY DEF Build, Stop, Shutdown, Drained, StopOps, Close
    <3> QED BY <3>1, <3>2, <3>3 DEF Next
  <2>2. LoadOk(Merge(config.file, config.env))
    BY <2>1 DEF Load
  <2>3. k \in RequiredNumbers
    BY DEF PolicyKeys, RequiredNumbers
  <2>4. PICK cfg : cfg = Merge(config.file, config.env)
    OBVIOUS
  <2>5. cfg[k] = IF config.env[k] # "unset" THEN config.env[k] ELSE config.file[k]
    BY <2>3, <2>4 DEF Merge, ConfigKeys
  <2>6. cfg[k] # "junk" /\ Missing(cfg) = {}
    BY <2>2, <2>3, <2>4 DEF LoadOk
  <2>7. IsSet(cfg, k)
    BY <2>3, <2>6 DEF Missing
  <2>8. cfg[k] = "good"
    BY <2>6, <2>7 DEF IsSet
  <2> QED BY <2>5, <2>8
<1> QED BY <1>1, PTL DEF Spec, PoliciesConfigured

-----------------------------------------------------------------------------
(* Why the shutdown ends: serve only moves forward, and whoever still uses *)
(* the pool that Close waits for is told to stop and is not replaced.      *)

\* The relay, once started, can be cancelled, and Close cancels it first.
RelayInv ==
    /\ relay # "absent" => "relayCancel" \in con
    /\ (stage = "closing" /\ step > 1) \/ stage = "exited" => ("relayCancel" \in con => cancelled)

LEMMA BuildRelay ==
    ASSUME Inv, RelayInv, Build
    PROVE  RelayInv'
<1>1. stage = "build" /\ cancelled' = cancelled
  BY DEF Build
<1>2. con \subseteq con' /\ (relay' = relay \/ "relayCancel" \in con')
  BY DEF Build, BuildStore, BuildSigner, InitGrpcConns, StartRelay, RegisterREST, BuildFailed
<1>3. stage' \in {"build", "serving"} \/ (stage' = "closing" /\ step' = 1)
  BY <1>1 DEF Build, BuildStore, BuildSigner, InitGrpcConns, StartRelay, RegisterREST, BuildFailed,
              Built
<1> QED BY <1>2, <1>3 DEF RelayInv

LEMMA CloseRelay ==
    ASSUME Inv, RelayInv, Close
    PROVE  RelayInv'
<1>1. stage = "closing" /\ step \in 1..6 /\ UNCHANGED <<con, relay>> /\ cancelled \in BOOLEAN
  BY DEF Close, Inv, ProcessInv, UseInv
<1>2. CASE step = 1
  <2>1. CloseSteps[step] = "relayCancel"
    BY <1>2 DEF CloseSteps
  <2>2. cancelled' = (cancelled \/ "relayCancel" \in con)
    BY <2>1 DEF Close
  <2> QED BY <1>1, <2>2 DEF RelayInv
<1>3. CASE step > 1
  <2>1. cancelled => cancelled'
    BY DEF Close
  <2> QED BY <1>1, <1>3, <2>1 DEF RelayInv
<1> QED BY <1>1, <1>2, <1>3

LEMMA NextRelay ==
    ASSUME Inv, RelayInv, [Next]_vars
    PROVE  RelayInv'
<1>1. CASE UNCHANGED <<process, relay>>
  BY <1>1, Zenon DEF RelayInv, process
<1>2. CASE Load
  <2>1. con = {} /\ UNCHANGED <<con, relay>>
    BY <1>2 DEF Load, Inv, ProcessInv
  <2> QED BY <2>1 DEF RelayInv
<1>3. CASE Stop \/ Drained \/ StopOps
  <2>1. /\ step = 1 /\ UNCHANGED <<step, con, relay>>
        /\ stage' \in {"draining", "stopOps", "closing"}
    BY <1>3 DEF Stop, Drained, StopOps, Inv, ProcessInv
  <2> QED BY <2>1 DEF RelayInv
<1>4. CASE RelayBegin \/ RelayFinish \/ RelayStop
  <2>1. relay # "absent" /\ UNCHANGED process
    BY <1>4 DEF RelayBegin, RelayFinish, RelayStop
  <2> QED BY <2>1 DEF RelayInv, process
<1>5. Probe \/ Ready => UNCHANGED <<process, relay>>
  BY DEF Probe, Ready
<1>6. ASSUME NEW r \in Requests, Accept(r) \/ Request(r) \/ CutOff(r) PROVE UNCHANGED <<process, relay>>
  BY <1>6 DEF Accept, Request, CutOff
<1>7. Exited \/ UNCHANGED vars => UNCHANGED <<process, relay>>
  BY DEF Exited, vars, process
<1> QED BY <1>1, <1>2, <1>3, <1>4, <1>5, <1>6, <1>7, BuildRelay, CloseRelay DEF Next, Shutdown

LEMMA AlwaysRelay ==
    Spec => [](Inv /\ RelayInv)
<1>1. Init => RelayInv
  BY DEF Init, RelayInv
<1>2. Inv /\ RelayInv /\ [Next]_vars => RelayInv'
  BY NextRelay
<1> QED BY <1>1, <1>2, AlwaysInv, PTL DEF Spec

PoolUsers == {r \in Requests : req[r].at = "postgres"}

\* Once Close has cancelled the relay's context nobody takes a connection of
\* the pool: neither the relay, for another batch, nor a request.
PoolDrains ==
    [][(stage = "closing" /\ step > 1) \/ stage = "exited" =>
          /\ relay' = "batch" => relay = "batch"
          /\ PoolUsers' \subseteq PoolUsers]_vars

\* The wait of pgxpool's Close is for users that become fewer and fewer: the
\* relay's context is cancelled before it, and server.Run has cut off whatever
\* request outlasted the drain (container.go:240-260, publisher.go:44-76).
THEOREM PoolAlwaysDrains ==
    Spec => PoolDrains
<1>1. ASSUME Inv, RelayInv, [Next]_vars
      PROVE  [(stage = "closing" /\ step > 1) \/ stage = "exited" =>
                 /\ relay' = "batch" => relay = "batch"
                 /\ PoolUsers' \subseteq PoolUsers]_vars
  <2> SUFFICES ASSUME Next, (stage = "closing" /\ step > 1) \/ stage = "exited"
               PROVE  (relay' = "batch" => relay = "batch") /\ PoolUsers' \subseteq PoolUsers
    BY <1>1
  <2>0. stage \in {"closing", "exited"} /\ (relay # "absent" => cancelled)
    BY <1>1 DEF RelayInv
  <2>1. ASSUME UNCHANGED <<relay, req>>
        PROVE  (relay' = "batch" => relay = "batch") /\ PoolUsers' \subseteq PoolUsers
    BY <2>1 DEF PoolUsers
  <2>2. Close \/ Exited \/ Probe \/ Ready => UNCHANGED <<relay, req>>
    BY DEF Close, Exited, Probe, Ready, vars
  <2>3. ~Load /\ ~Build /\ ~Stop /\ ~Drained /\ ~StopOps /\ ~RelayBegin
    BY <2>0 DEF Load, Build, Stop, Drained, StopOps, RelayBegin
  <2>4. CASE RelayFinish \/ RelayStop
    BY <2>4 DEF RelayFinish, RelayStop, PoolUsers
  <2>5. ASSUME NEW r \in Requests, Accept(r) \/ Request(r) \/ CutOff(r)
        PROVE  (relay' = "batch" => relay = "batch") /\ PoolUsers' \subseteq PoolUsers
    <3>1. ~Accept(r)
      BY <2>0 DEF Accept
    <3>2. ~Request(r)
      <4>1. ASSUME Request(r) PROVE ~forced /\ Flying(req[r])
        BY <1>1, <4>1, RequestSteps DEF Inv, Steps
      <4> QED BY <1>1, <2>0, <4>1 DEF Inv, UseInv
    <3>3. /\ req'[r].at = "cut" /\ \A x \in Requests \ {r} : req'[x] = req[x]
          /\ UNCHANGED relay
      BY <1>1, <2>5, <3>1, <3>2, CutOffProper DEF Inv
    <3> QED BY <3>3 DEF PoolUsers
  <2> QED BY <2>1, <2>2, <2>3, <2>4, <2>5 DEF Next, Shutdown
<1> QED BY <1>1, AlwaysRelay, PTL DEF Spec, PoolDrains

\* A request still in flight when the drain is over has had its context
\* cancelled, so whoever Close waits for has been told to stop
\* (serve.go:56-67, container.go:240-260).
LateRequestsCut == stage \notin {"serving", "draining"} /\ InFlight # {} => forced

\* Close never waits for a request that nobody told to stop: one in flight
\* after the drain has had its context cancelled (serve.go:56-67).
THEOREM LateRequestsAlwaysCut ==
    Spec => []LateRequestsCut
<1>1. Inv => LateRequestsCut
  BY DEF Inv, UseInv, LateRequestsCut, InFlight, Flying
<1> QED BY <1>1, AlwaysInv, PTL

\* How far serve has got.
Position ==
    [load |-> 1, build |-> 2, serving |-> 3, draining |-> 4, stopOps |-> 5, closing |-> 6,
     exited |-> 7]

\* serve moves to a later stage, or to a later step of the same one.
ServeMovesForward ==
    [][Position[stage'] > Position[stage] \/ (stage' = stage /\ step' >= step)]_vars

\* serve, Build and Close go through their steps once and in order, whichever
\* of them fails: none is repeated and none undone (serve.go:35-67,
\* container.go:64-261).
THEOREM ServeAlwaysMovesForward ==
    Spec => ServeMovesForward
<1>1. ASSUME Inv, [Next]_vars
      PROVE  [Position[stage'] > Position[stage] \/ (stage' = stage /\ step' >= step)]_vars
  <2> SUFFICES ASSUME Next PROVE Position[stage'] > Position[stage] \/ (stage' = stage /\ step' >= step)
    BY <1>1
  <2>0. step \in 1..7 /\ step \in Nat
    BY <1>1 DEF Inv, ProcessInv
  <2>1. UNCHANGED process => stage' = stage /\ step' >= step
    BY <2>0 DEF process
  <2>2. CASE Load
    BY <2>2 DEF Load, Position
  <2>3. CASE Build
    <3>1. stage = "build" /\ (Built \/ BuildFailed)
      BY <2>3 DEF Build, BuildStore, BuildSigner, InitGrpcConns, StartRelay, RegisterREST
    <3> QED BY <2>0, <3>1 DEF Built, BuildFailed, Position
  <2>4. CASE Stop \/ Drained \/ StopOps
    BY <2>4 DEF Stop, Drained, StopOps, Position
  <2>5. CASE Close
    BY <2>0, <2>5 DEF Close, Position
  <2>6. RelayBegin \/ RelayFinish \/ RelayStop \/ Probe \/ Ready \/ Exited => UNCHANGED process
    BY DEF RelayBegin, RelayFinish, RelayStop, Probe, Ready, Exited, vars, process
  <2>7. ASSUME NEW r \in Requests, Accept(r) \/ Request(r) \/ CutOff(r) PROVE UNCHANGED process
    BY <2>7 DEF Accept, Request, CutOff
  <2> QED BY <2>1, <2>2, <2>3, <2>4, <2>5, <2>6, <2>7 DEF Next, Shutdown
<1> QED BY <1>1, AlwaysInv, PTL DEF Spec, ServeMovesForward

=============================================================================
