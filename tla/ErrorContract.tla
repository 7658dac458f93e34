---------------------------- MODULE ErrorContract ----------------------------
(***************************************************************************)
(* How an outcome of the usecase reaches a client: the catalog of          *)
(* internal/apperror, the AppError interceptor and the gateway's error     *)
(* handler of internal/middleware, and the mapper of the login feature.    *)
(* Codes are called by the names of their Go constants; an error's details *)
(* are the set of its keys, whose values are passed on as they are.        *)
(*                                                                         *)
(* Operators named Bug... are deliberate errors, as in CredentialAggregate.*)
(***************************************************************************)
EXTENDS Naturals

-----------------------------------------------------------------------------
(* apperror.                                                               *)

BusinessCodes == {"ErrRequestValidation", "ErrLoginInvalidCredentials", "ErrLoginAccountLocked"}
SystemCodes == {"ErrSystemDatabase", "ErrSystemUpstream", "ErrSystemInternal"}
Codes == BusinessCodes \cup SystemCodes \cup {"Success", "ErrRateLimited"}

Entry(codeClient, httpStatus, grpcCode) ==
    [codeClient |-> codeClient, httpStatus |-> httpStatus, grpcCode |-> grpcCode]

catalog ==
    [c \in Codes |->
        CASE c = "Success"                    -> Entry("00", 0, "OK")
          [] c = "ErrRequestValidation"       -> Entry("01", 0, "InvalidArgument")
          [] c = "ErrLoginInvalidCredentials" -> Entry("02", 0, "Unauthenticated")
          [] c = "ErrLoginAccountLocked"      -> Entry("03", 0, "PermissionDenied")
          [] c = "ErrRateLimited"             -> Entry("04", 429, "ResourceExhausted")
          [] c = "ErrSystemDatabase"          -> Entry("07", 503, "Unavailable")
          [] c = "ErrSystemUpstream"          -> Entry("07", 502, "Unavailable")
          [] c = "ErrSystemInternal"          -> Entry("07", 500, "Internal")]

lookup(c) == IF c \in DOMAIN catalog THEN catalog[c] ELSE Entry("07", 500, "Internal")

HTTPStatus(c) == IF lookup(c).httpStatus # 0 THEN lookup(c).httpStatus ELSE 200

Error(code, details) == [code |-> code, details |-> details]

\* RateLimited.
RateLimited == Error("ErrRateLimited", {"retry_after"})

-----------------------------------------------------------------------------
(* middleware.  A status carries at most one ErrorInfo.                    *)

NoInfo == [domain |-> "", reason |-> "", metadata |-> {}]

Status(grpcCode, info) == [grpcCode |-> grpcCode, info |-> info]

\* The code is left to the status alone.
BugAppError(e) == Status(lookup(e.code).grpcCode, NoInfo)

\* The AppError interceptor, for a handler that returned an *apperror.Error.
AppError(e) ==
    Status(lookup(e.code).grpcCode,
           [domain |-> "araquanid", reason |-> e.code, metadata |-> e.details])

recoverCode(st) ==
    IF st.info.domain = "araquanid" THEN Error(st.info.reason, st.info.metadata)
    ELSE Error("ErrSystemInternal", {})

\* The errorBody and the HTTP status errorHandler writes for a status.
errorHandler(st) ==
    LET e == recoverCode(st)
    IN  [http |-> HTTPStatus(e.code), code |-> e.code,
         codeClient |-> lookup(e.code).codeClient, details |-> e.details]

-----------------------------------------------------------------------------
(* The usecase's outcomes and the mapper.                                  *)

Results == {"COMPLETED", "MFA_REQUIRED", "PASSWORD_CHANGE_REQUIRED"}

\* Why Login ends with an error.
Unverified == {"unknownIdentity", "inactiveIdentity", "noCredential", "wrongPassword"}
Causes ==
    Unverified \cup {"invalidRequest", "rateLimited", "lockedForAWhile", "lockedForGood",
                     "redisFailed", "identityFailed", "postgresFailed", "internal"}

\* An inactive identity gets the code of its own that the catalog reserves.
BugRefusal(cause) ==
    CASE cause = "inactiveIdentity" -> Error("ERR-LOGIN-002", {})
      [] cause \in Unverified       -> Error("ErrLoginInvalidCredentials", {})
      [] OTHER                      -> Error("ErrSystemInternal", {})

\* The *apperror.Error the handler returns for each.
Refusal(cause) ==
    CASE cause = "invalidRequest"                     -> Error("ErrRequestValidation", {})
      [] cause = "rateLimited"                        -> RateLimited
      [] cause \in Unverified                         -> Error("ErrLoginInvalidCredentials", {})
      [] cause = "lockedForAWhile"                    -> Error("ErrLoginAccountLocked", {"locked_until"})
      [] cause = "lockedForGood"                      -> Error("ErrLoginAccountLocked", {})
      [] cause \in {"redisFailed", "identityFailed"}  -> Error("ErrSystemUpstream", {})
      [] cause = "postgresFailed"                     -> Error("ErrSystemDatabase", {})
      [] cause = "internal"                           -> Error("ErrSystemInternal", {})

FactorTypes == {"TOTP", "SMS_OTP", "FIDO2", "PASSKEY"}

\* factorTypes: a passkey has no equivalent on the wire.
factorTypes(factors) == factors \ {"PASSKEY"}

ToProtoResponse(result, factors) == [result |-> result, factors |-> factorTypes(factors)]

=============================================================================
