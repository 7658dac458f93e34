---------------------------- MODULE LoginPromise ----------------------------
(***************************************************************************)
(* What a login promises, whatever fails on the way: its outcome is put on *)
(* record at most once, together with the session it opens; an MFA session *)
(* is only stored for an outcome on record; and a client is answered once, *)
(* in accordance with the record.  Login.tla is shown to implement it.     *)
(***************************************************************************)

CONSTANTS Requests

VARIABLES
    record,      \* by request: the outcome on record, or ""
    opened,      \* the requests that have a session
    challenged,  \* the requests whose MFA session is stored
    answer       \* by request: what the client was told, or ""

pvars == <<record, opened, challenged, answer>>

SystemErrors == {"ErrSystemUpstream", "ErrSystemDatabase", "ErrSystemInternal"}

\* What a client may be told of an outcome as it is recorded; of a challenge,
\* which has to be stored first, nothing yet.
Told(outcome) ==
    CASE outcome = "SUCCEEDED"                -> {"COMPLETED", "ErrSystemDatabase"}
      [] outcome = "PASSWORD_CHANGE_REQUIRED" -> {"PASSWORD_CHANGE_REQUIRED", "ErrSystemDatabase"}
      [] outcome = "FAILED_CREDENTIALS"       -> {"ErrLoginInvalidCredentials", "ErrSystemDatabase"}
      [] outcome = "LOCKED"                   -> {"ErrLoginAccountLocked"}
      [] outcome = "RATE_LIMITED"             -> {"ErrRateLimited"}
      [] outcome = "MFA_REQUIRED"             -> {"", "ErrSystemDatabase"}

Outcomes ==
    {"SUCCEEDED", "PASSWORD_CHANGE_REQUIRED", "FAILED_CREDENTIALS", "LOCKED", "RATE_LIMITED",
     "MFA_REQUIRED"}

PInit ==
    /\ record = [r \in Requests |-> ""] /\ answer = [r \in Requests |-> ""]
    /\ opened = {} /\ challenged = {}

\* The outcome is recorded and, all but a challenge, told.
PConclude(r, outcome, told) ==
    /\ record[r] = "" /\ answer[r] = ""
    /\ told \in Told(outcome)
    /\ record' = [record EXCEPT ![r] = outcome]
    /\ answer' = [answer EXCEPT ![r] = told]
    /\ opened' = IF outcome = "SUCCEEDED" THEN opened \cup {r} ELSE opened
    /\ UNCHANGED challenged

\* The challenge is stored, and the client told so or not.
PChallenge(r, told) ==
    /\ record[r] = "MFA_REQUIRED" /\ answer[r] = ""
    /\ told \in {"MFA_REQUIRED", "ErrSystemUpstream"}
    /\ challenged' = challenged \cup {r}
    /\ answer' = [answer EXCEPT ![r] = told]
    /\ UNCHANGED <<record, opened>>

\* A refusal whose record could not be kept, or a failure.
PRefuse(r, told) ==
    /\ answer[r] = ""
    /\ \/ told \in SystemErrors
       \/ record[r] = "" /\ told \in {"ErrLoginInvalidCredentials",
                                      "ErrLoginAccountLocked", "ErrRateLimited"}
    /\ answer' = [answer EXCEPT ![r] = told]
    /\ UNCHANGED <<record, opened, challenged>>

PNext ==
    \E r \in Requests :
        \/ \E outcome \in Outcomes : \E told \in Told(outcome) : PConclude(r, outcome, told)
        \/ \E told \in {"MFA_REQUIRED", "ErrSystemUpstream"} : PChallenge(r, told)
        \/ \E told \in SystemErrors \cup {"ErrLoginInvalidCredentials", "ErrLoginAccountLocked",
                                          "ErrRateLimited"} : PRefuse(r, told)

PSpec == PInit /\ [][PNext]_pvars

=============================================================================
