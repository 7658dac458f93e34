-------------------------------- MODULE Config --------------------------------
(***************************************************************************)
(* config/config.go: a YAML file overridden by environment variables, and  *)
(* the check of the required keys.  Of a key's value only its class is     *)
(* kept.  A misspelled key sets nothing: Unmarshal ignores it.             *)
(*                                                                         *)
(* Operators named Bug... are deliberate errors, as in CredentialAggregate.*)
(***************************************************************************)
EXTENDS Naturals

\* unset: absent.  zero: "", 0 or negative.  junk: text that its user rejects,
\* which for a number or a duration is Unmarshal.
Values == {"unset", "zero", "junk", "good"}

RequiredText ==
    {"app.name", "app.env", "postgres.host", "postgres.user", "postgres.database",
     "postgres.ssl_mode", "redis.addr", "log.level", "log.format",
     "auth.session.concurrent_policy", "auth.token.issuer", "auth.token.kid",
     "auth.fido2.rp_id", "auth.fido2.rp_name", "auth.fido2.rp_origin",
     "auth.fido2.user_verification", "auth.fido2.attestation", "kafka.brokers",
     "kafka.outbox_topic"}

RequiredNumbers ==
    {"ops_server.metrics_port", "ops_server.shutdown_timeout", "postgres.port",
     "postgres.max_conns", "postgres.max_conn_lifetime", "redis.default_ttl",
     "auth.lockout.threshold", "auth.lockout.window", "auth.lockout.tier1_duration",
     "auth.lockout.tier2_duration", "auth.argon2id.time_cost", "auth.argon2id.memory_kb",
     "auth.argon2id.parallelism", "auth.session.idle_timeout_web",
     "auth.session.idle_timeout_mobile", "auth.session.absolute_web",
     "auth.session.absolute_mobile", "auth.session.concurrent_max",
     "auth.session.mfa_session_window", "auth.session.forced_change_window",
     "auth.token.access_ttl", "auth.token.refresh_ttl_web", "auth.token.refresh_ttl_mobile",
     "auth.rate_limit.ip_max_attempts", "auth.rate_limit.ip_window",
     "auth.rate_limit.identity_max_attempts", "auth.rate_limit.identity_window",
     "auth.mfa.otp_ttl", "auth.mfa.otp_max_attempts", "auth.mfa.otp_resend_rate_limit",
     "auth.mfa.otp_resend_window", "auth.mfa.enrollment_window",
     "auth.mfa.recovery_code_count", "auth.device.trust_duration",
     "auth.device.fingerprint_version", "auth.fido2.challenge_ttl",
     "kafka.publish_interval", "kafka.batch_size"}

OptionalText ==
    {"app.version", "postgres.password", "redis.password", "services.identity.addr",
     "telemetry.otlp_endpoint", "auth.token.private_key_pem", "auth.token.private_key_path"}

\* telemetry.enabled is a Boolean: zero is false and good is true.
OptionalNumbers ==
    {"postgres.min_conns", "redis.db", "telemetry.enabled", "telemetry.sample_ratio",
     "auth.token.rotation_grace_window", "auth.mfa.totp_window",
     "auth.mfa.recovery_code_low_threshold"}

ConfigKeys == RequiredText \cup RequiredNumbers \cup OptionalText \cup OptionalNumbers

\* The file over the environment.
BugMerge(file, env) == [k \in ConfigKeys |-> IF file[k] # "unset" THEN file[k] ELSE env[k]]

\* "Environment variables [...] override matching values from the file".
Merge(file, env) == [k \in ConfigKeys |-> IF env[k] # "unset" THEN env[k] ELSE file[k]]

IsSet(cfg, k) == cfg[k] \in {"junk", "good"}

\* validate: the keys it reports.
Missing(cfg) ==
         {k \in RequiredText \cup RequiredNumbers : ~IsSet(cfg, k)}
    \cup {k \in {"telemetry.otlp_endpoint"} : cfg["telemetry.enabled"] = "good" /\ ~IsSet(cfg, k)}
    \cup {k \in {"auth.token.private_key_pem"} :
             ~IsSet(cfg, k) /\ ~IsSet(cfg, "auth.token.private_key_path")}

\* Load fails on a value that Unmarshal cannot convert, and on a missing key.
LoadOk(cfg) ==
    /\ \A k \in RequiredNumbers \cup OptionalNumbers : cfg[k] # "junk"
    /\ Missing(cfg) = {}

\* resolveKeyPEM and NewSigner: the PEM has precedence over the path.
SignerOk(cfg) ==
    /\ IsSet(cfg, "auth.token.kid")
    /\ IF IsSet(cfg, "auth.token.private_key_pem") THEN cfg["auth.token.private_key_pem"] = "good"
       ELSE cfg["auth.token.private_key_path"] = "good"

=============================================================================
