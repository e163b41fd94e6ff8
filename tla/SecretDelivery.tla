--------------------------- MODULE SecretDelivery ---------------------------
(***************************************************************************)
(* The deliveries of a boot: the signed runtime environment                *)
(* (src/src/runtime_env.rs), the customer secrets (job_secrets.rs) and the *)
(* logging configuration (log_config_secret.rs).  The last two share one   *)
(* two-request protocol: find the job's grant at the secret service, fetch *)
(* the payload from the Lockbox that it names, and decrypt it through the  *)
(* bridge with the key of the tier the request named.                      *)
(*                                                                         *)
(* A name's value is told by who set it.  A secret, as announced and as    *)
(* delivered, is [id, version, target, name, own, value, job]: own, that   *)
(* it has the fixed fields of the log configuration; job, whose secret it  *)
(* really is, which the helper cannot see.                                 *)
(***************************************************************************)
EXTENDS RuntimeContact, FiniteSets, SequencesExt

CONSTANTS
  SecretIds,    \* the ids of secrets
  SignedEnvs,   \* the names a runtime-environment response may set
  Lockboxes,    \* texts of LISKOV_LOCKBOX_BOOTSTRAP and answers that name a grant
  Payloads,     \* answers of the Lockbox
  Keys          \* what deployment_encryptionKeys may return

VARIABLES
  values,      \* runtime_environment
  delivery,    \* the delivery that is being made
  asked,       \* history: the ids of the last request for customer secrets
  delivered    \* history: the customer secrets that were applied

deliveryVars == <<values, delivery, asked, delivered>>

LogName == "BLACKBOX_LOG_CONFIG"
LogId == "blackbox-log-config"
Lockbox == "LISKOV_LOCKBOX_BOOTSTRAP"
Protected == {"LISKOV_BOOTSTRAP"}         \* PROTECTED_ENV_NAMES
HelperOwned ==
  {"LISKOV_DISCOVERY_FILE", "LISKOV_PEER_PROXY", "LISKOV_PEER_DIRECTORY_FILE",
   "LISKOV_RUNTIME_INSTANCE_ID", "LISKOV_APPLICATION_READINESS"}
Repairable == {"TMPDIR", "LD_PRELOAD", "PATH", "HOME"}
Names == {LogName, Lockbox, "APP"} \cup Protected \cup HelperOwned \cup Repairable
Sources == {"none", "signed", "secret", "server"}

\* A plaintext that carries this job's binding holds this job's secrets: of
\* that the helper has only the Lockbox's word.
ASSUME DeliveryAssumption ==
  /\ LogId \in SecretIds
  /\ Lockboxes \subseteq [json : BOOLEAN, bound : BOOLEAN, ids : Seq(SecretIds)]
  /\ \A a \in Payloads :
       /\ a.ids \in Seq(SecretIds)
       /\ \A s \in {a.versions, a.secrets} : Len(s) \in Nat /\ DOMAIN s = 1..Len(s)
       /\ a.bound /\ a.intact /\ a.inner => \A i \in DOMAIN a.secrets : a.secrets[i].job = "this"

Config(bound, ids) == [json |-> TRUE, bound |-> bound, ids |-> ids]
Idle == [step |-> "begin", tier |-> "none", config |-> Config(FALSE, <<>>)]

DeliveryTypeOK ==
  /\ values \in [Names -> Sources]
  /\ delivery.step \in {"begin", "find", "find_post", "fetch", "fetch_post"}
  /\ delivery.tier \in {"none", "p256", "secp256k1"}

DeliveryInit ==
  /\ values = [n \in Names |-> "none"]
  /\ delivery = Idle /\ asked = {} /\ delivered = {}
-----------------------------------------------------------------------------
(* runtime_env.rs: a response that sets a protected name is refused.       *)
LoadValues(names) ==
  /\ LoadEnvironment
  /\ response.env \/ names = {}
  /\ names \cap Protected = {}
  /\ values' = [n \in Names |-> IF n \in names THEN "signed" ELSE "none"]
  /\ UNCHANGED <<delivery, asked, delivered>>
-----------------------------------------------------------------------------
(* log_config_secret.rs: the request.                                      *)
Making == pc \in {"secrets", "logging"}

\* select_encryption_key: a key that is exposed and malformed is an error,
\* never a reason to fall through.
SelectKey(keys) ==
  CASE keys["p256"] = "valid" -> "p256"
    [] keys["p256"] = "malformed" -> "error"
    [] keys["p256"] = "absent" /\ keys["secp256k1"] = "valid" -> "secp256k1"
    [] keys["p256"] = "absent" /\ keys["secp256k1"] = "malformed" -> "error"
    [] OTHER -> "none"

\* encryption_public_key reads again after it primed the second tier.
EncryptionKey(keys, primed) ==
  IF SelectKey(keys) # "none" THEN SelectKey(keys) ELSE SelectKey(primed)

\* The key is looked up and the request signed, for either request.
SignDelivery(keys, primed) ==
  /\ Making /\ delivery.step \in {"find", "fetch"}
  /\ delivery.step = "fetch" => delivery.config.bound
  /\ EncryptionKey(keys, primed) \in {"p256", "secp256k1"}
  /\ delivery' = [delivery EXCEPT !.step = IF @ = "find" THEN "find_post" ELSE "fetch_post",
                                  !.tier = EncryptionKey(keys, primed)]
  /\ asked' = IF pc = "secrets" /\ delivery.step = "fetch"
              THEN ToSet(delivery.config.ids) ELSE asked
  /\ UNCHANGED <<vars, values, delivered>>

\* What is asked of the Lockbox: all but the log configuration (the ids of a
\* discovery are distinct), or only it.
Wanted(ids) ==
  IF pc = "secrets" THEN RemoveFirst(ids, LogId)
  ELSE IF LogId \in ToSet(ids) THEN <<LogId>> ELSE <<>>

\* A text of LISKOV_LOCKBOX_BOOTSTRAP, or the one the discovery returned.
Bootstrapped(config) ==
  /\ config.json /\ Wanted(config.ids) # <<>>
  /\ delivery' = [step |-> "fetch", tier |-> "none",
                  config |-> [config EXCEPT !.ids = Wanted(@)]]
  /\ UNCHANGED <<vars, values, asked, delivered>>

\* Nothing is wanted: customer secrets that are required are then missing.
NothingWanted(config) ==
  /\ config.json /\ Wanted(config.ids) = <<>>
  /\ \/ pc = "logging" /\ HydrateLogging(FALSE)
     \/ /\ pc = "secrets"
        /\ IF response.secrets = "required" THEN SecretsFail ELSE HydrateSecrets
  /\ delivery' = Idle
  /\ UNCHANGED <<values, asked, delivered>>

BeginSecrets ==
  /\ pc = "secrets" /\ delivery.step = "begin" /\ response.secrets # "none"
  /\ delivery' = [delivery EXCEPT !.step = "find"]
  /\ UNCHANGED <<vars, values, asked, delivered>>

\* hydrate_blackbox_log_config: an ambient bootstrap, signed or inherited,
\* replaces the discovery.
BeginLogging(ambient) ==
  /\ pc = "logging" /\ delivery.step = "begin"
  /\ response.logging /\ values[LogName] = "none"
  /\ \/ /\ ambient = <<>> /\ values[Lockbox] = "none"
        /\ delivery' = [delivery EXCEPT !.step = "find"]
        /\ UNCHANGED <<vars, values, asked, delivered>>
     \/ /\ ambient # <<>>
        /\ Bootstrapped(ambient[1]) \/ NothingWanted(ambient[1])

NoSecrets ==
  /\ response.secrets = "none" /\ HydrateSecrets
  /\ UNCHANGED deliveryVars

NoLogging ==
  /\ delivery.step = "begin" /\ ~(response.logging /\ values[LogName] = "none")
  /\ HydrateLogging(FALSE)
  /\ UNCHANGED deliveryVars

\* discover_lockbox_bootstrap_with: ids are distinct and the answer is for
\* this job.
Found(answer) ==
  /\ Making /\ delivery.step = "find_post"
  /\ answer.json /\ answer.bound /\ IsInjective(answer.ids)
  /\ Bootstrapped(answer) \/ NothingWanted(answer)
-----------------------------------------------------------------------------
(* The payload. *)
Destination(s) == <<s.target, s.name>>
Metadata(s) == [id |-> s.id, version |-> s.version, target |-> s.target, name |-> s.name, own |-> s.own]
\* metadata: the text limits, and a known target.
WellFormed(s) == s.version # "" /\ s.name # "" /\ s.target \in {"env", "file"}
DistinctIds(s) == \A i, j \in DOMAIN s : s[i].id = s[j].id => i = j

DistinctDestinations(s) ==
  \A i, j \in DOMAIN s : Destination(s[i]) = Destination(s[j]) => i = j

ValidVersions(versions, ids) ==
  /\ \A i \in DOMAIN versions : WellFormed(versions[i])
  /\ DistinctIds(versions) /\ DistinctDestinations(versions)
  /\ ids # <<>> /\ Len(versions) = Len(ids)
  /\ {versions[i].id : i \in DOMAIN versions} = ToSet(ids)

ValidDeliveries(secrets, versions) ==
  /\ Len(secrets) = Len(versions)
  /\ DistinctIds(secrets)
  /\ \A i \in DOMAIN secrets :
       /\ WellFormed(secrets[i])
       /\ \E j \in DOMAIN versions : Metadata(versions[j]) = Metadata(secrets[i])
       /\ secrets[i].value # "missing"
       /\ secrets[i].target = "env" => secrets[i].value # "nul"

\* Mutant: the plaintext's own binding is not compared.
DecryptsUnbound(a) ==
  /\ a.bound /\ a.ids = delivery.config.ids
  /\ ValidVersions(a.versions, a.ids)
  /\ a.tier = delivery.tier /\ a.intact
  /\ ValidDeliveries(a.secrets, a.versions)

\* decrypt_job_secret_payload: the response, its envelope, its digests and
\* associated data, the plaintext and its binding.
Decrypts(a) ==
  /\ a.bound /\ a.ids = delivery.config.ids
  /\ ValidVersions(a.versions, a.ids)
  /\ a.tier = delivery.tier /\ a.intact
  /\ a.inner
  /\ ValidDeliveries(a.secrets, a.versions)

\* validate_secret_versions and extract_blackbox_config.
IsLogConfig(secrets) ==
  /\ Len(secrets) = 1
  /\ LET s == secrets[1]
     IN s.id = LogId /\ s.own /\ Destination(s) = <<"env", LogName>> /\ s.value = "text"

\* Files are installed before the environment changes.
ApplySecrets(a) ==
  /\ pc = "secrets" /\ delivery.step = "fetch_post"
  /\ Decrypts(a) /\ DistinctDestinations(a.secrets)
  /\ HydrateSecrets
  /\ delivered' = ToSet(a.secrets)
  /\ values' = [n \in Names |->
       IF \E s \in ToSet(a.secrets) : Destination(s) = <<"env", n>> THEN "secret" ELSE values[n]]
  /\ delivery' = Idle
  /\ UNCHANGED asked

ApplyLogConfig(a) ==
  /\ pc = "logging" /\ delivery.step = "fetch_post"
  /\ Decrypts(a) /\ IsLogConfig(a.secrets)
  /\ HydrateLogging(TRUE)
  /\ values' = [values EXCEPT ![LogName] = "server"]
  /\ delivery' = Idle
  /\ UNCHANGED <<asked, delivered>>

\* A clock, bridge or HTTP call fails, an answer does not hold, a file
\* cannot be installed.
DeliveryFails ==
  /\ \/ SecretsFail
     \/ /\ pc = "logging" /\ (delivery.step = "begin" => response.logging /\ values[LogName] = "none")
        /\ HydrateLogging(FALSE)
  /\ delivery' = Idle
  /\ UNCHANGED <<values, asked, delivered>>

Deliver ==
  \/ BeginSecrets \/ NoSecrets \/ NoLogging \/ DeliveryFails
  \/ pc = "env" /\ \E names \in SignedEnvs : LoadValues(names)
  \/ pc = "logging" /\ BeginLogging(<<>>)
  \/ pc = "logging" /\ \E config \in Lockboxes : BeginLogging(<<config>>)
  \/ /\ Making
     /\ \/ \E keys, primed \in Keys : SignDelivery(keys, primed)
        \/ \E config \in Lockboxes : Found(config)
        \/ \E a \in Payloads : ApplySecrets(a) \/ ApplyLogConfig(a)
-----------------------------------------------------------------------------
(* A delivery of customer secrets is whole and this job's: exactly the ids *)
(* that were asked for, each once and at a destination of its own, never   *)
(* the log configuration, nothing of another job whatever a response       *)
(* claims, and the environment changes exactly where it says so or not at  *)
(* all (src/src/job_secrets.rs, log_config_secret.rs).                     *)
DeliveryExact ==
  /\ \A s, t \in delivered : s # t => s.id # t.id /\ Destination(s) # Destination(t)
  /\ \A s \in delivered : s.job = "this" /\ s.id # LogId
  /\ delivered # {} => {s.id : s \in delivered} = asked
  /\ {n \in Names : values[n] = "secret"} = {n \in Names : \E s \in delivered : Destination(s) = <<"env", n>>}
  /\ values[LogName] = "server" => response.logging
=============================================================================
