----------------------------- MODULE RetryFloor -----------------------------
(* The retry floor of crates/refineid-lib-core/src/pin_retry_risk.rs: which   *)
(* counter a command that presents PIN 1, PIN 2 or the PUK may be sent at.    *)
(* It judges a status, which is what the card's side-effect-free probe        *)
(* answered: a risk state for a counter it gave, verified, or unread.         *)
EXTENDS Naturals

PinSlots == {"pin1", "pin2"}

FlooredCredentials == PinSlots \cup {"puk"}

\* The tries a FINEID credential starts with.
RetriesPristine == 5

\* PinRetryRisk::from_retries, with a blocked credential at no tries left.
Risk(retries) ==
  CASE retries = 5 -> "normal"
    [] retries = 4 -> "disturbance"
    [] retries = 3 -> "incident"
    [] retries = 2 -> "critical"
    [] retries = 1 -> "lockdown"
    [] retries = 0 -> "fallen"

Risks == {"normal", "disturbance", "incident", "critical", "lockdown", "fallen"}

\* PinStatus and PukStatus.  unread: no count, a count above five, or a status
\* word that says nothing of the counter.
Statuses == Risks \cup {"verified", "unread"}

AboveFloor == {"normal", "disturbance", "incident"}

SpendsALastTry == {"critical", "lockdown"}

\* Mutant: the floor lets the next-to-last try through.
FloorOneLower(credential, status) ==
  \/ status \in AboveFloor \cup {"critical"}
  \/ status = "verified" /\ credential \in PinSlots
  \/ status = "fallen" /\ credential = "puk"

\* check_retry_floor, and check_puk_retry_floor for the PUK.
ServedByFloor(credential, status) ==
  \/ status \in AboveFloor
  \/ status = "verified" /\ credential \in PinSlots
  \/ status = "fallen" /\ credential = "puk"

\* check_activation_last_tries: the preset activation PIN is the PIN's current
\* value, so it is held to the last two tries only.
ServedToActivate(status) == status \notin SpendsALastTry \cup {"unread"}

\* pin1_status_permits_reusable_cache.
PermitsReusableCache(status) == status = "normal"

=============================================================================
