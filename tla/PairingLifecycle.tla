-------------------------- MODULE PairingLifecycle --------------------------
(* What the pairing store promises its callers, whatever files it reads and   *)
(* writes: the life of each pairing as crates/refineid-rapp-core/src/store.rs *)
(* gives it.  A record waits until the phone has stored its own, serves, and   *)
(* ends once; only an end takes a pairing a caller was given out of service.  *)
CONSTANT Pairs       \* pair identifiers

VARIABLES
  record,    \* record[i]: the state of the stored record, or none
  stored,    \* pairings whose phone has stored its own record
  given,     \* pairings given to a caller as complete
  over       \* pairings that were ended

vars == <<record, stored, given, over>>

Init ==
  /\ record = [i \in Pairs |-> "none"]
  /\ stored = {} /\ given = {} /\ over = {}

Becomes(i, state) == record' = [record EXCEPT ![i] = state]

\* A new identifier waits for its phone.
Wait(i) ==
  /\ record[i] = "none" /\ i \notin stored \cup over
  /\ Becomes(i, "unconfirmed")
  /\ UNCHANGED <<stored, given, over>>

PhoneStores(i) == stored' = stored \cup {i} /\ UNCHANGED <<record, given, over>>

\* The phone's confirmation puts the pairing in service, and the caller has it.
Serve(i) ==
  /\ record[i] = "unconfirmed" /\ i \in stored \ over
  /\ Becomes(i, "serving") /\ given' = given \cup {i}
  /\ UNCHANGED <<stored, over>>

Abandon(i) ==
  /\ record[i] = "unconfirmed"
  /\ Becomes(i, "none")
  /\ UNCHANGED <<stored, given, over>>

\* Forgotten, revoked or expired: forgotten while its phone is to be told.
End(i) ==
  /\ record[i] \in {"unconfirmed", "serving", "forgotten"}
  /\ \E state \in {"forgotten", "revoked", "none"} : Becomes(i, state)
  /\ over' = over \cup {i}
  /\ UNCHANGED <<stored, given>>

\* Records of ended pairings are removed, one or the whole set.
Clear(gone) ==
  /\ gone \subseteq over /\ \A i \in gone : record[i] # "serving"
  /\ record' = [i \in Pairs |-> IF i \in gone THEN "none" ELSE record[i]]
  /\ UNCHANGED <<stored, given, over>>

Next ==
  \/ \E i \in Pairs : Wait(i) \/ PhoneStores(i) \/ Serve(i) \/ Abandon(i) \/ End(i)
  \/ \E gone \in SUBSET Pairs : Clear(gone)

Spec == Init /\ [][Next]_vars
=============================================================================
