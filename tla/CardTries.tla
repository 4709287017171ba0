------------------------------ MODULE CardTries ------------------------------
(* What a program that presents codes promises of the counters on a card,     *)
(* whatever connections, caches and dialogs it keeps: the retry floor of      *)
(* crates/refineid-lib-core/src/pin_retry_risk.rs over the commands of        *)
(* auth.rs.  A code is presented only from three tries up; a right one fills   *)
(* its counter, a wrong one costs one try; a blocked PIN comes back only with  *)
(* the PUK, and a blocked PUK never.  What other programs do is theirs.        *)
EXTENDS RetryFloor

CONSTANT Cards

VARIABLES
  tries,   \* tries[c][x]: the tries left of credential x of card c
  others   \* how often other programs have used a card

vars == <<tries, others>>

Init == tries \in [Cards -> [FlooredCredentials -> 0..RetriesPristine]] /\ others \in Nat

AboveLastTwo(c, x) == tries[c][x] >= 3

\* A wrong code: VERIFY, CHANGE REFERENCE DATA or RESET RETRY COUNTER.
Refused(c, x) ==
  /\ AboveLastTwo(c, x)
  /\ tries' = [tries EXCEPT ![c][x] = @ - 1]
  /\ UNCHANGED others

\* A right code.
Accepted(c, x) ==
  /\ AboveLastTwo(c, x)
  /\ tries' = [tries EXCEPT ![c][x] = RetriesPristine]
  /\ UNCHANGED others

\* A right PUK sets a PIN, blocked or not.
Restored(c, slot) ==
  /\ AboveLastTwo(c, "puk")
  /\ tries' = [tries EXCEPT ![c]["puk"] = RetriesPristine, ![c][slot] = RetriesPristine]
  /\ UNCHANGED others

\* Another program leaves any counters behind.
Foreign(c) ==
  /\ others' = others + 1
  /\ \E left \in [FlooredCredentials -> 0..RetriesPristine] : tries' = [tries EXCEPT ![c] = left]

Next ==
  \E c \in Cards :
    \/ \E x \in FlooredCredentials : Refused(c, x) \/ Accepted(c, x)
    \/ \E slot \in PinSlots : Restored(c, slot)
    \/ Foreign(c)

Spec == Init /\ [][Next]_vars

=============================================================================
