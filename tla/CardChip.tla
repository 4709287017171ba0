------------------------------ MODULE CardChip ------------------------------
(* A FINEID card as the commands of crates/refineid-lib-core/src/auth.rs meet *)
(* it: the counter of each credential, the PINs that still hold what the      *)
(* issuer put there, and what is verified while the card is powered.  The     *)
(* code of a credential is abstracted to whether the one presented is right.  *)
EXTENDS RetryFloor

\* numbering: PinReferenceScheme, the card's credential references;
\* scheme: ActivationScheme, whether its activation code is the PUK or the
\* preset value of each PIN; flagged: the PINs whose container carries the
\* changed flag; silent: the credentials whose counter no probe reports;
\* keeps: what SELECT leaves verified.
Profiles == [numbering : {"citizen", "organizational"}, scheme : {"code_is_puk", "preset"},
             flagged : SUBSET PinSlots, silent : SUBSET FlooredCredentials,
             keeps : SUBSET FlooredCredentials]

\* fresh: the PINs the holder has not set.
Chips == [profile : Profiles, tries : [FlooredCredentials -> 0..RetriesPristine],
          fresh : SUBSET PinSlots, verified : SUBSET FlooredCredentials]

\* ActivationScheme::for_card: an organizational card's code is its PUK.
SchemeFollowsNumbering(profile) ==
  profile.numbering = "organizational" => profile.scheme = "code_is_puk"

\* What is verified has every try: a right code fills the counter, and a wrong
\* one ends what was verified.
VerifiedIsFull(chip) == \A k \in chip.verified : chip.tries[k] = RetriesPristine

\* SELECT of the PKCS #15 application.
Selected(chip) == [chip EXCEPT !.verified = @ \cap chip.profile.keeps]

\* A card out of the reader's field forgets what was verified.
Unpowered(chip) == [chip EXCEPT !.verified = {}]

\* The card compares a credential: VERIFY, the first half of CHANGE REFERENCE
\* DATA, the PUK of RESET RETRY COUNTER.
Answer(chip, credential, right) ==
  IF chip.tries[credential] = 0 THEN "locked" ELSE IF right THEN "ok" ELSE "wrong"

\* A wrong code spends a try and ends the verification; a right one restores
\* the counter.  At no tries left the card answers and spends nothing.
Compared(chip, credential, right) ==
  CASE Answer(chip, credential, right) = "ok" ->
         [chip EXCEPT !.tries[credential] = RetriesPristine]
    [] Answer(chip, credential, right) = "wrong" ->
         [chip EXCEPT !.tries[credential] = @ - 1, !.verified = @ \ {credential}]
    [] OTHER -> chip

\* verify_pin_with_scheme, and the organizational card's VERIFY of the PUK.
Verified(chip, credential, right) ==
  IF Answer(chip, credential, right) = "ok"
  THEN [Compared(chip, credential, right) EXCEPT !.verified = @ \cup {credential}]
  ELSE Compared(chip, credential, right)

\* The card takes a new value for a PIN: its counter is full again.
PinSet(chip, slot) ==
  [chip EXCEPT !.tries[slot] = RetriesPristine, !.fresh = @ \ {slot}]

\* change_pin: the current value, then the new one.
PinChanged(chip, slot, right) ==
  IF Answer(chip, slot, right) = "ok" THEN PinSet(chip, slot) ELSE Compared(chip, slot, right)

\* Mutant: the PIN is set whatever became of the PUK.
SetAnyway(chip, slot, right) == PinSet(Compared(chip, "puk", right), slot)

\* reset_retry_counter on a citizen card: the PUK and the new value in one
\* command.
PinReset(chip, slot, right) ==
  IF Answer(chip, "puk", right) = "ok"
  THEN PinSet(Compared(chip, "puk", right), slot)
  ELSE Compared(chip, "puk", right)

\* probe_status_word and classify_pin_status_sw, which spend nothing.
PinStatus(chip, slot) ==
  IF slot \in chip.profile.silent THEN "unread"
  ELSE IF slot \in chip.verified THEN "verified" ELSE Risk(chip.tries[slot])

\* puk_status_with_scheme: a citizen card reports the counter in the PUK's
\* container; an organizational one answers the empty VERIFY, and a verified
\* PUK answers success, which classify_puk_status_sw reads as no counter.
PukStatus(chip) ==
  IF \/ "puk" \in chip.profile.silent
     \/ chip.profile.numbering = "organizational" /\ "puk" \in chip.verified
  THEN "unread" ELSE Risk(chip.tries["puk"])

\* pin_changed_flag_with_scheme and PinActivation::judge: the flag decides, and
\* a card without one is judged by its scheme and counter.
AwaitsActivation(chip, slot) ==
  IF slot \in chip.profile.flagged
  THEN slot \in chip.fresh
  ELSE chip.profile.scheme = "code_is_puk" /\ PinStatus(chip, slot) = "fallen"

=============================================================================
