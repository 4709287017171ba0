-------------------------- MODULE CardChip_proofs --------------------------
(* Facts about a card, its credentials' counters and the retry floor, that    *)
(* the proofs of the programs that use the card cite.                         *)
EXTENDS CardChip, TLAPS

\* A chip that keeps its type and the bond between what is verified and its
\* counter.
SoundChips == {chip \in Chips : VerifiedIsFull(chip)}

-----------------------------------------------------------------------------
(* The retry floor.                                                          *)

\* Every counter has a risk state, and the floor's three are counters from
\* three up.
LEMMA RiskFacts ==
  ASSUME NEW n \in 0..RetriesPristine
  PROVE  /\ Risk(n) \in Risks
         /\ Risk(n) \in AboveFloor <=> n >= 3
         /\ Risk(n) \in SpendsALastTry <=> n \in {1, 2}
         /\ Risk(n) = "fallen" <=> n = 0
         /\ Risk(n) = "normal" <=> n = RetriesPristine
<1>1. n \in {0, 1, 2, 3, 4, 5}
  BY DEF RetriesPristine
<1> QED
  BY <1>1 DEF Risk, Risks, AboveFloor, SpendsALastTry, RetriesPristine

\* The probe of a PIN gives a status.
LEMMA PinStatusTyped ==
  ASSUME NEW chip \in SoundChips, NEW slot \in PinSlots
  PROVE  PinStatus(chip, slot) \in Statuses
<1>1. chip.tries[slot] \in 0..RetriesPristine
  BY DEF SoundChips, Chips, FlooredCredentials
<1>2. Risk(chip.tries[slot]) \in Risks
  BY <1>1, RiskFacts
<1> QED
  BY <1>2 DEF PinStatus, Statuses

\* A PIN that the floor lets through has three tries or more: a verified one,
\* whose counter the probe does not give, has them all.
LEMMA FlooredPin ==
  ASSUME NEW chip \in SoundChips, NEW slot \in PinSlots,
         ServedByFloor(slot, PinStatus(chip, slot))
  PROVE  chip.tries[slot] >= 3
<1>1. chip.tries[slot] \in 0..RetriesPristine /\ slot # "puk"
  BY DEF SoundChips, Chips, PinSlots, FlooredCredentials
<1>2. CASE PinStatus(chip, slot) = "unread"
  BY <1>2 DEF ServedByFloor, AboveFloor
<1>3. CASE slot \in chip.verified
  BY <1>3 DEF SoundChips, VerifiedIsFull, RetriesPristine
<1>4. CASE PinStatus(chip, slot) = Risk(chip.tries[slot])
  <2>1. Risk(chip.tries[slot]) # "verified"
    BY <1>1, RiskFacts DEF Risks
  <2> QED
    BY <1>1, <1>4, <2>1, RiskFacts DEF ServedByFloor
<1> QED
  BY <1>2, <1>3, <1>4 DEF PinStatus

\* A PUK that the floor lets through has three tries or more, or none: a
\* blocked one is asked, and the card answers without spending.
LEMMA FlooredPuk ==
  ASSUME NEW chip \in SoundChips, ServedByFloor("puk", PukStatus(chip))
  PROVE  chip.tries["puk"] >= 3 \/ chip.tries["puk"] = 0
<1>1. chip.tries["puk"] \in 0..RetriesPristine
  BY DEF SoundChips, Chips, FlooredCredentials
<1>2. CASE PukStatus(chip) = "unread"
  BY <1>2 DEF ServedByFloor, AboveFloor
<1>3. CASE PukStatus(chip) = Risk(chip.tries["puk"])
  BY <1>1, <1>3, RiskFacts DEF ServedByFloor, PinSlots
<1> QED
  BY <1>2, <1>3 DEF PukStatus

-----------------------------------------------------------------------------
(* What the commands do to a chip.                                           *)

\* SELECT and the loss of power keep a chip sound and its counters.
LEMMA SelectedSound ==
  ASSUME NEW chip \in SoundChips
  PROVE  /\ Selected(chip) \in SoundChips /\ Selected(chip).tries = chip.tries
         /\ Unpowered(chip) \in SoundChips /\ Unpowered(chip).tries = chip.tries
BY DEF SoundChips, Chips, VerifiedIsFull, Selected, Unpowered

\* What is no longer verified takes nothing from a chip's soundness.
LEMMA UnverifiedSound ==
  ASSUME NEW chip \in SoundChips, NEW gone
  PROVE  /\ [chip EXCEPT !.verified = @ \ gone] \in SoundChips
         /\ [chip EXCEPT !.verified = @ \ gone].tries = chip.tries
BY DEF SoundChips, Chips, VerifiedIsFull

\* What a comparison does to a chip: only the counter of the credential moves,
\* down by one on a wrong answer, to the full on a right one.
Comparison(chip, after, k, right) ==
  /\ after \in SoundChips
  /\ \A j \in FlooredCredentials \ {k} : after.tries[j] = chip.tries[j]
  /\ Answer(chip, k, right) = "wrong" => after.tries[k] = chip.tries[k] - 1
  /\ Answer(chip, k, right) = "ok" => after.tries[k] = RetriesPristine
  /\ Answer(chip, k, right) = "locked" => after.tries[k] = chip.tries[k]
  /\ Answer(chip, k, right) # "wrong" => after.tries[k] >= chip.tries[k]

\* The comparison itself.
LEMMA ComparedSound ==
  ASSUME NEW chip \in SoundChips, NEW k \in FlooredCredentials, NEW right \in BOOLEAN
  PROVE  /\ Comparison(chip, Compared(chip, k, right), k, right)
         /\ Answer(chip, k, right) = "ok" =>
              Compared(chip, k, right).tries[k] = RetriesPristine
<1> DEFINE after == Compared(chip, k, right)
<1>1. chip.tries[k] \in 0..RetriesPristine /\ RetriesPristine \in Nat /\ chip \in Chips
  BY DEF SoundChips, Chips, RetriesPristine
<1>2. CASE Answer(chip, k, right) = "ok"
  <2>1. after = [chip EXCEPT !.tries[k] = RetriesPristine]
    BY <1>2 DEF Compared
  <2> QED
    BY <1>1, <1>2, <2>1 DEF Comparison, SoundChips, Chips, VerifiedIsFull
<1>3. CASE Answer(chip, k, right) = "wrong"
  <2>1. after = [chip EXCEPT !.tries[k] = @ - 1, !.verified = @ \ {k}]
    BY <1>3 DEF Compared
  <2>2. chip.tries[k] > 0
    BY <1>1, <1>3 DEF Answer
  <2>3. after.tries = [chip.tries EXCEPT ![k] = @ - 1] /\ after.verified = chip.verified \ {k}
    BY <1>1, <2>1 DEF Chips
  <2>4. after \in Chips
    <3> DEFINE fewer == [chip.tries EXCEPT ![k] = @ - 1]
    <3>1. fewer \in [FlooredCredentials -> 0..RetriesPristine]
      BY <1>1, <2>2 DEF Chips
    <3>2. after = [chip EXCEPT !.tries = fewer, !.verified = @ \ {k}]
      BY <2>1
    <3> HIDE DEF fewer, after
    <3> QED
      BY <1>1, <3>1, <3>2 DEF Chips
  <2>5. VerifiedIsFull(after)
    BY <1>1, <2>3 DEF VerifiedIsFull, SoundChips, Chips
  <2> QED
    BY <1>1, <1>3, <2>3, <2>4, <2>5 DEF Comparison, SoundChips, Chips
<1>4. CASE Answer(chip, k, right) \notin {"ok", "wrong"}
  BY <1>1, <1>4 DEF Compared, Comparison
<1> QED
  BY <1>2, <1>3, <1>4

\* VERIFY.
LEMMA VerifiedSound ==
  ASSUME NEW chip \in SoundChips, NEW k \in FlooredCredentials, NEW right \in BOOLEAN
  PROVE  Comparison(chip, Verified(chip, k, right), k, right)
<1> DEFINE mid == Compared(chip, k, right)
<1>1. Comparison(chip, mid, k, right) /\ (Answer(chip, k, right) = "ok" => mid.tries[k] = RetriesPristine)
  BY ComparedSound
<1>2. CASE Answer(chip, k, right) = "ok"
  <2>1. Verified(chip, k, right) = [mid EXCEPT !.verified = @ \cup {k}]
    BY <1>2 DEF Verified
  <2> HIDE DEF mid
  <2> QED
    BY <1>1, <1>2, <2>1 DEF Comparison, SoundChips, Chips, VerifiedIsFull
<1>3. CASE Answer(chip, k, right) # "ok"
  BY <1>1, <1>3 DEF Verified
<1> QED
  BY <1>2, <1>3

\* A new value of a PIN fills its counter and leaves the others.
LEMMA PinSetSound ==
  ASSUME NEW chip \in SoundChips, NEW slot \in PinSlots
  PROVE  /\ PinSet(chip, slot) \in SoundChips
         /\ PinSet(chip, slot).tries[slot] = RetriesPristine
         /\ \A j \in FlooredCredentials \ {slot} : PinSet(chip, slot).tries[j] = chip.tries[j]
<1>1. RetriesPristine \in 0..RetriesPristine /\ slot \in FlooredCredentials
  BY DEF RetriesPristine, FlooredCredentials
<1> QED
  BY <1>1 DEF PinSet, SoundChips, Chips, VerifiedIsFull

\* CHANGE REFERENCE DATA presents the current value.
LEMMA PinChangedSound ==
  ASSUME NEW chip \in SoundChips, NEW slot \in PinSlots, NEW right \in BOOLEAN
  PROVE  Comparison(chip, PinChanged(chip, slot, right), slot, right)
<1>1. slot \in FlooredCredentials /\ chip.tries[slot] \in 0..RetriesPristine /\ RetriesPristine \in Nat
  BY DEF SoundChips, Chips, RetriesPristine, FlooredCredentials
<1> QED
  BY <1>1, PinSetSound, ComparedSound DEF PinChanged, Comparison

\* RESET RETRY COUNTER presents the PUK, and sets a PIN when it is right.
LEMMA PinResetSound ==
  ASSUME NEW chip \in SoundChips, NEW slot \in PinSlots, NEW right \in BOOLEAN
  PROVE  /\ PinReset(chip, slot, right) \in SoundChips
         /\ \A j \in PinSlots : PinReset(chip, slot, right).tries[j] >= chip.tries[j]
         /\ Answer(chip, "puk", right) = "wrong" =>
              PinReset(chip, slot, right).tries["puk"] = chip.tries["puk"] - 1
         /\ Answer(chip, "puk", right) # "wrong" =>
              PinReset(chip, slot, right).tries["puk"] >= chip.tries["puk"]
<1> DEFINE mid == Compared(chip, "puk", right)
<1>1. /\ PinSlots \subseteq FlooredCredentials /\ "puk" \in FlooredCredentials /\ "puk" \notin PinSlots
      /\ \A j \in FlooredCredentials : chip.tries[j] \in 0..RetriesPristine
      /\ RetriesPristine \in Nat
  BY DEF SoundChips, Chips, RetriesPristine, FlooredCredentials, PinSlots
<1>2. Comparison(chip, mid, "puk", right)
  BY <1>1, ComparedSound
<1>3. \A j \in PinSlots : mid.tries[j] = chip.tries[j]
  BY <1>1, <1>2 DEF Comparison
<1>4. CASE Answer(chip, "puk", right) = "ok"
  <2>1. PinReset(chip, slot, right) = PinSet(mid, slot) /\ mid \in SoundChips
    BY <1>2, <1>4 DEF PinReset, Comparison
  <2> HIDE DEF mid
  <2> QED
    BY <1>1, <1>2, <1>3, <1>4, <2>1, PinSetSound DEF Comparison
<1>5. CASE Answer(chip, "puk", right) # "ok"
  <2>1. PinReset(chip, slot, right) = mid
    BY <1>5 DEF PinReset
  <2> HIDE DEF mid
  <2> QED
    BY <1>1, <1>2, <1>3, <2>1 DEF Comparison
<1> QED
  BY <1>4, <1>5

-----------------------------------------------------------------------------
(* The counters as CardTries promises them.                                  *)

\* What one command of a program that keeps the floor may do to a chip's
\* counters.
Promised(chip, after) ==
  \/ after.tries = chip.tries
  \/ \E k \in FlooredCredentials :
       /\ chip.tries[k] >= 3
       /\ \/ after.tries = [chip.tries EXCEPT ![k] = @ - 1]
          \/ after.tries = [chip.tries EXCEPT ![k] = RetriesPristine]
  \/ \E slot \in PinSlots :
       /\ chip.tries["puk"] >= 3
       /\ after.tries = [chip.tries EXCEPT !["puk"] = RetriesPristine, ![slot] = RetriesPristine]

\* A comparison keeps the promise from three tries up, and of a blocked
\* credential, which the card does not compare.
LEMMA ComparisonPromised ==
  ASSUME NEW chip \in SoundChips, NEW after, NEW k \in FlooredCredentials, NEW right \in BOOLEAN,
         Comparison(chip, after, k, right), chip.tries[k] >= 3 \/ chip.tries[k] = 0
  PROVE  Promised(chip, after)
<1>1. /\ chip.tries \in [FlooredCredentials -> 0..RetriesPristine]
      /\ after.tries \in [FlooredCredentials -> 0..RetriesPristine]
      /\ \A j \in FlooredCredentials \ {k} : after.tries[j] = chip.tries[j]
  BY DEF Comparison, SoundChips, Chips
<1>2. CASE Answer(chip, k, right) = "wrong"
  <2>1. chip.tries[k] >= 3
    BY <1>2 DEF Answer
  <2>2. after.tries = [chip.tries EXCEPT ![k] = @ - 1]
    BY <1>1, <1>2 DEF Comparison
  <2> QED
    BY <2>1, <2>2 DEF Promised
<1>3. CASE Answer(chip, k, right) = "ok"
  <2>1. chip.tries[k] >= 3
    BY <1>3 DEF Answer
  <2>2. after.tries = [chip.tries EXCEPT ![k] = RetriesPristine]
    BY <1>1, <1>3 DEF Comparison
  <2> QED
    BY <2>1, <2>2 DEF Promised
<1>4. CASE Answer(chip, k, right) = "locked"
  <2>1. after.tries = chip.tries
    BY <1>1, <1>4 DEF Comparison
  <2> QED
    BY <2>1 DEF Promised
<1> QED
  BY <1>2, <1>3, <1>4 DEF Answer

\* So does a reset with the PUK, past the PUK's floor.
LEMMA PinResetPromised ==
  ASSUME NEW chip \in SoundChips, NEW slot \in PinSlots, NEW right \in BOOLEAN,
         chip.tries["puk"] >= 3 \/ chip.tries["puk"] = 0
  PROVE  Promised(chip, PinReset(chip, slot, right))
<1> DEFINE mid == Compared(chip, "puk", right)
<1>1. "puk" \in FlooredCredentials /\ slot \in FlooredCredentials \ {"puk"}
  BY DEF FlooredCredentials, PinSlots
<1>2. Comparison(chip, mid, "puk", right) /\ mid \in SoundChips
  BY <1>1, ComparedSound DEF Comparison
<1>3. CASE Answer(chip, "puk", right) = "ok"
  <2>1. PinReset(chip, slot, right) = PinSet(mid, slot) /\ chip.tries["puk"] >= 3
    BY <1>3 DEF PinReset, Answer
  <2>2. /\ chip.tries \in [FlooredCredentials -> 0..RetriesPristine]
        /\ mid.tries \in [FlooredCredentials -> 0..RetriesPristine]
        /\ mid.tries["puk"] = RetriesPristine
        /\ \A j \in FlooredCredentials \ {"puk"} : mid.tries[j] = chip.tries[j]
    BY <1>2, <1>3 DEF Comparison, SoundChips, Chips
  <2>3. PinSet(mid, slot).tries = [mid.tries EXCEPT ![slot] = RetriesPristine]
    BY <1>2 DEF PinSet, SoundChips, Chips
  <2> HIDE DEF mid
  <2>4. PinSet(mid, slot).tries = [chip.tries EXCEPT !["puk"] = RetriesPristine, ![slot] = RetriesPristine]
    BY <1>1, <2>2, <2>3
  <2> QED
    BY <2>1, <2>4 DEF Promised
<1>4. CASE Answer(chip, "puk", right) # "ok"
  <2>1. PinReset(chip, slot, right) = mid
    BY <1>4 DEF PinReset
  <2> QED
    BY <1>1, <1>2, <2>1, ComparisonPromised
<1> QED
  BY <1>3, <1>4

\* A PIN set after a verified PUK, whose counter is full.
LEMMA PinSetPromised ==
  ASSUME NEW chip \in SoundChips, NEW slot \in PinSlots, "puk" \in chip.verified
  PROVE  Promised(chip, PinSet(chip, slot))
<1>1. chip.tries["puk"] = RetriesPristine /\ RetriesPristine >= 3
  BY DEF SoundChips, VerifiedIsFull, RetriesPristine
<1>2. /\ "puk" \in FlooredCredentials /\ slot \in FlooredCredentials \ {"puk"}
      /\ chip.tries \in [FlooredCredentials -> 0..RetriesPristine]
  BY DEF FlooredCredentials, PinSlots, SoundChips, Chips
<1>3. PinSet(chip, slot).tries = [chip.tries EXCEPT ![slot] = RetriesPristine]
  BY DEF PinSet, SoundChips, Chips
<1>4. PinSet(chip, slot).tries = [chip.tries EXCEPT !["puk"] = RetriesPristine, ![slot] = RetriesPristine]
  BY <1>1, <1>2, <1>3
<1> QED
  BY <1>1, <1>4 DEF Promised

\* SELECT before or after a command does not touch the promise.
LEMMA SelectedPromised ==
  ASSUME NEW chip \in SoundChips, NEW after \in SoundChips
  PROVE  /\ Promised(Selected(chip), after) => Promised(chip, after)
         /\ Promised(chip, after) => Promised(chip, Selected(after))
         /\ Promised(chip, Selected(chip))
<1>1. Selected(chip).tries = chip.tries /\ Selected(after).tries = after.tries
  BY SelectedSound
<1> QED
  BY <1>1 DEF Promised

-----------------------------------------------------------------------------
(* PINs that are left alone.                                                 *)

\* A PIN is left alone: its counter and whether the holder has set it.
SamePin(chip, after, slot) ==
  after.tries[slot] = chip.tries[slot] /\ (slot \in after.fresh <=> slot \in chip.fresh)

\* A comparison leaves the holder's PINs as they were set.
LEMMA ComparedFresh ==
  ASSUME NEW chip \in SoundChips, NEW k \in FlooredCredentials, NEW right \in BOOLEAN
  PROVE  Compared(chip, k, right).fresh = chip.fresh /\ Verified(chip, k, right).fresh = chip.fresh
<1> DEFINE mid == Compared(chip, k, right)
<1>1. mid.fresh = chip.fresh
  BY DEF Compared, SoundChips, Chips
<1>2. mid \in Chips
  BY ComparedSound DEF Comparison, SoundChips
<1>3. Verified(chip, k, right) = mid \/ Verified(chip, k, right) = [mid EXCEPT !.verified = @ \cup {k}]
  BY DEF Verified
<1> HIDE DEF mid
<1>4. [mid EXCEPT !.verified = @ \cup {k}].fresh = mid.fresh
  BY <1>2 DEF Chips
<1> QED
  BY <1>1, <1>3, <1>4 DEF mid

\* SELECT and a comparison of the PUK leave both PINs alone.
LEMMA PinsLeftAlone ==
  ASSUME NEW chip \in SoundChips, NEW slot \in PinSlots, NEW right \in BOOLEAN
  PROVE  /\ SamePin(chip, Selected(chip), slot)
         /\ SamePin(chip, Compared(chip, "puk", right), slot)
         /\ SamePin(chip, Verified(chip, "puk", right), slot)
<1>1. slot \in FlooredCredentials \ {"puk"} /\ "puk" \in FlooredCredentials
  BY DEF PinSlots, FlooredCredentials
<1>2. Selected(chip).fresh = chip.fresh
  BY DEF Selected, SoundChips, Chips
<1> QED
  BY <1>1, <1>2, ComparedFresh, ComparedSound, VerifiedSound, SelectedSound DEF Comparison, SamePin

\* A command that sets or presents one PIN leaves the other alone.
LEMMA OtherPinLeftAlone ==
  ASSUME NEW chip \in SoundChips, NEW slot \in PinSlots, NEW other \in PinSlots \ {slot}, NEW right \in BOOLEAN
  PROVE  /\ SamePin(chip, PinSet(chip, slot), other)
         /\ SamePin(chip, PinChanged(chip, slot, right), other)
         /\ SamePin(chip, PinReset(chip, slot, right), other)
<1>1. slot \in FlooredCredentials /\ other \in FlooredCredentials \ {slot} /\ "puk" \in FlooredCredentials
  BY DEF FlooredCredentials
<1>2. ASSUME NEW one \in SoundChips
      PROVE  SamePin(one, PinSet(one, slot), other)
  <2>1. PinSet(one, slot).fresh = one.fresh \ {slot}
    BY DEF PinSet, SoundChips, Chips
  <2> QED
    BY <1>1, <2>1, PinSetSound DEF SamePin
<1>3. SamePin(chip, Compared(chip, slot, right), other)
  BY <1>1, ComparedSound, ComparedFresh DEF SamePin, Comparison
<1>4. SamePin(chip, PinChanged(chip, slot, right), other)
  BY <1>2, <1>3 DEF PinChanged
<1>5. Compared(chip, "puk", right) \in SoundChips /\ SamePin(chip, Compared(chip, "puk", right), other)
  BY <1>1, ComparedSound, PinsLeftAlone DEF Comparison
<1>6. SamePin(chip, PinSet(Compared(chip, "puk", right), slot), other)
  BY <1>2, <1>5 DEF SamePin
<1> QED
  BY <1>2, <1>4, <1>5, <1>6 DEF PinReset

=============================================================================
