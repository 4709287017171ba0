------------------------- MODULE Minidriver_proofs -------------------------
(* Theorems about the card module's contexts and the PIN cache they share,    *)
(* for any cards, contexts, PINs and bounds.                                  *)
EXTENDS Minidriver, CardChip_proofs

\* A context at its present handle that takes PIN 2 for authenticated has an
\* unused entry of PIN 2 on the card that handle reaches.
StandsBehind(x, cx, entries) ==
  "pin2" \in cx.authenticated /\ cx.tx = handle[x] /\ reach[x] # NoCard => <<x, reach[x]>> \in entries

EntryStands == \A x \in Contexts : StandsBehind(x, ctx[x], entered)

\* A handle is newer than every one before it, so that a context that has not
\* yet seen it holds an older one.
HandlesInOrder ==
  /\ \A x \in Contexts : ctx[x].tx <= handle[x] /\ handle[x] <= counts["moves"]
  /\ counts["moves"] + counts["lost"] <= MaxFaults

CardsSound == card \in [Cards -> SoundChips]

\* The inductive invariant.
PinsInv ==
  /\ TypeOK /\ CardsSound /\ HandlesInOrder /\ EntryStands
  /\ QualifiedIsEntered /\ HeldIsGood

-----------------------------------------------------------------------------
(* Contexts and counts.                                                      *)

\* A context that has gained no entry of PIN 2 and kept its handle.
Within(cx, cy) ==
  /\ cy \in ContextStates /\ cy.tx = cx.tx
  /\ "pin2" \in cy.authenticated => "pin2" \in cx.authenticated

\* What the calls do to a context on their way gains no entry of PIN 2.
LEMMA ContextSteps ==
  ASSUME NEW cx \in ContextStates, NEW lost \in BOOLEAN
  PROVE  /\ Within(cx, cx) /\ Within(cx, Forgotten(cx)) /\ Within(cx, AfterCommand(cx, lost))
         /\ Within(cx, Pin2Spent(cx)) /\ Within(cx, [cx EXCEPT !.authenticated = @ \cup {"pin1"}])
         /\ Forgotten(cx).authenticated = {} /\ "pin2" \notin Pin2Spent(cx).authenticated
BY DEF Within, ContextStates, Forgotten, AfterCommand, Pin2Spent, PinSlots

\* Nor do two of them in a row.
LEMMA WithinTransitive ==
  ASSUME NEW cx, NEW cy, NEW cz, Within(cx, cy), Within(cy, cz)
  PROVE  Within(cx, cz)
BY DEF Within

\* Nor does the use of a key.
LEMMA AfterUseWithin ==
  ASSUME NEW cx \in ContextStates, NEW lost \in BOOLEAN
  PROVE  Within(cx, AfterUse(cx, lost)) /\ Within(cx, Forgotten(AfterCommand(cx, lost)))
<1>1. Within(cx, AfterCommand(cx, lost)) /\ AfterCommand(cx, lost) \in ContextStates
  BY ContextSteps DEF Within
<1>2. Within(AfterCommand(cx, lost), Forgotten(AfterCommand(cx, lost)))
  BY <1>1, ContextSteps
<1> QED
  BY <1>1, <1>2, ContextSteps, WithinTransitive DEF AfterUse

\* A context that follows its card handle forgets what it had authenticated
\* through another.
LEMMA SyncedFacts ==
  ASSUME PinsInv, NEW x \in Contexts, NEW paced \in BOOLEAN
  PROVE  /\ Synced(ctx[x], handle[x], paced) \in ContextStates
         /\ Synced(ctx[x], handle[x], paced).tx = handle[x]
         /\ StandsBehind(x, Synced(ctx[x], handle[x], paced), entered)
<1>1. ctx[x] \in ContextStates /\ handle[x] \in 0..MaxFaults /\ StandsBehind(x, ctx[x], entered)
  BY DEF PinsInv, TypeOK, EntryStands
<1>2. CASE ctx[x].tx = handle[x]
  BY <1>1, <1>2 DEF Synced
<1>3. CASE ctx[x].tx # handle[x]
  BY <1>1, <1>3 DEF Synced, ContextStates, StandsBehind, PinSlots
<1> QED
  BY <1>2, <1>3

\* The counts after a call, within the bounds.
CountsKept ==
  /\ counts' \in [Bounds -> Nat] /\ counts'["moves"] = counts["moves"]
  /\ counts'["other"] = counts["other"]
  /\ counts'["moves"] + counts'["lost"] <= MaxFaults

\* A counted call stays within the bounds, and counts an answer it lost.
LEMMA CountedCallFacts ==
  ASSUME PinsInv, NEW lost \in BOOLEAN, CountedCall(lost)
  PROVE  CountsKept /\ (lost => counts'["lost"] # counts["lost"])
BY MinidriverAssumption DEF PinsInv, TypeOK, HandlesInOrder, CountedCall, CountsKept, Faulty, Bounds

\* A step that counts nothing stays within the bounds.
LEMMA UncountedFacts ==
  ASSUME PinsInv, counts' = counts
  PROVE  CountsKept
BY DEF PinsInv, TypeOK, HandlesInOrder, CountsKept

-----------------------------------------------------------------------------
(* What a call may do.                                                       *)

\* The tries a call may spend, of which known is what the process then knows
\* rejected.
ChipSpent(c, chip, known, lost) ==
  /\ chip \in SoundChips /\ Promised(card[c], chip)
  /\ \A k \in FlooredCredentials : chip.tries[k] < card[c].tries[k] =>
       /\ chip.tries[k] >= 2
       /\ k \in PinSlots => lost \/ \E p \in Pins : <<c, k, p>> \in known \ rejected

\* A call that leaves the counters alone.
LEMMA UnspentChip ==
  ASSUME PinsInv, NEW c \in Cards, NEW known, NEW lost
  PROVE  /\ card[c] \in SoundChips
         /\ ChipSpent(c, card[c], known, lost)
         /\ ChipSpent(c, Selected(card[c]), known, lost)
         /\ ChipSpent(c, [card[c] EXCEPT !.verified = @ \ {"pin2"}], known, lost)
<1>1. card[c] \in SoundChips /\ card[c].tries \in [FlooredCredentials -> 0..RetriesPristine]
  BY DEF PinsInv, CardsSound, SoundChips, Chips
<1>2. \A k \in FlooredCredentials : ~(card[c].tries[k] < card[c].tries[k])
  BY <1>1 DEF RetriesPristine
<1>3. /\ Promised(card[c], card[c]) /\ Promised(card[c], Selected(card[c]))
      /\ Promised(card[c], [card[c] EXCEPT !.verified = @ \ {"pin2"}])
  BY <1>1, SelectedSound, UnverifiedSound DEF Promised
<1> QED
  BY <1>1, <1>2, <1>3, SelectedSound, UnverifiedSound DEF ChipSpent

\* A call that presents a PIN past the floor spends one of the upper tries, and
\* only when the card rejects it.
LEMMA PresentedSpends ==
  ASSUME PinsInv, NEW c \in Cards, NEW slot \in PinSlots, NEW right \in BOOLEAN, NEW after,
         NEW known, NEW lost, Comparison(Selected(card[c]), after, slot, right),
         ServedByFloor(slot, PinStatus(Selected(card[c]), slot)),
         Answer(Selected(card[c]), slot, right) = "wrong" =>
           lost \/ \E p \in Pins : <<c, slot, p>> \in known \ rejected
  PROVE  ChipSpent(c, after, known, lost)
<1> DEFINE chip == Selected(card[c])
<1>1. chip \in SoundChips /\ chip.tries = card[c].tries
  BY SelectedSound, UnspentChip
<1>2. \A k \in FlooredCredentials : chip.tries[k] \in 0..RetriesPristine /\ after.tries[k] \in 0..RetriesPristine
  BY <1>1 DEF Comparison, SoundChips, Chips
<1>3. chip.tries[slot] >= 3
  BY <1>1, FlooredPin
<1> HIDE DEF chip
<1>4. ASSUME NEW k \in FlooredCredentials, after.tries[k] < chip.tries[k]
      PROVE  k = slot /\ Answer(chip, slot, right) = "wrong" /\ after.tries[k] >= 2
  BY <1>2, <1>3, <1>4 DEF Comparison, RetriesPristine, chip
<1>5. Promised(card[c], after)
  <2>1. after \in SoundChips /\ Comparison(chip, after, slot, right) /\ slot \in FlooredCredentials
    BY DEF Comparison, chip, FlooredCredentials
  <2>2. Promised(chip, after)
    BY <1>1, <1>3, <2>1, ComparisonPromised
  <2> QED
    BY <1>1, <2>1, <2>2, UnspentChip, SelectedPromised DEF chip
<1> QED
  BY <1>1, <1>4, <1>5 DEF ChipSpent, Comparison, chip

\* The same for the PUK, whose last tries the floor keeps too.
LEMMA PukSpends ==
  ASSUME PinsInv, NEW c \in Cards, NEW slot \in PinSlots, NEW right \in BOOLEAN, NEW known, NEW lost,
         ServedByFloor("puk", PukStatus(Selected(card[c])))
  PROVE  ChipSpent(c, PinReset(Selected(card[c]), slot, right), known, lost)
<1> DEFINE chip == Selected(card[c])
           after == PinReset(chip, slot, right)
<1>1. chip \in SoundChips /\ chip.tries = card[c].tries
  BY SelectedSound, UnspentChip
<1>2. after \in SoundChips
  BY <1>1, PinResetSound
<1>3. \A k \in FlooredCredentials : chip.tries[k] \in 0..RetriesPristine /\ after.tries[k] \in 0..RetriesPristine
  BY <1>1, <1>2 DEF SoundChips, Chips
<1>4. chip.tries["puk"] >= 3 \/ chip.tries["puk"] = 0
  BY <1>1, FlooredPuk
<1>5. Answer(chip, "puk", right) = "wrong" => chip.tries["puk"] # 0
  BY DEF Answer
<1>6. /\ \A j \in PinSlots : after.tries[j] >= chip.tries[j]
      /\ Answer(chip, "puk", right) = "wrong" => after.tries["puk"] = chip.tries["puk"] - 1
      /\ Answer(chip, "puk", right) # "wrong" => after.tries["puk"] >= chip.tries["puk"]
  BY <1>1, PinResetSound
<1> HIDE DEF chip, after
<1>7. ASSUME NEW k \in FlooredCredentials, after.tries[k] < chip.tries[k]
      PROVE  k \notin PinSlots /\ after.tries[k] >= 2
  BY <1>3, <1>4, <1>5, <1>6, <1>7 DEF FlooredCredentials, RetriesPristine
<1>8. Promised(card[c], after)
  BY <1>1, <1>2, <1>4, PinResetPromised, SelectedPromised, UnspentChip DEF chip, after
<1> QED
  BY <1>1, <1>2, <1>7, <1>8 DEF ChipSpent, chip, after

\* The effect of a call: on its own context, on the cache and on one card.
\* lost: it lost an answer.
CallEffect(x, lost) ==
  /\ UNCHANGED <<handle, reach>> /\ CountsKept
  /\ pinOf' \in [Cards -> [PinSlots -> Pins]]
  /\ \E cx \in ContextStates : /\ ctx' = [ctx EXCEPT ![x] = cx] /\ cx.tx <= handle[x]
                               /\ StandsBehind(x, cx, entered')
  /\ held' \subseteq HeldPins /\ rejected' \subseteq Cards \X PinSlots \X Pins
  /\ \A e \in held' : <<e.card, "pin1", e.pin>> \notin rejected'
  /\ entered' \subseteq Contexts \X Cards /\ unentered' = {}
  /\ \A y \in Contexts \ {x}, c \in Cards : <<y, c>> \in entered => <<y, c>> \in entered'
  /\ \/ card' = card
     \/ \E c \in Cards, chip \in SoundChips :
          ChipSpent(c, chip, rejected', lost) /\ card' = [card EXCEPT ![c] = chip]

\* A call keeps the invariant.
LEMMA EffectKeepsInv ==
  ASSUME PinsInv, NEW x \in Contexts, NEW lost, CallEffect(x, lost)
  PROVE  PinsInv'
<1>1. PICK cx \in ContextStates : /\ ctx' = [ctx EXCEPT ![x] = cx] /\ cx.tx <= handle[x]
                                  /\ StandsBehind(x, cx, entered')
  BY DEF CallEffect
<1>2. CardsSound'
  BY DEF CallEffect, PinsInv, CardsSound
<1>3. TypeOK'
  BY <1>1, <1>2 DEF CallEffect, PinsInv, TypeOK, CountsKept, CardsSound, SoundChips
<1>4. HandlesInOrder'
  BY <1>1 DEF CallEffect, CountsKept, PinsInv, HandlesInOrder, TypeOK
<1>5. EntryStands'
  <2> SUFFICES ASSUME NEW y \in Contexts
               PROVE  StandsBehind(y, ctx[y], entered)'
    BY DEF EntryStands
  <2>1. handle' = handle /\ reach' = reach /\ reach[y] \in Cards \cup {NoCard}
    BY DEF CallEffect, PinsInv, TypeOK
  <2>2. CASE y = x
    BY <1>1, <2>1, <2>2 DEF StandsBehind, PinsInv, TypeOK
  <2>3. CASE y # x
    <3>1. ctx'[y] = ctx[y] /\ StandsBehind(y, ctx[y], entered)
      BY <1>1, <2>3 DEF PinsInv, TypeOK, EntryStands
    <3> QED
      BY <2>1, <2>3, <3>1 DEF StandsBehind, CallEffect
  <2> QED
    BY <2>2, <2>3
<1> QED
  BY <1>2, <1>3, <1>4, <1>5 DEF CallEffect, PinsInv, QualifiedIsEntered, HeldIsGood

\* The floor is kept, and every try spent teaches the process a value.
Frugal(lost) ==
  \A c \in Cards, k \in FlooredCredentials : Spent(c, k) =>
    /\ card'[c].tries[k] >= 2
    /\ k \in PinSlots => lost \/ \E p \in Pins : <<c, k, p>> \in rejected' \ rejected

\* A call keeps the floor, and learns from every try it spends.
LEMMA EffectIsFrugal ==
  ASSUME PinsInv, NEW x \in Contexts, NEW lost, CallEffect(x, lost)
  PROVE  Frugal(lost)
<1> SUFFICES ASSUME NEW c \in Cards, NEW k \in FlooredCredentials, Spent(c, k)
             PROVE  /\ card'[c].tries[k] >= 2
                    /\ k \in PinSlots => lost \/ \E p \in Pins : <<c, k, p>> \in rejected' \ rejected
  BY DEF Frugal
<1>1. card[c].tries[k] \in 0..RetriesPristine /\ card \in [Cards -> SoundChips]
  BY DEF PinsInv, CardsSound, SoundChips, Chips
<1>2. CASE card' = card
  BY <1>1, <1>2 DEF Spent, RetriesPristine
<1>3. ASSUME NEW d \in Cards, NEW chip \in SoundChips, ChipSpent(d, chip, rejected', lost),
             card' = [card EXCEPT ![d] = chip]
      PROVE  /\ card'[c].tries[k] >= 2
             /\ k \in PinSlots => lost \/ \E p \in Pins : <<c, k, p>> \in rejected' \ rejected
  BY <1>1, <1>3 DEF Spent, ChipSpent, RetriesPristine
<1> QED
  BY <1>2, <1>3 DEF CallEffect

-----------------------------------------------------------------------------
(* The calls.                                                                *)

\* The outcome of a call as Leaving gives it.
LEMMA LeavingEffect ==
  ASSUME PinsInv, NEW x \in Contexts, NEW lost, NEW cx \in ContextStates, NEW pins, NEW known,
         NEW c, NEW chip, Leaving(x, cx, pins, known, c, chip),
         UNCHANGED <<handle, reach>>, CountsKept, pinOf' \in [Cards -> [PinSlots -> Pins]],
         cx.tx <= handle[x], StandsBehind(x, cx, entered'),
         pins \subseteq HeldPins, known \subseteq Cards \X PinSlots \X Pins,
         \A e \in pins : <<e.card, "pin1", e.pin>> \notin known,
         entered' \subseteq Contexts \X Cards, unentered' = {},
         \A y \in Contexts \ {x}, d \in Cards : <<y, d>> \in entered => <<y, d>> \in entered',
         c = NoCard \/ (c \in Cards /\ ChipSpent(c, chip, known, lost))
  PROVE  CallEffect(x, lost)
<1>1. c \in Cards => c # NoCard /\ chip \in SoundChips
  BY MinidriverAssumption DEF ChipSpent
<1> QED
  BY <1>1 DEF Leaving, CallEffect

\* A call that leaves the history alone.
LEMMA QuietEffect ==
  ASSUME PinsInv, NEW x \in Contexts, NEW lost, NEW cx \in ContextStates, NEW cy, NEW pins, NEW known,
         NEW c, NEW chip, Leaving(x, cy, pins, known, c, chip),
         UNCHANGED <<handle, reach, history>>, CountsKept, pinOf' \in [Cards -> [PinSlots -> Pins]],
         cx.tx <= handle[x], StandsBehind(x, cx, entered), Within(cx, cy),
         pins \subseteq HeldPins, known \subseteq Cards \X PinSlots \X Pins,
         \A e \in pins : <<e.card, "pin1", e.pin>> \notin known,
         c = NoCard \/ (c \in Cards /\ ChipSpent(c, chip, known, lost))
  PROVE  CallEffect(x, lost)
<1>1. cy \in ContextStates /\ cy.tx <= handle[x] /\ StandsBehind(x, cy, entered)
  BY DEF Within, StandsBehind
<1>2. /\ entered' = entered /\ unentered' = unentered
      /\ entered' \subseteq Contexts \X Cards /\ unentered' = {}
  BY DEF history, PinsInv, TypeOK, QualifiedIsEntered
<1>3. StandsBehind(x, cy, entered')
  BY <1>1, <1>2
<1> QED
  BY <1>1, <1>2, <1>3, LeavingEffect

\* What every call finds.
LEMMA CallFinds ==
  ASSUME PinsInv, NEW x \in Contexts
  PROVE  /\ ctx[x] \in ContextStates /\ ctx[x].tx <= handle[x] /\ handle[x] \in Nat
         /\ StandsBehind(x, ctx[x], entered)
         /\ held \subseteq HeldPins /\ rejected \subseteq Cards \X PinSlots \X Pins
         /\ \A e \in held : <<e.card, "pin1", e.pin>> \notin rejected
         /\ entered \subseteq Contexts \X Cards /\ unentered = {}
         /\ pinOf \in [Cards -> [PinSlots -> Pins]]
         /\ reach[x] # NoCard => reach[x] \in Cards
BY MinidriverAssumption
   DEF PinsInv, TypeOK, HandlesInOrder, EntryStands, HeldIsGood, QualifiedIsEntered

\* A context starts with nothing authenticated.
LEMMA AcquireEffect ==
  ASSUME PinsInv, NEW x \in Contexts, Acquire(x)
  PROVE  CallEffect(x, FALSE)
<1> DEFINE cx == [open |-> TRUE, tx |-> handle[x], authenticated |-> {},
                  channel |-> IF reach[x] \in Contactless THEN "alive" ELSE "plain"]
<1>1. /\ ctx' = [ctx EXCEPT ![x] = cx] /\ card' = [card EXCEPT ![reach[x]] = Selected(@)]
      /\ reach[x] # NoCard /\ UNCHANGED <<pinOf, handle, reach, cacheVars, history, counts>>
  BY DEF Acquire
<1>2. cx \in ContextStates /\ cx.tx = handle[x] /\ cx.authenticated = {}
  BY DEF ContextStates, PinsInv, TypeOK
<1>3. StandsBehind(x, cx, entered) /\ Within(cx, cx)
  BY <1>2, ContextSteps DEF StandsBehind
<1>4. reach[x] \in Cards /\ ChipSpent(reach[x], Selected(card[reach[x]]), rejected, FALSE)
  BY <1>1, CallFinds, UnspentChip
<1>5. CountsKept
  BY <1>1, UncountedFacts
<1>6. Leaving(x, cx, held, rejected, reach[x], Selected(card[reach[x]]))
  BY <1>1, <1>4, MinidriverAssumption DEF Leaving, cacheVars
<1> HIDE DEF cx
<1>7. cx.tx <= handle[x]
  BY <1>2, CallFinds
<1> QED
  BY <1>1, <1>2, <1>3, <1>4, <1>5, <1>6, <1>7, CallFinds, QuietEffect

\* A context that is deleted or deauthenticated keeps no entry.
LEMMA CloseEffect ==
  ASSUME PinsInv, NEW x \in Contexts, CardDeleteContext(x) \/ Deauthenticate(x)
  PROVE  CallEffect(x, FALSE)
<1>1. CountsKept /\ UNCHANGED <<card, pinOf, handle, reach, cacheVars, history, counts>>
  BY UncountedFacts DEF CardDeleteContext, Deauthenticate
<1>2. CASE CardDeleteContext(x)
  <2>1. Closed \in ContextStates /\ Closed.tx = 0 /\ Closed.authenticated = {}
    BY MinidriverAssumption DEF Closed, ContextStates
  <2>2. StandsBehind(x, Closed, entered) /\ Within(Closed, Closed)
    BY <2>1, ContextSteps DEF StandsBehind
  <2>3. Closed.tx <= handle[x]
    BY <2>1, CallFinds
  <2>4. Leaving(x, Closed, held, rejected, NoCard, card)
    BY <1>1, <1>2 DEF Leaving, CardDeleteContext, cacheVars
  <2> QED
    BY <1>1, <2>1, <2>2, <2>3, <2>4, CallFinds, QuietEffect
<1>3. CASE Deauthenticate(x)
  <2>1. Leaving(x, Forgotten(ctx[x]), held, rejected, NoCard, card)
    BY <1>1, <1>3 DEF Leaving, Deauthenticate, cacheVars
  <2>2. Within(ctx[x], Forgotten(ctx[x]))
    BY CallFinds, ContextSteps
  <2> QED
    BY <1>1, <2>1, <2>2, CallFinds, QuietEffect
<1> QED
  BY <1>2, <1>3

\* CardAuthenticatePin: the floor, the rejection memory and the card decide,
\* and only an accepted PIN 2 becomes an entry.
LEMMA AuthenticateEffect ==
  ASSUME PinsInv, NEW x \in Contexts, NEW s \in PinSlots, NEW p \in Pins, NEW paced \in BOOLEAN,
         NEW lost \in BOOLEAN, Authenticate(x, s, p, paced, lost)
  PROVE  CallEffect(x, lost)
<1> DEFINE cx     == Synced(ctx[x], handle[x], paced)
           c      == reach[x]
           chip   == Selected(card[c])
           status == PinStatus(chip, s)
           right  == p = pinOf[c][s]
           answer == Answer(chip, s, right)
           after  == Verified(chip, s, right)
           synced == ~SyncFails(ctx[x], handle[x], paced)
           sent   == synced /\ Reaches(x, cx) /\ ServedByFloor(s, status) /\ <<c, s, p>> \notin rejected
<1>1. /\ CountsKept /\ UNCHANGED <<pinOf, handle, reach>> /\ pinOf' \in [Cards -> [PinSlots -> Pins]]
  BY CountedCallFacts, CallFinds DEF Authenticate
<1>2. cx \in ContextStates /\ cx.tx = handle[x] /\ cx.tx <= handle[x] /\ StandsBehind(x, cx, entered)
  BY SyncedFacts, CallFinds
<1>3. Within(cx, cx) /\ Within(cx, Forgotten(cx)) /\ Within(cx, Forgotten(AfterCommand(cx, lost)))
  BY <1>2, ContextSteps, AfterUseWithin
<1>4. Reaches(x, cx) => c \in Cards /\ c # NoCard /\ ChipSpent(c, chip, rejected, lost)
  BY CallFinds, UnspentChip DEF Reaches
<1>5. CASE ~synced
  <2>1. Leaving(x, cx, held, rejected, NoCard, card) /\ UNCHANGED history
    BY <1>5 DEF Authenticate
  <2> HIDE DEF cx
  <2> QED
    BY <1>1, <1>2, <1>3, <2>1, CallFinds, QuietEffect
<1>6. CASE synced /\ ~Reaches(x, cx)
  <2>1. Leaving(x, Forgotten(cx), {}, rejected, NoCard, card) /\ UNCHANGED history
    BY <1>6 DEF Authenticate, Cleared
  <2> HIDE DEF cx
  <2> QED
    BY <1>1, <1>2, <1>3, <2>1, CallFinds, QuietEffect
<1>7. CASE synced /\ Reaches(x, cx) /\ ~sent
  <2>1. Leaving(x, Forgotten(cx), {}, rejected, c, chip) /\ UNCHANGED history
    BY <1>7 DEF Authenticate, Cleared
  <2> HIDE DEF cx, chip
  <2> QED
    BY <1>1, <1>2, <1>3, <1>4, <1>7, <2>1, CallFinds, QuietEffect
<1>8. CASE sent
  <2> DEFINE known == IF answer = "wrong" /\ ~lost THEN rejected \cup {<<c, s, p>>} ELSE rejected
  <2>1. IF answer = "ok" /\ ~lost THEN Authenticated(x, cx, s, p, status, after)
        ELSE /\ Leaving(x, Forgotten(AfterCommand(cx, lost)), {}, known, c, after)
             /\ UNCHANGED history
    BY <1>8 DEF Authenticate, Cleared
  <2>2. Comparison(chip, after, s, right) /\ c \in Cards /\ s \in FlooredCredentials
    BY <1>4, <1>8, VerifiedSound, UnspentChip, SelectedSound DEF FlooredCredentials
  <2>3. answer = "wrong" => lost \/ <<c, s, p>> \in known \ rejected
    BY <1>8
  <2>4. ChipSpent(c, after, known, lost)
    <3> HIDE DEF known, after
    <3> QED
      BY <1>8, <2>2, <2>3, PresentedSpends
  <2>5. known \subseteq Cards \X PinSlots \X Pins
    BY <2>2, CallFinds
  <2>6. CASE ~(answer = "ok" /\ ~lost)
    <3> HIDE DEF cx, after, known, c
    <3> QED
      BY <1>1, <1>2, <1>3, <2>1, <2>2, <2>4, <2>5, <2>6, CallFinds, QuietEffect
  <2>7. CASE answer = "ok" /\ ~lost
    <3> DEFINE cy == [cx EXCEPT !.authenticated = {s}]
               pins == IF s = "pin1" /\ <<c, s, p>> \notin rejected THEN {Holding(c, p, status)} ELSE {}
    <3>1. /\ Leaving(x, cy, pins, rejected, c, after)
          /\ entered' = IF s = "pin2" THEN entered \cup {<<x, c>>} ELSE entered
          /\ unentered' = unentered
      BY <2>1, <2>7 DEF Authenticated
    <3>2. cy \in ContextStates /\ cy.tx = handle[x] /\ cy.authenticated = {s} /\ cy.tx <= handle[x]
      BY <1>2 DEF ContextStates
    <3>3. StandsBehind(x, cy, entered')
      BY <3>1, <3>2 DEF StandsBehind
    <3>4. pins \subseteq HeldPins /\ \A e \in pins : <<e.card, "pin1", e.pin>> \notin rejected
      <4>1. Holding(c, p, status) \in HeldPins
        BY <2>2 DEF Holding, HeldPins
      <4>2. Holding(c, p, status).card = c /\ Holding(c, p, status).pin = p
        BY DEF Holding
      <4> QED
        BY <4>1, <4>2
    <3>5. entered' \subseteq Contexts \X Cards /\ unentered' = {} /\ entered \subseteq entered'
      BY <2>2, <3>1, CallFinds
    <3>6. known = rejected
      BY <2>7
    <3> HIDE DEF cx, cy, pins, after, known, c
    <3> QED
      BY <1>1, <2>2, <2>4, <2>5, <3>1, <3>2, <3>3, <3>4, <3>5, <3>6, LeavingEffect
  <2> QED
    BY <2>6, <2>7
<1> QED
  BY <1>5, <1>6, <1>7, <1>8

\* What a use of the held PIN 1 gives, whatever comes of it.
ReverifyEffect(x, cx, r, lost) ==
  /\ Within(cx, r.cx) /\ r.held \subseteq HeldPins
  /\ r.rejected \subseteq Cards \X PinSlots \X Pins
  /\ \A e \in r.held : <<e.card, "pin1", e.pin>> \notin r.rejected
  /\ ChipSpent(reach[x], r.chip, r.rejected, lost)

\* reverify_cached_pin: the PIN the card rejects is held no more.
LEMMA ReverifiedEffect ==
  ASSUME PinsInv, NEW x \in Contexts, NEW cx \in ContextStates, NEW lost \in BOOLEAN, reach[x] # NoCard
  PROVE  ReverifyEffect(x, cx, Reverified(x, cx, lost), lost)
<1> DEFINE c      == reach[x]
           chip   == Selected(card[c])
           status == PinStatus(chip, "pin1")
           e      == HeldPin
           right  == e.pin = pinOf[c]["pin1"]
           answer == Answer(chip, "pin1", right)
           after  == Verified(chip, "pin1", right)
           served == ServedByFloor("pin1", status)
           r      == Reverified(x, cx, lost)
           known  == IF answer = "wrong" THEN rejected \cup {<<c, "pin1", e.pin>>} ELSE rejected
<1>1. c \in Cards /\ \A some : ChipSpent(c, chip, some, lost)
  BY CallFinds, UnspentChip
<1>2. Within(cx, cx) /\ Within(cx, Forgotten(cx)) /\ Within(cx, Forgotten(AfterCommand(cx, lost)))
      /\ Within(cx, [cx EXCEPT !.authenticated = @ \cup {"pin1"}])
  BY ContextSteps, AfterUseWithin
<1>3. CASE ~served
  <2>1. r.cx = Forgotten(cx) /\ r.held = {} /\ r.rejected = rejected /\ r.chip = chip
    BY <1>3 DEF Reverified, Cleared
  <2> HIDE DEF chip
  <2> QED
    BY <1>1, <1>2, <2>1, CallFinds DEF ReverifyEffect
<1>4. CASE served /\ (held = {} \/ ~Fits(e, c, status))
  <2>1. r.cx = cx /\ r.held = {} /\ r.rejected = rejected /\ r.chip = chip
    BY <1>4 DEF Reverified
  <2> HIDE DEF chip
  <2> QED
    BY <1>1, <1>2, <2>1, CallFinds DEF ReverifyEffect
<1>5. CASE served /\ held # {} /\ Fits(e, c, status) /\ <<c, "pin1", e.pin>> \in rejected
  <2>1. r.cx = Forgotten(cx) /\ r.held = {} /\ r.rejected = rejected /\ r.chip = chip
    BY <1>5 DEF Reverified, Cleared
  <2> HIDE DEF chip
  <2> QED
    BY <1>1, <1>2, <2>1, CallFinds DEF ReverifyEffect
<1>6. CASE served /\ held # {} /\ Fits(e, c, status) /\ <<c, "pin1", e.pin>> \notin rejected
  <2>1. e \in held /\ e.pin \in Pins
    BY <1>6, CallFinds DEF HeldPin, HeldPins
  <2>2. "pin1" \in PinSlots /\ "pin1" \in FlooredCredentials /\ right \in BOOLEAN
    BY DEF PinSlots, FlooredCredentials
  <2>3. Comparison(chip, after, "pin1", right)
    BY <1>1, <2>2, VerifiedSound, UnspentChip, SelectedSound
  <2>4. CASE lost
    <3>1. r.cx = Forgotten(AfterCommand(cx, lost)) /\ r.held = held /\ r.rejected = rejected /\ r.chip = after
      BY <1>6, <2>4 DEF Reverified
    <3>2. ChipSpent(c, after, rejected, lost)
      <4> HIDE DEF after, right
      <4> QED
        BY <1>1, <1>6, <2>2, <2>3, <2>4, PresentedSpends
    <3> HIDE DEF after
    <3> QED
      BY <1>2, <3>1, <3>2, CallFinds DEF ReverifyEffect
  <2>5. CASE ~lost
    <3>1. ChipSpent(c, after, known, lost)
      <4>1. answer = "wrong" => <<c, "pin1", e.pin>> \in known \ rejected
        BY <1>6
      <4> HIDE DEF after, right, known, e
      <4> QED
        BY <1>1, <1>6, <2>1, <2>2, <2>3, <4>1, PresentedSpends
    <3>2. known \subseteq Cards \X PinSlots \X Pins
      BY <1>1, <2>1, <2>2, CallFinds
    <3>3. r.rejected = known /\ r.chip = after
      BY <1>6, <2>5 DEF Reverified
    <3>4. r.held \in {held, {}} /\ (answer # "ok" => r.held = {})
      BY <1>6, <2>5 DEF Reverified, Cleared
    <3>5. Within(cx, r.cx)
      <4>1. r.cx \in {Forgotten(cx), [cx EXCEPT !.authenticated = @ \cup {"pin1"}]}
        BY <1>6, <2>5 DEF Reverified
      <4> QED
        BY <1>2, <4>1
    <3>6. answer = "ok" => known = rejected
      OBVIOUS
    <3> HIDE DEF after, known, answer
    <3> QED
      BY <3>1, <3>2, <3>3, <3>4, <3>5, <3>6, CallFinds DEF ReverifyEffect
  <2> QED
    BY <2>4, <2>5
<1> QED
  BY <1>3, <1>4, <1>5, <1>6

\* A use of the authentication key.
LEMMA Pin1Effect ==
  ASSUME PinsInv, NEW x \in Contexts, NEW cx \in ContextStates, NEW lost \in Losses,
         Reaches(x, cx), cx.tx <= handle[x], StandsBehind(x, cx, entered),
         SignsWithPin1(x, cx, lost), CountsKept, UNCHANGED <<pinOf, handle, reach>>
  PROVE  CallEffect(x, lost = "verify")
<1> DEFINE r == Reverified(x, cx, lost = "verify")
<1>1. reach[x] # NoCard /\ reach[x] \in Cards /\ pinOf' \in [Cards -> [PinSlots -> Pins]]
  BY CallFinds DEF Reaches
<1>2. ReverifyEffect(x, cx, r, lost = "verify")
  BY <1>1, ReverifiedEffect
<1>3. Leaving(x, AfterUse(r.cx, lost = "use"), r.held, r.rejected, reach[x], r.chip) /\ UNCHANGED history
  BY DEF SignsWithPin1
<1> HIDE DEF r
<1>4. Within(cx, AfterUse(r.cx, lost = "use"))
  BY <1>2, AfterUseWithin, WithinTransitive DEF ReverifyEffect, Within
<1>5. UNCHANGED <<handle, reach, history>>
  BY <1>3
<1> QED
  BY <1>1, <1>2, <1>3, <1>4, <1>5, QuietEffect DEF ReverifyEffect

\* A use of the qualified key takes the entry that stands behind it.
LEMMA Pin2Effect ==
  ASSUME PinsInv, NEW x \in Contexts, NEW cx \in ContextStates, NEW lost \in Losses,
         Reaches(x, cx), cx.tx = handle[x], StandsBehind(x, cx, entered), MaySign(cx, "pin2"),
         SignsWithPin2(x, cx, lost), CountsKept, UNCHANGED <<pinOf, handle, reach>>
  PROVE  CallEffect(x, FALSE)
<1> DEFINE c == reach[x]
           unverified == [card[c] EXCEPT !.verified = @ \ {"pin2"}]
<1>1. c # NoCard /\ c \in Cards /\ pinOf' \in [Cards -> [PinSlots -> Pins]] /\ cx.tx <= handle[x]
  BY CallFinds DEF Reaches
<1>2. ChipSpent(c, card[c], rejected, FALSE) /\ ChipSpent(c, unverified, rejected, FALSE)
  BY <1>1, UnspentChip
<1>3. <<x, c>> \in entered
  BY <1>1 DEF StandsBehind, MaySign
<1>4. CASE "pin2" \in card[c].verified
  <2> DEFINE cy == AfterUse(Pin2Spent(cx), lost = "use")
  <2>1. /\ Leaving(x, cy, held, rejected, c, unverified)
        /\ entered' = entered \ {<<x, c>>} /\ unentered' = unentered \cup ({<<x, c>>} \ entered)
    BY <1>4 DEF SignsWithPin2
  <2>2. Within(Pin2Spent(cx), cy) /\ Within(cx, Pin2Spent(cx)) /\ "pin2" \notin Pin2Spent(cx).authenticated
    BY ContextSteps, AfterUseWithin DEF Within
  <2>3. cy \in ContextStates /\ cy.tx <= handle[x] /\ "pin2" \notin cy.authenticated
    BY <1>1, <2>2 DEF Within
  <2>4. StandsBehind(x, cy, entered')
    BY <2>3 DEF StandsBehind
  <2>5. /\ entered' \subseteq Contexts \X Cards /\ unentered' = {}
        /\ \A y \in Contexts \ {x}, d \in Cards : <<y, d>> \in entered => <<y, d>> \in entered'
    BY <1>3, <2>1, CallFinds
  <2> HIDE DEF cy, unverified
  <2> QED
    BY <1>1, <1>2, <2>1, <2>3, <2>4, <2>5, CallFinds, LeavingEffect
<1>5. CASE "pin2" \notin card[c].verified
  <2>1. Leaving(x, Forgotten(cx), held, rejected, c, card[c]) /\ UNCHANGED history
    BY <1>5 DEF SignsWithPin2
  <2>2. Within(cx, Forgotten(cx)) /\ UNCHANGED <<handle, reach, history>>
    BY <2>1, ContextSteps
  <2> QED
    BY <1>1, <1>2, <2>1, <2>2, CallFinds, QuietEffect
<1> QED
  BY <1>4, <1>5

\* CardSignData counts the answer it loses.
LEMMA SignEffect ==
  ASSUME PinsInv, NEW x \in Contexts, NEW s \in PinSlots, NEW paced \in BOOLEAN, NEW lost \in Losses,
         CardSignData(x, s, paced, lost)
  PROVE  CallEffect(x, FALSE) \/ CallEffect(x, lost = "verify")
<1> DEFINE cx == Synced(ctx[x], handle[x], paced)
<1>1. /\ CountsKept /\ UNCHANGED <<pinOf, handle, reach>> /\ pinOf' \in [Cards -> [PinSlots -> Pins]]
  BY CountedCallFacts, CallFinds DEF CardSignData
<1>2. cx \in ContextStates /\ cx.tx = handle[x] /\ cx.tx <= handle[x] /\ StandsBehind(x, cx, entered)
  BY SyncedFacts, CallFinds
<1>3. Within(cx, cx) /\ Within(cx, Forgotten(cx))
  BY <1>2, ContextSteps
<1>4. CASE ~MaySign(cx, s)
  <2>1. Leaving(x, cx, held, rejected, NoCard, card) /\ UNCHANGED history
    BY <1>4 DEF CardSignData
  <2> HIDE DEF cx
  <2> QED
    BY <1>1, <1>2, <1>3, <2>1, CallFinds, QuietEffect
<1>5. CASE MaySign(cx, s) /\ ~Reaches(x, cx)
  <2>1. Leaving(x, Forgotten(cx), held, rejected, NoCard, card) /\ UNCHANGED history
    BY <1>5 DEF CardSignData
  <2> HIDE DEF cx
  <2> QED
    BY <1>1, <1>2, <1>3, <2>1, CallFinds, QuietEffect
<1>6. CASE MaySign(cx, s) /\ Reaches(x, cx)
  <2>1. IF s = "pin1" THEN SignsWithPin1(x, cx, lost) ELSE SignsWithPin2(x, cx, lost)
    BY <1>6 DEF CardSignData
  <2> HIDE DEF cx
  <2> QED
    BY <1>1, <1>2, <1>6, <2>1, Pin1Effect, Pin2Effect DEF PinSlots
<1> QED
  BY <1>4, <1>5, <1>6

\* CardRSADecrypt.
LEMMA DecryptEffect ==
  ASSUME PinsInv, NEW x \in Contexts, NEW lost \in Losses, CardRSADecrypt(x, lost)
  PROVE  CallEffect(x, FALSE) \/ CallEffect(x, lost = "verify")
<1>1. /\ CountsKept /\ UNCHANGED <<pinOf, handle, reach>> /\ pinOf' \in [Cards -> [PinSlots -> Pins]]
  BY CountedCallFacts, CallFinds DEF CardRSADecrypt
<1>2. CASE Reaches(x, ctx[x])
  BY <1>1, <1>2, CallFinds, Pin1Effect DEF CardRSADecrypt
<1>3. CASE ~Reaches(x, ctx[x])
  <2>1. Leaving(x, Forgotten(ctx[x]), held, rejected, NoCard, card) /\ UNCHANGED history
    BY <1>3 DEF CardRSADecrypt
  <2>2. Within(ctx[x], Forgotten(ctx[x]))
    BY CallFinds, ContextSteps
  <2> QED
    BY <1>1, <2>1, <2>2, CallFinds, QuietEffect
<1> QED
  BY <1>2, <1>3

\* CardUnblockPin presents the PUK, of which the process remembers nothing.
LEMMA UnblockEffect ==
  ASSUME PinsInv, NEW x \in Contexts, NEW s \in PinSlots, NEW right \in BOOLEAN, NEW new \in Pins,
         NEW lost \in BOOLEAN, Unblock(x, s, right, new, lost)
  PROVE  CallEffect(x, lost)
<1> DEFINE c    == reach[x]
           chip == Selected(card[c])
           sent == Reaches(x, ctx[x]) /\ ServedByFloor("puk", PukStatus(chip))
           to   == IF Reaches(x, ctx[x]) THEN c ELSE NoCard
           left == IF sent THEN PinReset(chip, s, right) ELSE chip
<1>1. CountsKept /\ UNCHANGED <<handle, reach, history>>
  BY CountedCallFacts DEF Unblock
<1>2. Leaving(x, Forgotten(AfterCommand(ctx[x], lost)), {}, rejected, to, left)
  BY DEF Unblock, Cleared
<1>3. Reaches(x, ctx[x]) => c \in Cards /\ ChipSpent(c, chip, rejected, lost)
  BY CallFinds, UnspentChip DEF Reaches
<1>4. to = NoCard \/ (to \in Cards /\ ChipSpent(to, left, rejected, lost))
  BY <1>3, PukSpends
<1>5. pinOf' \in [Cards -> [PinSlots -> Pins]]
  BY <1>3, CallFinds DEF Unblock
<1>6. Within(ctx[x], Forgotten(AfterCommand(ctx[x], lost)))
  BY CallFinds, AfterUseWithin
<1> HIDE DEF to, left
<1> QED
  BY <1>1, <1>2, <1>4, <1>5, <1>6, CallFinds, QuietEffect

\* CardChangeAuthenticator presents the current value unless the process knows
\* it rejected.
LEMMA ChangeEffect ==
  ASSUME PinsInv, NEW x \in Contexts, NEW s \in PinSlots, NEW current \in Pins, NEW new \in Pins,
         NEW lost \in BOOLEAN, Change(x, s, current, new, lost)
  PROVE  CallEffect(x, lost)
<1> DEFINE c      == reach[x]
           chip   == Selected(card[c])
           right  == current = pinOf[c][s]
           sent   == /\ Reaches(x, ctx[x]) /\ ServedByFloor(s, PinStatus(chip, s))
                     /\ ~RefusedChange(c, s, current, new)
           answer == Answer(chip, s, right)
           known  == IF sent /\ answer = "wrong" /\ ~lost THEN rejected \cup {<<c, s, current>>} ELSE rejected
           to     == IF Reaches(x, ctx[x]) THEN c ELSE NoCard
           left   == IF sent THEN PinChanged(chip, s, right) ELSE chip
<1>1. CountsKept /\ UNCHANGED <<handle, reach, history>>
  BY CountedCallFacts DEF Change
<1>2. Leaving(x, Forgotten(AfterCommand(ctx[x], lost)), {}, known, to, left)
  BY DEF Change, Cleared
<1>3. Reaches(x, ctx[x]) => c \in Cards /\ \A some : ChipSpent(c, chip, some, lost)
  BY CallFinds, UnspentChip DEF Reaches
<1>4. sent => ChipSpent(c, left, known, lost)
  <2> SUFFICES ASSUME sent PROVE ChipSpent(c, left, known, lost)
    OBVIOUS
  <2>1. answer = "wrong" => lost \/ <<c, s, current>> \in known \ rejected
    BY DEF RefusedChange
  <2>2. Comparison(chip, left, s, right) /\ c \in Cards
    BY <1>3, PinChangedSound, UnspentChip, SelectedSound
  <2> HIDE DEF known, left
  <2> QED
    BY <2>1, <2>2, PresentedSpends
<1>5. to = NoCard \/ (to \in Cards /\ ChipSpent(to, left, known, lost))
  BY <1>3, <1>4
<1>6. pinOf' \in [Cards -> [PinSlots -> Pins]]
  BY <1>3, CallFinds DEF Change
<1>7. Within(ctx[x], Forgotten(AfterCommand(ctx[x], lost)))
  BY CallFinds, AfterUseWithin
<1>8. known \subseteq Cards \X PinSlots \X Pins
  BY <1>3, CallFinds
<1> HIDE DEF to, left, known
<1> QED
  BY <1>1, <1>2, <1>5, <1>6, <1>7, <1>8, CallFinds, QuietEffect

\* Every call has the effect of a call.
LEMMA CallHasEffect ==
  ASSUME PinsInv, NEW x \in Contexts, Call(x)
  PROVE  \E lost \in BOOLEAN : CallEffect(x, lost) /\ (lost => counts'["lost"] # counts["lost"])
<1>1. CASE Acquire(x) \/ CardDeleteContext(x) \/ Deauthenticate(x)
  BY <1>1, AcquireEffect, CloseEffect
<1>2. ASSUME NEW lost \in Losses,
             CardRSADecrypt(x, lost) \/ \E s \in PinSlots, paced \in BOOLEAN : CardSignData(x, s, paced, lost)
      PROVE  \E l \in BOOLEAN : CallEffect(x, l) /\ (l => counts'["lost"] # counts["lost"])
  <2>1. CountedCall(lost # "none")
    BY <1>2 DEF CardRSADecrypt, CardSignData
  <2>2. lost = "verify" => counts'["lost"] # counts["lost"]
    BY <2>1, CountedCallFacts
  <2>3. CallEffect(x, FALSE) \/ CallEffect(x, lost = "verify")
    BY <1>2, DecryptEffect, SignEffect
  <2> QED
    BY <2>2, <2>3
<1>3. ASSUME NEW s \in PinSlots, NEW p \in Pins, NEW lost \in BOOLEAN,
             \/ \E paced \in BOOLEAN : Authenticate(x, s, p, paced, lost)
             \/ \E right \in BOOLEAN : Unblock(x, s, right, p, lost)
             \/ \E new \in Pins : Change(x, s, p, new, lost)
      PROVE  CallEffect(x, lost) /\ (lost => counts'["lost"] # counts["lost"])
  <2>1. CountedCall(lost)
    BY <1>3 DEF Authenticate, Unblock, Change
  <2>2. lost => counts'["lost"] # counts["lost"]
    BY <2>1, CountedCallFacts
  <2> QED
    BY <1>3, <2>2, AuthenticateEffect, UnblockEffect, ChangeEffect
<1> QED
  BY <1>1, <1>2, <1>3 DEF Call

-----------------------------------------------------------------------------
(* The card, the Base CSP and other programs.                                *)

\* A move of the environment counts and presents nothing for the process.
LEMMA MovedFacts ==
  ASSUME PinsInv, Moved \/ Foreign
  PROVE  /\ counts' \in [Bounds -> Nat] /\ counts'["calls"] = counts["calls"]
         /\ counts'["moves"] + counts'["lost"] <= MaxFaults
         /\ counts["moves"] <= counts'["moves"] /\ counts'["moves"] \in Nat
         /\ Moved => counts'["moves"] = counts["moves"] + 1 /\ counts'["moves"] <= MaxFaults
BY MinidriverAssumption
   DEF PinsInv, TypeOK, HandlesInOrder, Moved, Foreign, Faulty, Counting, Bounds

\* A card that loses power keeps every context's handle and entries.
LEMMA UnpowerEffect ==
  ASSUME PinsInv, NEW c \in Cards, Unpower(c)
  PROVE  /\ CardsSound'
         /\ ctx' \in [Contexts -> ContextStates]
         /\ \A x \in Contexts : ctx'[x].tx = ctx[x].tx /\ ctx'[x].authenticated = ctx[x].authenticated
<1>1. CardsSound'
  BY UnspentChip, SelectedSound DEF Unpower, PinsInv, CardsSound
<1>2. ctx \in [Contexts -> ContextStates]
  BY DEF PinsInv, TypeOK
<1>3. \A x \in Contexts : ctx'[x] = ctx[x] \/ ctx'[x] = [ctx[x] EXCEPT !.channel = "ended"]
  BY DEF Unpower
<1>4. \A x \in Contexts : /\ ctx'[x] \in ContextStates
                          /\ ctx'[x].tx = ctx[x].tx /\ ctx'[x].authenticated = ctx[x].authenticated
  BY <1>2, <1>3 DEF ContextStates
<1>5. ctx' = [x \in Contexts |-> ctx'[x]]
  BY DEF Unpower
<1> QED
  BY <1>1, <1>4, <1>5

\* A reset of a card, and its leaving the reader.
LEMMA LosesPower ==
  ASSUME PinsInv, NEW c \in Cards, Reset(c) \/ Leaves(c)
  PROVE  PinsInv'
<1>1. /\ Moved /\ Unpower(c) /\ UNCHANGED <<pinOf, handle, held, rejected, entered, unentered>>
      /\ reach' \in [Contexts -> Cards \cup {NoCard}]
      /\ \A x \in Contexts : reach'[x] # NoCard => reach'[x] = reach[x]
  BY DEF Reset, Leaves, cacheVars, history, PinsInv, TypeOK
<1>2. TypeOK'
  BY <1>1, UnpowerEffect, MovedFacts DEF PinsInv, TypeOK, CardsSound, SoundChips
<1>3. HandlesInOrder'
  BY <1>1, UnpowerEffect, MovedFacts DEF PinsInv, TypeOK, HandlesInOrder, Bounds
<1>4. EntryStands'
  BY <1>1, UnpowerEffect DEF PinsInv, EntryStands, StandsBehind
<1> QED
  BY <1>1, <1>2, <1>3, <1>4, UnpowerEffect DEF PinsInv, QualifiedIsEntered, HeldIsGood

\* A reconnection gives a handle no context has seen.
LEMMA ReconnectsKeeps ==
  ASSUME PinsInv, NEW x \in Contexts, NEW c \in Cards, Reconnects(x, c)
  PROVE  PinsInv'
<1>1. /\ Moved /\ handle' = [handle EXCEPT ![x] = @ + 1] /\ reach' = [reach EXCEPT ![x] = c]
      /\ UNCHANGED <<card, pinOf, ctx, held, rejected, entered, unentered>>
  BY DEF Reconnects, cacheVars, history
<1>2. \A y \in Contexts : /\ handle'[y] \in Nat /\ handle'[y] <= counts'["moves"]
                          /\ handle'[y] \in 0..MaxFaults
                          /\ ctx[y].tx <= handle'[y]
  BY <1>1, MovedFacts, MinidriverAssumption DEF PinsInv, TypeOK, HandlesInOrder, ContextStates, Bounds
<1>3. TypeOK'
  BY <1>1, <1>2, MovedFacts DEF PinsInv, TypeOK
<1>4. HandlesInOrder'
  BY <1>1, <1>2, MovedFacts DEF HandlesInOrder
<1>5. EntryStands'
  <2> SUFFICES ASSUME NEW y \in Contexts
               PROVE  StandsBehind(y, ctx[y], entered)'
    BY DEF EntryStands
  <2>1. CASE y = x
    <3>1. ctx[x].tx <= handle[x] /\ handle'[x] = handle[x] + 1 /\ handle[x] \in Nat /\ ctx[x].tx \in Nat
      BY <1>1, CallFinds DEF PinsInv, TypeOK, ContextStates
    <3> QED
      BY <1>1, <2>1, <3>1 DEF StandsBehind
  <2>2. CASE y # x
    BY <1>1, <2>2 DEF PinsInv, TypeOK, EntryStands, StandsBehind
  <2> QED
    BY <2>1, <2>2
<1> QED
  BY <1>1, <1>3, <1>4, <1>5 DEF PinsInv, CardsSound, QualifiedIsEntered, HeldIsGood

\* What other programs present and change stays in the card.
LEMMA OthersKeep ==
  ASSUME PinsInv, NEW c \in Cards, NEW s \in PinSlots, NEW p \in Pins,
         OtherPresents(c, s, p) \/ OtherChanges(c, s, p)
  PROVE  PinsInv'
<1>1. /\ Foreign /\ UNCHANGED <<handle, reach, ctx, held, rejected, entered, unentered>>
      /\ pinOf' = pinOf \/ pinOf' = [pinOf EXCEPT ![c][s] = p]
  BY DEF OtherPresents, OtherChanges, cacheVars, history
<1>2. CardsSound'
  <2>1. Verified(card[c], s, p = pinOf[c][s]) \in SoundChips /\ PinSet(card[c], s) \in SoundChips
    BY UnspentChip, VerifiedSound, PinSetSound DEF Comparison, FlooredCredentials
  <2> QED
    BY <2>1 DEF OtherPresents, OtherChanges, PinsInv, CardsSound
<1>3. TypeOK'
  <2>1. pinOf' \in [Cards -> [PinSlots -> Pins]]
    BY <1>1 DEF PinsInv, TypeOK
  <2> QED
    BY <1>1, <1>2, <2>1, MovedFacts DEF PinsInv, TypeOK, CardsSound, SoundChips
<1>4. HandlesInOrder'
  BY <1>1, MovedFacts DEF PinsInv, TypeOK, HandlesInOrder, Bounds
<1>5. EntryStands'
  BY <1>1 DEF PinsInv, EntryStands, StandsBehind
<1> QED
  BY <1>1, <1>2, <1>3, <1>4, <1>5 DEF PinsInv, QualifiedIsEntered, HeldIsGood

-----------------------------------------------------------------------------
(* The theorems.                                                             *)

\* The states the process starts in.
LEMMA InitInv == Init => PinsInv
<1> SUFFICES ASSUME Init PROVE PinsInv
  OBVIOUS
<1>1. card \in [Cards -> SoundChips]
  BY MinidriverAssumption DEF Init, SoundChips
<1>2. Closed \in ContextStates /\ Closed.tx = 0 /\ Closed.authenticated = {}
  BY MinidriverAssumption DEF Closed, ContextStates
<1>3. counts \in [Bounds -> Nat] /\ counts["moves"] = 0 /\ counts["lost"] = 0 /\ MaxFaults \in Nat
  BY MinidriverAssumption DEF Init, Bounds
<1>4. pinOf \in [Cards -> [PinSlots -> Pins]]
  <2>1. (CHOOSE p \in Pins : TRUE) \in Pins
    BY MinidriverAssumption
  <2> QED
    BY <2>1 DEF Init
<1>5. TypeOK
  BY <1>1, <1>2, <1>3, <1>4 DEF Init, TypeOK, SoundChips
<1>6. HandlesInOrder
  BY <1>2, <1>3 DEF Init, HandlesInOrder
<1>7. EntryStands
  BY <1>2 DEF Init, EntryStands, StandsBehind
<1> QED
  BY <1>1, <1>5, <1>6, <1>7 DEF Init, PinsInv, CardsSound, QualifiedIsEntered, HeldIsGood

\* The environment keeps the invariant, and its steps count no call.
LEMMA EnvironmentKeeps ==
  ASSUME PinsInv, Environment
  PROVE  PinsInv' /\ ~Calls
<1>1. PinsInv'
  BY LosesPower, ReconnectsKeeps, OthersKeep DEF Environment
<1>2. Moved \/ Foreign
  BY DEF Environment, Reset, Leaves, Reconnects, OtherPresents, OtherChanges
<1> QED
  BY <1>1, <1>2, MovedFacts DEF Calls

\* Every step keeps the invariant.
LEMMA StepKeeps ==
  ASSUME PinsInv, [Next]_vars
  PROVE  PinsInv'
<1>1. CASE Environment
  BY <1>1, EnvironmentKeeps
<1>2. ASSUME NEW x \in Contexts, Call(x)
      PROVE  PinsInv'
  BY <1>2, CallHasEffect, EffectKeepsInv
<1>3. CASE UNCHANGED vars
  BY <1>3 DEF vars, cacheVars, history, PinsInv, TypeOK, CardsSound, HandlesInOrder, EntryStands,
              StandsBehind, QualifiedIsEntered, HeldIsGood
<1> QED
  BY <1>1, <1>2, <1>3 DEF Next

\* The inductive invariant holds of every behaviour.
LEMMA InvHolds == Spec => []PinsInv
BY InitInv, StepKeeps, PTL DEF Spec

\* The state keeps its type: the handles, contexts, cache and counters of every
\* behaviour, for every number of faults.
THEOREM TypeCorrect == Spec => []TypeOK
<1>1. PinsInv => TypeOK
  BY DEF PinsInv
<1> QED
  BY <1>1, InvHolds, PTL

\* Every qualified signature of CardSignData comes after an entry of PIN 2 that
\* is its own: the proof carries that a context at its present handle that
\* takes PIN 2 for authenticated has such an entry on the card it reaches.
THEOREM QualifiedSignatureEntered == Spec => []QualifiedIsEntered
<1>1. PinsInv => QualifiedIsEntered
  BY DEF PinsInv
<1> QED
  BY <1>1, InvHolds, PTL

\* The PIN 1 that the process holds is never one it has seen its card reject.
THEOREM HeldNeverRejected == Spec => []HeldIsGood
<1>1. PinsInv => HeldIsGood
  BY DEF PinsInv
<1> QED
  BY <1>1, InvHolds, PTL

\* What a call spends.
LEMMA StepFrugal ==
  ASSUME PinsInv, [Next]_vars, Calls
  PROVE  \E lost \in BOOLEAN : Frugal(lost) /\ (lost => counts'["lost"] # counts["lost"])
<1>1. ~UNCHANGED vars
  BY DEF Calls, vars
<1>2. ~Environment
  BY EnvironmentKeeps
<1>3. PICK x \in Contexts : Call(x)
  BY <1>1, <1>2 DEF Next
<1> QED
  BY <1>3, CallHasEffect, EffectIsFrugal

\* No call of the process spends one of the last two tries of PIN 1, PIN 2 or
\* the PUK, whatever other programs spent between the calls.
THEOREM CallsKeepFloor == Spec => FloorKept
<1> DEFINE Kept == Calls => \A c \in Cards, s \in FlooredCredentials : Spent(c, s) => card'[c].tries[s] >= 2
<1>1. PinsInv /\ [Next]_vars => [Kept]_vars
  BY StepFrugal DEF Frugal
<1> QED
  BY <1>1, InvHolds, PTL DEF Spec, FloorKept

\* A PIN value the process has seen a card reject costs that card no second
\* try: a try is spent on a value new to the process, or its answer was lost.
THEOREM RejectedCostsOnce == Spec => RejectedOnce
<1> DEFINE Learns == Calls => \A c \in Cards, s \in PinSlots : Spent(c, s) =>
                       \/ \E p \in Pins : <<c, s, p>> \in rejected' \ rejected
                       \/ counts'["lost"] # counts["lost"]
<1>1. PinsInv /\ [Next]_vars => [Learns]_vars
  BY StepFrugal DEF Frugal, FlooredCredentials
<1> QED
  BY <1>1, InvHolds, PTL DEF Spec, RejectedOnce

-----------------------------------------------------------------------------
(* The counters move as CardTries promises.                                  *)

\* The abstract specification's credentials are these.
LEMMA TriesNames ==
  /\ Tries!FlooredCredentials = FlooredCredentials /\ Tries!PinSlots = PinSlots
  /\ Tries!RetriesPristine = RetriesPristine
BY DEF Tries!FlooredCredentials, FlooredCredentials, Tries!PinSlots, PinSlots,
       Tries!RetriesPristine, RetriesPristine

\* A step that keeps every counter and counts no other program is none of the
\* abstract specification's.
LEMMA TriesStutter ==
  ASSUME counts'["other"] = counts["other"], \A c \in Cards : card'[c].tries = card[c].tries
  PROVE  UNCHANGED Tries!vars
BY DEF Tries!vars

\* One card changes, and its counters with it.
LEMMA TriesOf ==
  ASSUME CardsSound, NEW c \in Cards, NEW chip \in SoundChips, card' = [card EXCEPT ![c] = chip]
  PROVE  [d \in Cards |-> card'[d].tries] = [[d \in Cards |-> card[d].tries] EXCEPT ![c] = chip.tries]
BY DEF CardsSound

\* What a command may do to one chip is a step of the promise.
LEMMA PromisedStep ==
  ASSUME CardsSound, NEW c \in Cards, NEW chip \in SoundChips, Promised(card[c], chip),
         card' = [card EXCEPT ![c] = chip], counts'["other"] = counts["other"]
  PROVE  [Tries!Next]_(Tries!vars)
<1> DEFINE tries == [d \in Cards |-> card[d].tries]
           after == [d \in Cards |-> card'[d].tries]
<1>1. after = [tries EXCEPT ![c] = chip.tries] /\ tries[c] = card[c].tries
  BY TriesOf
<1>2. CASE chip.tries = card[c].tries
  <2>1. \A d \in Cards : card'[d].tries = card[d].tries
    BY <1>2 DEF CardsSound
  <2> QED
    BY <2>1, TriesStutter
<1>3. ASSUME NEW k \in FlooredCredentials, card[c].tries[k] >= 3,
             chip.tries = [card[c].tries EXCEPT ![k] = @ - 1]
      PROVE  Tries!Next
  <2>1. after = [tries EXCEPT ![c][k] = @ - 1]
    BY <1>1, <1>3
  <2>2. Tries!Refused(c, k)
    BY <1>1, <1>3, <2>1 DEF Tries!Refused, Tries!AboveLastTwo
  <2> QED
    BY <2>2, TriesNames DEF Tries!Next
<1>4. ASSUME NEW k \in FlooredCredentials, card[c].tries[k] >= 3,
             chip.tries = [card[c].tries EXCEPT ![k] = RetriesPristine]
      PROVE  Tries!Next
  <2>1. after = [tries EXCEPT ![c][k] = RetriesPristine]
    BY <1>1, <1>4
  <2>2. Tries!Accepted(c, k)
    BY <1>1, <1>4, <2>1, TriesNames DEF Tries!Accepted, Tries!AboveLastTwo
  <2> QED
    BY <2>2, TriesNames DEF Tries!Next
<1>5. ASSUME NEW slot \in PinSlots, card[c].tries["puk"] >= 3,
             chip.tries = [card[c].tries EXCEPT !["puk"] = RetriesPristine, ![slot] = RetriesPristine]
      PROVE  Tries!Next
  <2>1. after = [tries EXCEPT ![c]["puk"] = RetriesPristine, ![c][slot] = RetriesPristine]
    BY <1>1, <1>5
  <2>2. Tries!Restored(c, slot)
    BY <1>1, <1>5, <2>1, TriesNames DEF Tries!Restored, Tries!AboveLastTwo
  <2> QED
    BY <2>2, TriesNames DEF Tries!Next
<1> QED
  BY <1>2, <1>3, <1>4, <1>5 DEF Promised

\* A call of the process.
LEMMA CallPromised ==
  ASSUME PinsInv, NEW x \in Contexts, NEW lost, CallEffect(x, lost)
  PROVE  [Tries!Next]_(Tries!vars)
<1>1. counts'["other"] = counts["other"] /\ CardsSound
  BY DEF CallEffect, CountsKept, PinsInv
<1>2. CASE card' = card
  BY <1>1, <1>2, TriesStutter
<1>3. ASSUME NEW c \in Cards, NEW chip \in SoundChips, ChipSpent(c, chip, rejected', lost),
             card' = [card EXCEPT ![c] = chip]
      PROVE  [Tries!Next]_(Tries!vars)
  BY <1>1, <1>3, PromisedStep DEF ChipSpent
<1> QED
  BY <1>2, <1>3 DEF CallEffect

\* What another program does is a step of its own; a card that comes or goes is
\* none.
LEMMA EnvironmentPromised ==
  ASSUME PinsInv, Environment
  PROVE  [Tries!Next]_(Tries!vars)
<1>1. CardsSound /\ counts \in [Bounds -> Nat]
  BY DEF PinsInv, TypeOK
<1>2. Moved => counts'["other"] = counts["other"]
  BY <1>1 DEF Moved, Counting, Bounds
<1>3. ASSUME NEW c \in Cards, Reset(c) \/ Leaves(c)
      PROVE  UNCHANGED Tries!vars
  <2>1. Moved /\ card' = [card EXCEPT ![c] = Unpowered(card[c])]
    BY <1>3 DEF Reset, Leaves, Unpower
  <2>2. \A d \in Cards : card'[d].tries = card[d].tries
    BY <1>1, <2>1, SelectedSound DEF CardsSound
  <2> QED
    BY <1>2, <2>1, <2>2, TriesStutter
<1>4. ASSUME NEW x \in Contexts, NEW c \in Cards, Reconnects(x, c)
      PROVE  UNCHANGED Tries!vars
  BY <1>2, <1>4, TriesStutter DEF Reconnects
<1>5. ASSUME NEW c \in Cards, NEW s \in PinSlots, NEW p \in Pins,
             OtherPresents(c, s, p) \/ OtherChanges(c, s, p)
      PROVE  Tries!Next
  <2>1. counts'["other"] = counts["other"] + 1
    BY <1>1, <1>5 DEF OtherPresents, OtherChanges, Foreign, Counting, Bounds
  <2>2. PICK chip \in SoundChips : card' = [card EXCEPT ![c] = chip]
    <3>1. card[c] \in SoundChips /\ s \in FlooredCredentials
      BY <1>1 DEF CardsSound, FlooredCredentials
    <3>2. Verified(card[c], s, p = pinOf[c][s]) \in SoundChips /\ PinSet(card[c], s) \in SoundChips
      BY <3>1, VerifiedSound, PinSetSound DEF Comparison
    <3> QED
      BY <1>5, <3>2 DEF OtherPresents, OtherChanges
  <2>3. [d \in Cards |-> card'[d].tries] = [[d \in Cards |-> card[d].tries] EXCEPT ![c] = chip.tries]
    BY <1>1, <2>2, TriesOf
  <2>4. chip.tries \in [FlooredCredentials -> 0..RetriesPristine]
    BY DEF SoundChips, Chips
  <2>5. Tries!Foreign(c)
    BY <2>1, <2>3, <2>4, TriesNames DEF Tries!Foreign
  <2> QED
    BY <2>5 DEF Tries!Next
<1> QED
  BY <1>3, <1>4, <1>5 DEF Environment

\* Every step of the contexts, the cache and the world is one that CardTries
\* promises: from any counters, the process presents codes only from three tries
\* up, and brings a blocked PIN back only with the PUK.
THEOREM CallsKeepTries == Spec => KeepsTries
<1>1. PinsInv /\ Init => Tries!Init
  <2>1. PinsInv => /\ [c \in Cards |-> card[c].tries] \in [Cards -> [FlooredCredentials -> 0..RetriesPristine]]
                   /\ counts["other"] \in Nat
    BY DEF PinsInv, CardsSound, SoundChips, Chips, TypeOK, Bounds
  <2> QED
    BY <2>1, TriesNames DEF Tries!Init
<1>2. PinsInv /\ [Next]_vars => [Tries!Next]_(Tries!vars)
  <2>1. CASE UNCHANGED vars
    BY <2>1, TriesStutter DEF vars
  <2> QED
    BY <2>1, EnvironmentPromised, CallHasEffect, CallPromised DEF Next
<1> QED
  BY <1>1, <1>2, InitInv, InvHolds, PTL DEF Spec, KeepsTries, Tries!Spec

=============================================================================
