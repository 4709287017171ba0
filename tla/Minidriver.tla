----------------------------- MODULE Minidriver -----------------------------
(* The card module (crates/refineid-minidriver/src/lib.rs) in one process:    *)
(* the contexts the Base CSP acquires, their authentication state, and the    *)
(* process-wide PIN safety cache they share.                                  *)
(*                                                                            *)
(* The Base CSP calls an entry point inside a PC/SC transaction, so that a    *)
(* call is one step; between calls other programs use and reset the card, the *)
(* card leaves, and the Base CSP reconnects, keeping the card handle or       *)
(* passing another.  A context on a contactless reader talks through the      *)
(* secure channel its last PACE run made, which a reset of the card ends.     *)
(* The answer to a command the card has carried out may be lost: the call     *)
(* ends without it, and a secure channel with it, since the counters of its   *)
(* two ends no longer agree.                                                  *)
EXTENDS PinCache

CONSTANTS
  Contexts,     \* the contexts of the process
  NoCard,       \* a card handle that reaches no card
  Initially,    \* Initially[c]: the states card c may start in
  Contactless,  \* the cards reached over a contactless reader
  MaxCalls,     \* bound: calls that present a PIN or the PUK, and signatures
  MaxOther,     \* bound: codes other programs present, and changes they make
  MaxFaults     \* bound: resets, removals, reconnections and lost answers

ASSUME MinidriverAssumption ==
  /\ NoCard \notin Cards /\ Contactless \subseteq Cards /\ Pins # {}
  /\ \A c \in Cards : Initially[c] \subseteq {chip \in Chips : VerifiedIsFull(chip)}
  /\ \A n \in {MaxCalls, MaxOther, MaxFaults} : n \in Nat

VARIABLES
  card,      \* card[c]: the state of each card
  pinOf,     \* pinOf[c][s]: the value of its PIN s
  handle,    \* handle[x]: hScard of a context's CARD_DATA
  reach,     \* reach[x]: the card that handle reaches
  ctx,       \* ctx[x]: the context
  held,      \* the held PIN 1: no entry or one
  rejected,  \* <<card, slot, value>> the process has seen rejected
  entered,   \* history: <<context, card>> where PIN 2 was entered and not used since
  unentered, \* history: <<context, card>> of qualified signatures no entry stands behind
  counts     \* counts against the bounds

cacheVars == <<held, rejected>>
history == <<entered, unentered>>
vars == <<card, pinOf, handle, reach, ctx, cacheVars, history, counts>>

Bounds == {"calls", "other", "moves", "lost"}

\* tx: the handle the transport uses; channel: plain, or the secure channel,
\* alive or ended; authenticated: pin1_authenticated and pin2_authenticated.
ContextStates ==
  [open : BOOLEAN, tx : 0..MaxFaults, channel : {"plain", "alive", "ended"},
   authenticated : SUBSET PinSlots]

Closed == [open |-> FALSE, tx |-> 0, channel |-> "plain", authenticated |-> {}]

TypeOK ==
  /\ card \in [Cards -> Chips] /\ pinOf \in [Cards -> [PinSlots -> Pins]]
  /\ handle \in [Contexts -> 0..MaxFaults] /\ reach \in [Contexts -> Cards \cup {NoCard}]
  /\ ctx \in [Contexts -> ContextStates]
  /\ held \subseteq HeldPins /\ rejected \subseteq Cards \X PinSlots \X Pins
  /\ entered \subseteq Contexts \X Cards /\ unentered \subseteq Contexts \X Cards
  /\ counts \in [Bounds -> Nat]

Init ==
  /\ card \in [Cards -> UNION {Initially[c] : c \in Cards}]
  /\ \A c \in Cards : card[c] \in Initially[c]
  /\ pinOf = [c \in Cards |-> [s \in PinSlots |-> CHOOSE p \in Pins : TRUE]]
  /\ handle = [x \in Contexts |-> 0] /\ reach \in {[x \in Contexts |-> c] : c \in Cards}
  /\ ctx = [x \in Contexts |-> Closed]
  /\ held = {} /\ rejected = {} /\ entered = {} /\ unentered = {}
  /\ counts = [b \in Bounds |-> 0]

Counting(b) == counts' = [counts EXCEPT ![b] = @ + 1]
Faulty == counts["moves"] + counts["lost"] < MaxFaults
Moved == Faulty /\ Counting("moves")
Foreign == counts["other"] < MaxOther /\ Counting("other")

\* A call that may lose an answer.
CountedCall(lost) ==
  /\ counts["calls"] < MaxCalls /\ (lost => Faulty)
  /\ counts' = [counts EXCEPT !["calls"] = @ + 1, !["lost"] = IF lost THEN @ + 1 ELSE @]

-----------------------------------------------------------------------------
(* The card, the Base CSP and other programs.                                *)

\* A card in a reader: one in none is unpowered and has no other user here.
InReader(c) == \E x \in Contexts : reach[x] = c

\* A card that loses power ends what was verified and every secure channel to
\* it.
Unpower(c) ==
  /\ card' = [card EXCEPT ![c] = Unpowered(@)]
  /\ ctx' = [x \in Contexts |->
               IF reach[x] = c /\ ctx[x].channel = "alive"
               THEN [ctx[x] EXCEPT !.channel = "ended"] ELSE ctx[x]]

Reset(c) ==
  /\ Moved /\ InReader(c) /\ Unpower(c)
  /\ UNCHANGED <<pinOf, handle, reach, cacheVars, history>>

Leaves(c) ==
  /\ Moved /\ InReader(c) /\ Unpower(c)
  /\ reach' = [x \in Contexts |-> IF reach[x] = c THEN NoCard ELSE reach[x]]
  /\ UNCHANGED <<pinOf, handle, cacheVars, history>>

\* The Base CSP connects a context's CARD_DATA to a card, with a handle that
\* was not used before.
Reconnects(x, c) ==
  /\ Moved /\ reach[x] = NoCard
  /\ handle' = [handle EXCEPT ![x] = @ + 1] /\ reach' = [reach EXCEPT ![x] = c]
  /\ UNCHANGED <<card, pinOf, ctx, cacheVars, history>>

OtherPresents(c, s, p) ==
  /\ Foreign /\ InReader(c)
  /\ card' = [card EXCEPT ![c] = Verified(@, s, p = pinOf[c][s])]
  /\ UNCHANGED <<pinOf, handle, reach, ctx, cacheVars, history>>

OtherChanges(c, s, p) ==
  /\ Foreign /\ InReader(c) /\ p # pinOf[c][s]
  /\ card' = [card EXCEPT ![c] = PinSet(@, s)] /\ pinOf' = [pinOf EXCEPT ![c][s] = p]
  /\ UNCHANGED <<handle, reach, ctx, cacheVars, history>>

-----------------------------------------------------------------------------
(* Contexts.                                                                 *)

\* CardAcquireContext: the certificates are read plainly, or through PACE.
Acquire(x) ==
  /\ ~ctx[x].open /\ reach[x] # NoCard
  /\ ctx' = [ctx EXCEPT ![x] = [open |-> TRUE, tx |-> handle[x], authenticated |-> {},
               channel |-> IF reach[x] \in Contactless THEN "alive" ELSE "plain"]]
  /\ card' = [card EXCEPT ![reach[x]] = Selected(@)]
  /\ UNCHANGED <<pinOf, handle, reach, cacheVars, history, counts>>

CardDeleteContext(x) ==
  /\ ctx[x].open /\ ctx' = [ctx EXCEPT ![x] = Closed]
  /\ UNCHANGED <<card, pinOf, handle, reach, cacheVars, history, counts>>

\* Mutant: what was authenticated outlives the handle.
FlagsKept(cx, h, paced) ==
  IF cx.tx = h THEN cx
  ELSE [cx EXCEPT !.tx = h, !.channel = IF @ = "plain" THEN @ ELSE IF paced THEN "alive" ELSE "ended"]

\* sync_transport_handle; paced: the PACE run of a protected transport passes.
\* The new handle stays when it does not.
Synced(cx, h, paced) ==
  IF cx.tx = h THEN cx
  ELSE [cx EXCEPT !.tx = h, !.authenticated = {},
                  !.channel = IF @ = "plain" THEN @ ELSE IF paced THEN "alive" ELSE "ended"]

SyncFails(cx, h, paced) == cx.tx # h /\ cx.channel # "plain" /\ ~paced

\* PACE needs the card.
Pacing(x, paced) == paced => reach[x] # NoCard

\* Commands of the context's transport arrive.
Reaches(x, cx) == cx.tx = handle[x] /\ reach[x] # NoCard /\ cx.channel # "ended"

\* The outcome of a call: the context, the cache and the card it leaves.
Leaving(x, cx, pins, known, c, chip) ==
  /\ ctx' = [ctx EXCEPT ![x] = cx] /\ held' = pins /\ rejected' = known
  /\ card' = IF c = NoCard THEN card ELSE [card EXCEPT ![c] = chip]

\* reset_card_state.
Forgotten(cx) == [cx EXCEPT !.authenticated = {}]

\* The secure channel after a command: wrap and unwrap each step the counter,
\* and the second step needs the answer.
AfterCommand(cx, lost) ==
  IF lost /\ cx.channel = "alive" THEN [cx EXCEPT !.channel = "ended"] ELSE cx

\* Mutant: a held PIN 1 survives the card's refusal.
Uncleared(pins) == pins

\* clear_pin_state's part of the cache.
Cleared(pins) == {}

-----------------------------------------------------------------------------
(* CardAuthenticatePin and CardAuthenticateEx.                               *)

\* A right PIN: pin1_authenticated and the held PIN, or pin2_authenticated.
Authenticated(x, cx, s, p, status, chip) ==
  /\ Leaving(x, [cx EXCEPT !.authenticated = {s}],
             IF s = "pin1" /\ <<reach[x], s, p>> \notin rejected
             THEN {Holding(reach[x], p, status)} ELSE {},
             rejected, reach[x], chip)
  /\ entered' = IF s = "pin2" THEN entered \cup {<<x, reach[x]>>} ELSE entered
  /\ UNCHANGED unentered

\* The entry clears what is held, whatever comes of it; a PACE run that fails
\* ends the call before that.  A lost answer leaves nothing authenticated.
Authenticate(x, s, p, paced, lost) ==
  LET cx     == Synced(ctx[x], handle[x], paced)
      c      == reach[x]
      chip   == Selected(card[c])
      status == PinStatus(chip, s)
      answer == Answer(chip, s, p = pinOf[c][s])
      after  == Verified(chip, s, p = pinOf[c][s])
      synced == ~SyncFails(ctx[x], handle[x], paced)
      sent   == synced /\ Reaches(x, cx) /\ ServedByFloor(s, status) /\ <<c, s, p>> \notin rejected
  IN  /\ ctx[x].open /\ Pacing(x, paced) /\ (lost => sent) /\ CountedCall(lost)
      /\ CASE ~synced -> Leaving(x, cx, held, rejected, NoCard, card) /\ UNCHANGED history
           [] synced /\ ~Reaches(x, cx) ->
                Leaving(x, Forgotten(cx), Cleared(held), rejected, NoCard, card) /\ UNCHANGED history
           [] synced /\ Reaches(x, cx) /\ ~sent ->
                Leaving(x, Forgotten(cx), Cleared(held), rejected, c, chip) /\ UNCHANGED history
           [] OTHER ->
                IF answer = "ok" /\ ~lost THEN Authenticated(x, cx, s, p, status, after)
                ELSE /\ Leaving(x, Forgotten(AfterCommand(cx, lost)), Cleared(held),
                                IF answer = "wrong" /\ ~lost THEN rejected \cup {<<c, s, p>>} ELSE rejected,
                                c, after)
                     /\ UNCHANGED history
      /\ UNCHANGED <<pinOf, handle, reach>>

\* CardDeauthenticate and CardDeauthenticateEx.
Deauthenticate(x) ==
  /\ ctx[x].open /\ ctx' = [ctx EXCEPT ![x] = Forgotten(@)]
  /\ UNCHANGED <<card, pinOf, handle, reach, cacheVars, history, counts>>

-----------------------------------------------------------------------------
(* CardSignData and CardRSADecrypt.                                          *)

HeldPin == CHOOSE e \in held : TRUE

\* reverify_cached_pin for PIN 1: the status, the floor, the checkout and the
\* VERIFY.  pass: the key may be used.  A lost answer is not a refusal: the PIN
\* goes back, one-shot or not.
Reverified(x, cx, lost) ==
  LET c      == reach[x]
      chip   == Selected(card[c])
      status == PinStatus(chip, "pin1")
      e      == HeldPin
      right  == e.pin = pinOf[c]["pin1"]
      answer == Answer(chip, "pin1", right)
      after  == Verified(chip, "pin1", right)
      sent   == /\ ServedByFloor("pin1", status) /\ held # {}
                /\ Fits(e, c, status) /\ <<c, "pin1", e.pin>> \notin rejected
      Gives(pass, cy, pins, known, left) ==
        [sent |-> sent, pass |-> pass, cx |-> cy, held |-> pins, rejected |-> known, chip |-> left]
  IN  CASE ~ServedByFloor("pin1", status) -> Gives(FALSE, Forgotten(cx), Cleared(held), rejected, chip)
        [] ServedByFloor("pin1", status) /\ held = {} -> Gives(FALSE, cx, {}, rejected, chip)
        [] OTHER ->
             IF ~Fits(e, c, status) THEN Gives(FALSE, cx, {}, rejected, chip)
             ELSE IF <<c, "pin1", e.pin>> \in rejected THEN Gives(FALSE, Forgotten(cx), Cleared(held), rejected, chip)
             ELSE IF lost THEN Gives(FALSE, Forgotten(AfterCommand(cx, lost)), held, rejected, after)
             ELSE IF answer = "ok"
             THEN Gives(TRUE, [cx EXCEPT !.authenticated = @ \cup {"pin1"}],
                        IF e.once THEN {} ELSE held, rejected, after)
             ELSE Gives(FALSE, Forgotten(cx), Cleared(held),
                        IF answer = "wrong" THEN rejected \cup {<<c, "pin1", e.pin>>} ELSE rejected,
                        after)

\* PIN 1 is reported authenticated while a PIN 1 is held, whoever entered it.
MaySign(cx, s) == \/ s \in cx.authenticated
                  \/ s = "pin1" /\ held # {}

\* lost: the command whose answer is lost, if any.
Losses == {"none", "verify", "use"}

\* The use of a key whose answer is lost or bad forgets what was authenticated.
AfterUse(cx, lost) == IF lost THEN Forgotten(AfterCommand(cx, lost)) ELSE cx

\* Sign with the authentication key: PIN 1 is verified anew for every use.
SignsWithPin1(x, cx, lost) ==
  LET r == Reverified(x, cx, lost = "verify")
  IN  /\ lost = "verify" => r.sent
      /\ lost = "use" => r.pass
      /\ Leaving(x, AfterUse(r.cx, lost = "use"), r.held, r.rejected, reach[x], r.chip)
      /\ UNCHANGED history

\* spend_pin2.
Pin2Spent(cx) == [cx EXCEPT !.authenticated = @ \ {"pin2"}]

\* Sign with the qualified key: the card wants PIN 2 verified and takes it for
\* one signature; a failure forgets what was authenticated.
SignsWithPin2(x, cx, lost) ==
  LET c == reach[x]
  IN  /\ lost # "verify" /\ (lost = "use" => "pin2" \in card[c].verified)
      /\ IF "pin2" \in card[c].verified
         THEN /\ Leaving(x, AfterUse(Pin2Spent(cx), lost = "use"), held, rejected, c,
                         [card[c] EXCEPT !.verified = @ \ {"pin2"}])
              /\ entered' = entered \ {<<x, c>>}
              /\ unentered' = unentered \cup ({<<x, c>>} \ entered)
         ELSE Leaving(x, Forgotten(cx), held, rejected, c, card[c]) /\ UNCHANGED history

\* A failed PACE run is not the call's answer here: it goes on.
CardSignData(x, s, paced, lost) ==
  LET cx == Synced(ctx[x], handle[x], paced)
  IN  /\ ctx[x].open /\ Pacing(x, paced) /\ CountedCall(lost # "none")
      /\ lost # "none" => MaySign(cx, s) /\ Reaches(x, cx)
      /\ CASE ~MaySign(cx, s) -> Leaving(x, cx, held, rejected, NoCard, card) /\ UNCHANGED history
           [] MaySign(cx, s) /\ ~Reaches(x, cx) ->
                Leaving(x, Forgotten(cx), held, rejected, NoCard, card) /\ UNCHANGED history
           [] OTHER -> IF s = "pin1" THEN SignsWithPin1(x, cx, lost) ELSE SignsWithPin2(x, cx, lost)
      /\ UNCHANGED <<pinOf, handle, reach>>

\* CardRSADecrypt does not look at the handle.
CardRSADecrypt(x, lost) ==
  /\ ctx[x].open /\ CountedCall(lost # "none")
  /\ lost # "none" => Reaches(x, ctx[x])
  /\ IF Reaches(x, ctx[x]) THEN SignsWithPin1(x, ctx[x], lost)
     ELSE Leaving(x, Forgotten(ctx[x]), held, rejected, NoCard, card) /\ UNCHANGED history
  /\ UNCHANGED <<pinOf, handle, reach>>

-----------------------------------------------------------------------------
(* CardUnblockPin, CardChangeAuthenticator and CardChangeAuthenticatorEx:     *)
(* they clear what is held first, and do not look at the handle.              *)

Unblock(x, s, right, new, lost) ==
  LET c      == reach[x]
      chip   == Selected(card[c])
      sent   == Reaches(x, ctx[x]) /\ ServedByFloor("puk", PukStatus(chip))
      set    == sent /\ Answer(chip, "puk", right) = "ok"
  IN  /\ ctx[x].open /\ (lost => sent) /\ CountedCall(lost)
      /\ Leaving(x, Forgotten(AfterCommand(ctx[x], lost)), Cleared(held), rejected,
                 IF Reaches(x, ctx[x]) THEN c ELSE NoCard,
                 IF sent THEN PinReset(chip, s, right) ELSE chip)
      /\ pinOf' = IF set THEN [pinOf EXCEPT ![c][s] = new] ELSE pinOf
      /\ UNCHANGED <<handle, reach, history>>

\* Mutant: the rejection memory is not asked.
NeverRefused(c, s, current, new) == FALSE

\* A current value the card rejected is not sent, and a new one is not set.
RefusedChange(c, s, current, new) == <<c, s, current>> \in rejected \/ <<c, s, new>> \in rejected

Change(x, s, current, new, lost) ==
  LET c      == reach[x]
      chip   == Selected(card[c])
      right  == current = pinOf[c][s]
      sent   == /\ Reaches(x, ctx[x]) /\ ServedByFloor(s, PinStatus(chip, s))
                /\ ~RefusedChange(c, s, current, new)
      answer == Answer(chip, s, right)
  IN  /\ ctx[x].open /\ (lost => sent) /\ CountedCall(lost)
      /\ Leaving(x, Forgotten(AfterCommand(ctx[x], lost)), Cleared(held),
                 IF sent /\ answer = "wrong" /\ ~lost THEN rejected \cup {<<c, s, current>>} ELSE rejected,
                 IF Reaches(x, ctx[x]) THEN c ELSE NoCard,
                 IF sent THEN PinChanged(chip, s, right) ELSE chip)
      /\ pinOf' = IF sent /\ answer = "ok" THEN [pinOf EXCEPT ![c][s] = new] ELSE pinOf
      /\ UNCHANGED <<handle, reach, history>>

Call(x) ==
  \/ Acquire(x) \/ CardDeleteContext(x) \/ Deauthenticate(x)
  \/ \E lost \in Losses :
       \/ CardRSADecrypt(x, lost)
       \/ \E s \in PinSlots, paced \in BOOLEAN : CardSignData(x, s, paced, lost)
  \/ \E s \in PinSlots, p \in Pins, lost \in BOOLEAN :
       \/ \E paced \in BOOLEAN : Authenticate(x, s, p, paced, lost)
       \/ \E right \in BOOLEAN : Unblock(x, s, right, p, lost)
       \/ \E new \in Pins : Change(x, s, p, new, lost)

Environment ==
  \/ \E c \in Cards : Reset(c) \/ Leaves(c)
  \/ \E x \in Contexts, c \in Cards : Reconnects(x, c)
  \/ \E c \in Cards, s \in PinSlots, p \in Pins : OtherPresents(c, s, p) \/ OtherChanges(c, s, p)

Next == Environment \/ \E x \in Contexts : Call(x)

Spec == Init /\ [][Next]_vars

-----------------------------------------------------------------------------
(* Properties.                                                               *)

\* The process's own steps are the ones that count a call.
Calls == counts'["calls"] # counts["calls"]

Spent(c, s) == card'[c].tries[s] < card[c].tries[s]

\* No call spends one of the last two tries of a credential, whatever other
\* programs and other contexts spent before it.
FloorKept ==
  [][Calls => \A c \in Cards, s \in FlooredCredentials : Spent(c, s) => card'[c].tries[s] >= 2]_vars

Tries == INSTANCE CardTries WITH tries <- [c \in Cards |-> card[c].tries], others <- counts["other"]

\* Whatever the contexts, the held PIN and the secure channels do, the cards'
\* counters move as the floor promises: the process presents a code only from
\* three tries up, and a blocked PIN comes back only with the PUK.
KeepsTries == Tries!Spec

\* A PIN value this process has seen a card reject costs that card no second
\* try: every call that spends a try teaches the process a value it did not
\* know, through entry, change and the use of the held PIN alike, or it lost
\* the card's answer and so never saw it reject that value.
RejectedOnce ==
  [][Calls => \A c \in Cards, s \in PinSlots : Spent(c, s) =>
       \/ \E p \in Pins : <<c, s, p>> \in rejected' \ rejected
       \/ counts'["lost"] # counts["lost"]]_vars

\* Every qualified signature of a context comes after an entry of PIN 2 in that
\* context, on that card, that no earlier signature has used: not the entry of
\* another context or program, nor one made before the card was swapped.
QualifiedIsEntered == unentered = {}

\* The PIN 1 held for all contexts is no value its card has rejected, whichever
\* context entered it, presented it or lost the answer to it.
HeldIsGood == \A e \in held : <<e.card, "pin1", e.pin>> \notin rejected

=============================================================================
