------------------------ MODULE CardManager_proofs ------------------------
(* Theorems about PIN change, unblocking and activation, for any cards,       *)
(* callers and bounds: what binds an operation to its card holds for any      *)
(* number of tools, what relies on a counter read before holds for a tool     *)
(* that nobody disturbs.                                                      *)
EXTENDS CardManager, CardChip_proofs

\* One tool, and no other program's command inside its operations.
Alone == ~Interleaved /\ \A t, u \in Tools : t = u

\* An operation o of a tool whose connection is l: where it has a connection
\* the reader holds the card it expects, and only the window may expect
\* another card than was shown.  It has spent no try while it goes on.
SoundOp(o, l) ==
  /\ o \in Ops /\ l \in {"none", "live", "dead"}
  /\ o.at \in {"judge", "floor", "present", "reset"} <=> l # "none"
  /\ o.at \notin {"floor", "present", "reset"} => o.left = {}
  /\ o.at # "idle" => o.entered \in Entries(o.kind)
  /\ o.at = "inspect" => o.caller = "window"
  /\ o.caller = "settings" => o.expected = o.typed
  /\ o.spent = 0
  /\ l = "live" => reader = o.expected /\ reader \in Cards

CardsSound == card \in [Cards -> SoundChips]

CountsTyped == ops \in 0..MaxOps /\ others \in 0..MaxOther /\ lost \in 0..MaxLost

\* What holds whoever else uses the card.
ToolInv ==
  /\ CardsSound /\ reader \in Cards \cup {NoCard}
  /\ shown \in [Tools -> Cards \cup {NoCard}] /\ result \in [Tools -> Returned]
  /\ DOMAIN op = Tools /\ DOMAIN link = Tools
  /\ op = [t \in Tools |-> op[t]] /\ link = [t \in Tools |-> link[t]]
  /\ \A t \in Tools : SoundOp(op[t], link[t])
  /\ CountsTyped

\* A code about to be presented spends none of the last two tries.
FloorAhead ==
  \A t \in Tools : op[t].at = "present" /\ link[t] = "live" =>
    card[reader].tries[Presented(t)] \notin {1, 2}

\* What a tool has read of its card still holds, when nobody disturbs it.
ReadingsHold == FloorAhead /\ UsedPinKept

-----------------------------------------------------------------------------
(* Steps of a tool.                                                          *)

\* A tool's step keeps what holds of every tool when it does of this one.
LEMMA ToolStep ==
  ASSUME ToolInv, NEW t \in Tools, NEW o, NEW l, SoundOp(o, l), op' = [op EXCEPT ![t] = o],
         link' = [link EXCEPT ![t] = l], reader' = reader, CardsSound', CountsTyped',
         shown' \in [Tools -> Cards \cup {NoCard}], result' \in [Tools -> Returned]
  PROVE  ToolInv'
<1>1. \A u \in Tools : SoundOp(op'[u], link'[u])
  BY DEF ToolInv
<1>2. \A u \in Tools : SoundOp(op[u], link[u])'
  BY <1>1 DEF SoundOp
<1> QED
  BY <1>2 DEF ToolInv

\* The same when the connection is left alone.
LEMMA ToolGoesOn ==
  ASSUME ToolInv, NEW t \in Tools, NEW o, SoundOp(o, link[t]), op' = [op EXCEPT ![t] = o],
         UNCHANGED <<link, result, reader, shown>>, CardsSound', CountsTyped'
  PROVE  ToolInv'
<1>1. link' = [link EXCEPT ![t] = link[t]]
  BY DEF ToolInv
<1> QED
  BY <1>1, ToolStep DEF ToolInv

\* An operation that returned.
LEMMA IdleSound == SoundOp(Idle, "none")
BY DEF SoundOp, Idle, Ops, Points, Kinds, Codes

\* An operation that returns.
LEMMA EndsStep ==
  ASSUME ToolInv, NEW t \in Tools, NEW what \in Results, NEW about \in SUBSET PinSlots, Ends(t, what, about),
         UNCHANGED <<reader, shown>>, CardsSound', CountsTyped'
  PROVE  ToolInv' /\ link'[t] = "none"
<1>1. op[t].expected \in Cards \cup {NoCard}
  BY DEF ToolInv, SoundOp, Ops
<1>2. result' \in [Tools -> Returned]
  BY <1>1 DEF Ends, ToolInv, Returned
<1> QED
  BY <1>2, IdleSound, ToolStep DEF Ends, ToolInv

\* SELECT keeps the cards sound.
LEMMA SelectKeeps ==
  ASSUME CardsSound, NEW c \in Cards
  PROVE  [card EXCEPT ![c] = Selected(card[c])] \in [Cards -> SoundChips]
BY SelectedSound DEF CardsSound

\* The counts of a step that counts nothing.
LEMMA CountsKept ==
  ASSUME ToolInv, UNCHANGED counts
  PROVE  CountsTyped'
BY DEF ToolInv, CountsTyped, counts

\* The card comes and goes, and other programs use it.
LEMMA EnvironmentKeeps ==
  ASSUME ToolInv,
         \/ \E c \in Cards : Insert(c)
         \/ Remove
         \/ \E x \in FlooredCredentials, right \in BOOLEAN : OtherPresents(x, right)
  PROVE  ToolInv'
<1>1. ASSUME NEW c \in Cards, Insert(c)
      PROVE  ToolInv'
  <2>1. \A t \in Tools : SoundOp(op[t], link[t])'
    BY <1>1, CardManagerAssumption DEF Insert, ToolInv, SoundOp
  <2> QED
    BY <1>1, <2>1 DEF Insert, ToolInv, CardsSound, CountsTyped, counts
<1>2. CASE Remove
  <2>1. \A t \in Tools : SoundOp(op[t], link[t])'
    BY <1>2 DEF Remove, ToolInv, SoundOp
  <2>2. CardsSound'
    BY <1>2, SelectedSound DEF Remove, ToolInv, CardsSound
  <2>3. link' = [t \in Tools |-> link'[t]] /\ DOMAIN link' = Tools
    BY <1>2 DEF Remove
  <2> QED
    BY <1>2, <2>1, <2>2, <2>3 DEF Remove, ToolInv, CountsTyped, counts
<1>3. ASSUME NEW x \in FlooredCredentials, NEW right \in BOOLEAN, OtherPresents(x, right)
      PROVE  ToolInv'
  <2>1. reader \in Cards /\ card[reader] \in SoundChips
    BY <1>3 DEF OtherPresents, ToolInv, CardsSound
  <2>2. Verified(card[reader], x, right) \in SoundChips
    BY <2>1, VerifiedSound DEF Comparison
  <2>3. CardsSound'
    BY <1>3, <2>1, <2>2 DEF OtherPresents, ToolInv, CardsSound
  <2>4. CountsTyped'
    BY <1>3, CardManagerAssumption DEF OtherPresents, ToolInv, CountsTyped
  <2> QED
    BY <1>3, <2>3, <2>4 DEF OtherPresents, ToolInv, SoundOp
<1> QED
  BY <1>1, <1>2, <1>3

\* A tool shows a card, or its user calls an operation on it.
LEMMA BeginsKeeps ==
  ASSUME ToolInv, NEW t \in Tools, Inspect(t) \/ Begins(t)
  PROVE  ToolInv'
<1>1. CASE Inspect(t)
  <2>1. CardsSound'
    BY <1>1, SelectKeeps DEF Inspect, ToolInv, CardsSound
  <2> QED
    BY <1>1, <2>1 DEF Inspect, ToolInv, SoundOp, CountsTyped, counts
<1>2. ASSUME NEW caller \in Callers, NEW kind \in Kinds, NEW entered \in SUBSET PinSlots, NEW code \in Codes,
             Begin(t, caller, kind, entered, code)
      PROVE  ToolInv'
  <2> DEFINE o == [Idle EXCEPT !.at = FirstPoint(caller), !.kind = kind, !.caller = caller,
                     !.entered = entered, !.code = code, !.typed = shown[t], !.expected = shown[t]]
  <2>1. /\ o.at = FirstPoint(caller) /\ o.kind = kind /\ o.caller = caller /\ o.entered = entered
        /\ o.typed = shown[t] /\ o.expected = shown[t] /\ o.left = {} /\ o.spent = 0
    BY DEF Idle
  <2>2. /\ caller \in {"settings", "window"} /\ shown[t] \in Cards \cup {NoCard}
        /\ FirstPoint(caller) \in {"inspect", "bind"} /\ (FirstPoint(caller) = "inspect" => caller = "window")
        /\ entered \in Entries(kind)
    BY <1>2, CardManagerAssumption DEF ToolInv, FirstPoint, Begin
  <2>3. o \in Ops
    <3>1. Idle \in Ops
      BY IdleSound DEF SoundOp
    <3> QED
      BY <2>2, <3>1 DEF Ops, Points
  <2>4. link[t] = "none"
    BY <1>2 DEF Begin, ToolInv, SoundOp
  <2> HIDE DEF o
  <2>5. SoundOp(o, link[t])
    BY <2>1, <2>2, <2>3, <2>4 DEF SoundOp
  <2>6. op' = [op EXCEPT ![t] = o] /\ link' = [link EXCEPT ![t] = link[t]]
    BY <1>2 DEF Begin, ToolInv, o
  <2>7. result' \in [Tools -> Returned]
    BY <1>2 DEF Begin, ToolInv, Returned, Nothing, Results
  <2>8. CountsTyped' /\ CardsSound' /\ reader' = reader /\ shown' = shown
    BY <1>2, CardManagerAssumption DEF Begin, ToolInv, CountsTyped, CardsSound
  <2> QED
    BY <2>5, <2>6, <2>7, <2>8, ToolStep DEF ToolInv
<1> QED
  BY <1>1, <1>2 DEF Begins

\* The window looks once more, and an operation binds to the card it expects.
LEMMA BindKeeps ==
  ASSUME ToolInv, NEW t \in Tools, Reinspect(t) \/ Bind(t)
  PROVE  ToolInv' /\ link'[t] = "none"
<1> DEFINE o == op[t]
<1>1. /\ o \in Ops /\ SoundOp(o, link[t]) /\ link[t] = "none" /\ o.at \in {"inspect", "bind"}
      /\ UNCHANGED <<reader, shown, counts>>
  BY DEF Reinspect, Bind, ToolInv, SoundOp
<1>2. CountsTyped' /\ CardsSound'
  BY <1>1, CountsKept, SelectKeeps DEF Reinspect, Bind, ToolInv, CardsSound, Ends
<1>3. {} \in SUBSET PinSlots /\ "revoked" \in Results /\ "length" \in Results
  BY DEF Results
<1>4. CASE Ends(t, "revoked", {}) \/ Ends(t, "length", {})
  BY <1>1, <1>2, <1>3, <1>4, EndsStep
<1>5. CASE Reinspect(t) /\ op' = [op EXCEPT ![t].at = "bind", ![t].expected = reader] /\ UNCHANGED <<link, result>>
           /\ reader \in Cards
  <2> DEFINE n == [o EXCEPT !.at = "bind", !.expected = reader]
  <2>1. op' = [op EXCEPT ![t] = n]
    BY <1>5 DEF ToolInv
  <2>2. o.caller = "window"
    BY <1>1, <1>5 DEF Reinspect, SoundOp
  <2>3. SoundOp(n, link[t])
    BY <1>1, <1>5, <2>2 DEF SoundOp, Ops, Points
  <2> HIDE DEF n
  <2> QED
    BY <1>1, <1>2, <1>5, <2>1, <2>3, ToolGoesOn
<1>6. CASE Bind(t) /\ Goes(t, "open") /\ UNCHANGED <<link, result>>
  <2> DEFINE n == [o EXCEPT !.at = "open"]
  <2>1. op' = [op EXCEPT ![t] = n]
    BY <1>6 DEF ToolInv, Goes
  <2>2. o.at = "bind"
    BY <1>6 DEF Bind
  <2>3. SoundOp(n, link[t])
    BY <1>1, <2>2 DEF SoundOp, Ops, Points
  <2> HIDE DEF n
  <2> QED
    BY <1>1, <1>2, <1>6, <2>1, <2>3, ToolGoesOn
<1> QED
  BY <1>4, <1>5, <1>6 DEF Reinspect, Bind, ToolInv

\* The operation opens the card again, and has its connection only to the card
\* it expects.
LEMMA OpenKeeps ==
  ASSUME ToolInv, NEW t \in Tools, Open(t)
  PROVE  /\ ToolInv' /\ (link'[t] # "none" => op'[t].at = "judge" /\ op'[t].left = {})
<1> DEFINE o == op[t]
           n == [o EXCEPT !.at = "judge"]
<1>1. /\ o \in Ops /\ SoundOp(o, link[t]) /\ link[t] = "none" /\ o.at = "open"
      /\ UNCHANGED <<reader, shown, counts>>
  BY DEF Open, ToolInv, SoundOp
<1>2. CountsTyped' /\ CardsSound'
  BY <1>1, CountsKept, SelectKeeps DEF Open, ToolInv, CardsSound, Ends
<1>3. CASE Ends(t, "revoked", {})
  BY <1>1, <1>2, <1>3, EndsStep DEF Results
<1>4. CASE ~(reader = NoCard \/ ~SameSerial(op[t].expected, reader))
  <2>1. /\ op' = [op EXCEPT ![t] = n] /\ link' = [link EXCEPT ![t] = "live"] /\ UNCHANGED result
        /\ reader = o.expected /\ reader \in Cards
    BY <1>4 DEF Open, ToolInv, Goes, SameSerial
  <2>2. SoundOp(n, "live") /\ n.at = "judge" /\ n.left = {}
    BY <1>1, <2>1 DEF SoundOp, Ops, Points
  <2> HIDE DEF n
  <2>3. ToolInv'
    BY <1>1, <1>2, <2>1, <2>2, ToolStep DEF ToolInv
  <2> QED
    BY <2>1, <2>2, <2>3 DEF ToolInv
<1> QED
  BY <1>3, <1>4 DEF Open

\* A live connection is to the card the operation expects.
LEMMA LiveFinds ==
  ASSUME ToolInv, NEW t \in Tools, link[t] = "live"
  PROVE  /\ reader \in Cards /\ reader = op[t].expected /\ card[reader] \in SoundChips
         /\ op[t] \in Ops /\ SoundOp(op[t], link[t]) /\ Target(t) \in PinSlots
         /\ op[t].at \in {"judge", "floor", "present", "reset"}
         /\ Target(t) \in FlooredCredentials /\ Presented(t) \in FlooredCredentials /\ CodeIsRight(t) \in BOOLEAN
BY DEF ToolInv, SoundOp, CardsSound, Target, PinSlots, FlooredCredentials, Presented, CodeIsRight

\* An operation that goes on with other PINs to set, on the same connection.
LEMMA GoesOnSound ==
  ASSUME ToolInv, NEW t \in Tools, link[t] = "live", NEW point \in {"floor", "present", "reset"},
         NEW left \in SUBSET PinSlots
  PROVE  SoundOp([op[t] EXCEPT !.at = point, !.left = left], link[t])
<1> DEFINE n == [op[t] EXCEPT !.at = point, !.left = left]
<1>1. op[t] \in Ops /\ SoundOp(op[t], link[t]) /\ op[t].at # "idle"
  BY LiveFinds
<1>2. n \in Ops
  BY <1>1 DEF Ops, Points
<1>3. /\ n.at = point /\ n.left = left /\ n.entered = op[t].entered /\ n.kind = op[t].kind
      /\ n.caller = op[t].caller /\ n.expected = op[t].expected /\ n.typed = op[t].typed
      /\ n.spent = op[t].spent
  BY <1>1 DEF Ops
<1> HIDE DEF n
<1>4. SoundOp(n, link[t])
  BY <1>1, <1>2, <1>3 DEF SoundOp
<1> QED
  BY <1>4 DEF n

-----------------------------------------------------------------------------
(* The judgement and the floor.                                              *)

\* Where a judgement leads: the operation ends, or goes on with the PINs it is
\* to set and every counter as it was.
Judged(t, point, left) ==
  /\ op' = [op EXCEPT ![t] = [op[t] EXCEPT !.at = point, !.left = left]]
  /\ card' \in {card, [card EXCEPT ![reader] = Selected(card[reader])]}
  /\ UNCHANGED <<link, result>>

JudgeEnds(t) ==
  \E what \in Results, about \in SUBSET PinSlots : Ends(t, what, about) /\ UNCHANGED card

\* A change goes on past the floor, an unblocking to it.
LEMMA JudgeManagedLeads ==
  ASSUME ToolInv, NEW t \in Tools, link[t] = "live", op[t].at = "judge", op[t].kind \in {"change", "unblock"},
         JudgeManaged(t)
  PROVE  \/ JudgeEnds(t)
         \/ \E slot \in PinSlots :
              \/ op[t].kind = "unblock" /\ Judged(t, "floor", {slot})
              \/ /\ op[t].kind = "change" /\ Judged(t, "present", {slot})
                 /\ ServedByFloor(slot, PinStatus(card[reader], slot))
<1> DEFINE slot == CHOOSE s \in op[t].entered : TRUE
<1>1. slot \in PinSlots
  <2>1. op[t].entered \in Entries(op[t].kind)
    BY LiveFinds DEF SoundOp
  <2>2. PICK s \in PinSlots : op[t].entered = {s}
    BY <2>1 DEF Entries
  <2> QED
    BY <2>2
<1>2. op[t] \in Ops /\ op = [u \in Tools |-> op[u]]
  BY LiveFinds DEF ToolInv
<1> HIDE DEF slot
<1>3. \A point : op' = [op EXCEPT ![t].at = point, ![t].left = {slot}] =>
                 op' = [op EXCEPT ![t] = [op[t] EXCEPT !.at = point, !.left = {slot}]]
  BY <1>2
<1>4. \/ Ends(t, "unactivated", {slot}) /\ UNCHANGED card
      \/ Ends(t, "floor", {slot}) /\ UNCHANGED card
      \/ /\ op[t].kind = "unblock" /\ op' = [op EXCEPT ![t].at = "floor", ![t].left = {slot}]
         /\ card' = [card EXCEPT ![reader] = Selected(@)] /\ UNCHANGED <<link, result>>
      \/ /\ op[t].kind = "change" /\ ServedByFloor(slot, PinStatus(card[reader], slot))
         /\ op' = [op EXCEPT ![t].at = "present", ![t].left = {slot}]
         /\ card' = [card EXCEPT ![reader] = Selected(@)] /\ UNCHANGED <<link, result>>
  BY DEF JudgeManaged, slot
<1>5. "unactivated" \in Results /\ "floor" \in Results /\ {slot} \in SUBSET PinSlots
  BY <1>1 DEF Results
<1> QED
  BY <1>1, <1>3, <1>4, <1>5 DEF JudgeEnds, Judged

\* An activation that is not forced goes on with the PINs that await it.
LEMMA JudgeActivationLeads ==
  ASSUME ToolInv, NEW t \in Tools, link[t] = "live", op[t].at = "judge",
         op[t].kind \notin {"change", "unblock"}, JudgeActivation(t)
  PROVE  \/ JudgeEnds(t)
         \/ \E left \in SUBSET PinSlots :
              /\ Judged(t, "floor", left)
              /\ op[t].kind = "activate" => left = Awaiting(card[reader])
<1> DEFINE awaiting == Awaiting(card[reader])
<1>1. awaiting \in SUBSET PinSlots /\ op[t].entered \in SUBSET PinSlots /\ op[t].kind \in {"activate", "reactivate"}
  BY LiveFinds DEF Awaiting, Ops, Kinds
<1>2. op[t] \in Ops /\ op = [u \in Tools |-> op[u]]
  BY LiveFinds DEF ToolInv
<1>3. op' = [op EXCEPT ![t].at = "floor", ![t].left = op[t].entered] =>
      op' = [op EXCEPT ![t] = [op[t] EXCEPT !.at = "floor", !.left = op[t].entered]]
  BY <1>2
<1>4. \/ Ends(t, "already_activated", {}) /\ UNCHANGED card
      \/ Ends(t, "mismatch", awaiting) /\ UNCHANGED card
      \/ /\ TargetsFit(op[t].kind, op[t].entered, awaiting)
         /\ op' = [op EXCEPT ![t].at = "floor", ![t].left = op[t].entered]
         /\ card' = [card EXCEPT ![reader] = Selected(@)] /\ UNCHANGED <<link, result>>
  BY DEF JudgeActivation
<1>5. "already_activated" \in Results /\ "mismatch" \in Results /\ {} \in SUBSET PinSlots
  BY DEF Results
<1> HIDE DEF awaiting
<1>6. TargetsFit(op[t].kind, op[t].entered, awaiting) =>
        (op[t].kind = "activate" => op[t].entered = awaiting)
  BY DEF TargetsFit
<1> QED
  BY <1>1, <1>3, <1>4, <1>5, <1>6 DEF JudgeEnds, Judged, awaiting

\* A PIN that awaits its activation is one the holder has not set, or one that
\* is blocked.
LEMMA AwaitingIsUnused ==
  ASSUME NEW chip \in SoundChips, NEW slot \in Awaiting(chip)
  PROVE  slot \in PinSlots /\ (slot \in chip.fresh \/ chip.tries[slot] = 0)
<1>1. slot \in PinSlots /\ AwaitsActivation(chip, slot)
  BY DEF Awaiting
<1>2. CASE slot \in chip.profile.flagged
  BY <1>1, <1>2 DEF AwaitsActivation
<1>3. CASE slot \notin chip.profile.flagged
  <2>1. PinStatus(chip, slot) = "fallen"
    BY <1>1, <1>3 DEF AwaitsActivation
  <2>2. chip.tries[slot] \in 0..RetriesPristine
    BY <1>1 DEF SoundChips, Chips, FlooredCredentials
  <2>3. PinStatus(chip, slot) = Risk(chip.tries[slot])
    BY <2>1 DEF PinStatus
  <2> QED
    BY <1>1, <2>1, <2>2, <2>3, RiskFacts
<1> QED
  BY <1>2, <1>3

\* A judgement keeps what holds of every tool.
LEMMA JudgeKeeps ==
  ASSUME ToolInv, NEW t \in Tools, Judge(t)
  PROVE  ToolInv'
<1>1. op[t].at = "judge" /\ link[t] = "live" /\ UNCHANGED <<reader, shown, counts>> /\ CountsTyped'
  BY CountsKept DEF Judge
<1>2. CASE JudgeEnds(t)
  <2>1. CardsSound'
    BY <1>2 DEF JudgeEnds, ToolInv, CardsSound
  <2> QED
    BY <1>1, <1>2, <2>1, EndsStep DEF JudgeEnds
<1>3. ASSUME NEW point \in {"floor", "present"}, NEW left \in SUBSET PinSlots, Judged(t, point, left)
      PROVE  ToolInv'
  <2>1. CardsSound'
    BY <1>1, <1>3, LiveFinds, SelectKeeps DEF Judged, ToolInv, CardsSound
  <2> QED
    BY <1>1, <1>3, <2>1, GoesOnSound, ToolGoesOn DEF Judged
<1>4. \A slot \in PinSlots : {slot} \in SUBSET PinSlots
  OBVIOUS
<1>5. CASE op[t].kind \in {"change", "unblock"}
  BY <1>1, <1>2, <1>3, <1>4, <1>5, JudgeManagedLeads DEF Judge
<1>6. CASE op[t].kind \notin {"change", "unblock"}
  BY <1>1, <1>2, <1>3, <1>6, JudgeActivationLeads DEF Judge
<1> QED
  BY <1>5, <1>6

\* The counter is read once more.
LEMMA FloorKeeps ==
  ASSUME ToolInv, NEW t \in Tools, Floor(t)
  PROVE  ToolInv'
<1>1. /\ op[t].at = "floor" /\ link[t] = "live" /\ UNCHANGED <<card, reader, shown, counts>>
      /\ CountsTyped' /\ CardsSound'
  BY CountsKept DEF Floor, ToolInv, CardsSound
<1>2. CASE Served(t)
  <2>1. op' = [op EXCEPT ![t] = [op[t] EXCEPT !.at = "present", !.left = op[t].left]] /\ UNCHANGED <<link, result>>
    BY <1>1, <1>2, LiveFinds DEF Floor, Goes, ToolInv, Ops
  <2>2. op[t].left \in SUBSET PinSlots
    BY <1>1, LiveFinds DEF Ops
  <2> QED
    BY <1>1, <2>1, <2>2, GoesOnSound, ToolGoesOn
<1>3. CASE ~Served(t)
  <2>1. (IF AsCurrentPin(t) THEN {Target(t)} ELSE {}) \in SUBSET PinSlots /\ "floor" \in Results
    BY <1>1, LiveFinds DEF Results
  <2> QED
    BY <1>1, <1>3, <2>1, EndsStep DEF Floor
<1> QED
  BY <1>2, <1>3

-----------------------------------------------------------------------------
(* The code at the card.                                                     *)

Heard(t) == Answer(card[reader], Presented(t), CodeIsRight(t))

\* What presenting the code of t may make of the card: only a wrong code
\* spends a try, one of the credential presented, and the PINs other than the
\* one being set are left alone.
PresentedWell(t, after) ==
  /\ after \in SoundChips
  /\ \A x \in FlooredCredentials : after.tries[x] < card[reader].tries[x] =>
       x = Presented(t) /\ Heard(t) = "wrong" /\ after.tries[x] = card[reader].tries[x] - 1
  /\ \A s \in PinSlots \ {Target(t)} : SamePin(card[reader], after, s)
  /\ TwoCommands(t) => SamePin(card[reader], after, Target(t))

\* The three commands that present a code.
LEMMA AfterPresentWell ==
  ASSUME ToolInv, NEW t \in Tools, link[t] = "live"
  PROVE  PresentedWell(t, AfterPresent(t))
<1> DEFINE chip == card[reader]
           right == CodeIsRight(t)
           slot == Target(t)
<1>1. /\ chip \in SoundChips /\ slot \in PinSlots /\ right \in BOOLEAN
      /\ slot \in FlooredCredentials /\ "puk" \in FlooredCredentials
      /\ \A x \in FlooredCredentials : chip.tries[x] \in Nat
      /\ \A x \in FlooredCredentials : x = "puk" \/ x \in PinSlots
  BY LiveFinds DEF FlooredCredentials, PinSlots, SoundChips, Chips
<1>2. CASE TwoCommands(t)
  <2>1. AfterPresent(t) = Verified(chip, "puk", right) /\ Presented(t) = "puk"
    BY <1>2 DEF AfterPresent, TwoCommands, Presented
  <2>2. Comparison(chip, Verified(chip, "puk", right), "puk", right)
    BY <1>1, VerifiedSound
  <2>3. \A s \in PinSlots : SamePin(chip, Verified(chip, "puk", right), s)
    BY <1>1, PinsLeftAlone
  <2> DEFINE after == Verified(chip, "puk", right)
  <2> HIDE DEF after
  <2>4. \A x \in FlooredCredentials : after.tries[x] \in Nat
    BY <2>2 DEF Comparison, SoundChips, Chips, after
  <2> QED
    BY <1>1, <2>1, <2>2, <2>3, <2>4 DEF Comparison, PresentedWell, Heard, after
<1>3. CASE ~TwoCommands(t) /\ AsCurrentPin(t)
  <2>1. AfterPresent(t) = PinChanged(chip, slot, right) /\ Presented(t) = slot
    BY <1>3 DEF AfterPresent, Presented
  <2>2. Comparison(chip, PinChanged(chip, slot, right), slot, right)
    BY <1>1, PinChangedSound
  <2>3. \A s \in PinSlots \ {slot} : SamePin(chip, PinChanged(chip, slot, right), s)
    BY <1>1, OtherPinLeftAlone
  <2> DEFINE after == PinChanged(chip, slot, right)
  <2> HIDE DEF after
  <2>4. \A x \in FlooredCredentials : after.tries[x] \in Nat
    BY <2>2 DEF Comparison, SoundChips, Chips, after
  <2> QED
    BY <1>1, <1>3, <2>1, <2>2, <2>3, <2>4 DEF Comparison, PresentedWell, Heard, after
<1>4. CASE ~TwoCommands(t) /\ ~AsCurrentPin(t)
  <2>1. AfterPresent(t) = PinReset(chip, slot, right) /\ Presented(t) = "puk"
    BY <1>4 DEF AfterPresent, Presented
  <2>2. /\ PinReset(chip, slot, right) \in SoundChips
        /\ \A j \in PinSlots : PinReset(chip, slot, right).tries[j] >= chip.tries[j]
        /\ Answer(chip, "puk", right) = "wrong" =>
              PinReset(chip, slot, right).tries["puk"] = chip.tries["puk"] - 1
        /\ Answer(chip, "puk", right) # "wrong" =>
              PinReset(chip, slot, right).tries["puk"] >= chip.tries["puk"]
    BY <1>1, PinResetSound
  <2>3. \A s \in PinSlots \ {slot} : SamePin(chip, PinReset(chip, slot, right), s)
    BY <1>1, OtherPinLeftAlone
  <2> DEFINE after == PinReset(chip, slot, right)
  <2> HIDE DEF after
  <2>4. \A x \in FlooredCredentials : after.tries[x] \in Nat
    BY <2>2 DEF SoundChips, Chips, after
  <2> QED
    BY <1>1, <1>4, <2>1, <2>2, <2>3, <2>4 DEF PresentedWell, Heard, after
<1> QED
  BY <1>2, <1>3, <1>4

\* A PIN that is set, by its own command or after a wait.
LEMMA SelectedWell ==
  ASSUME ToolInv, NEW t \in Tools, link[t] = "live"
  PROVE  PresentedWell(t, Selected(AfterPresent(t)))
<1> DEFINE after == AfterPresent(t)
<1>1. PresentedWell(t, after)
  BY AfterPresentWell
<1> HIDE DEF after
<1>2. after \in SoundChips /\ card[reader] \in SoundChips
  BY <1>1, LiveFinds DEF PresentedWell
<1>3. /\ Selected(after) \in SoundChips /\ Selected(after).tries = after.tries
      /\ Selected(after).fresh = after.fresh
  BY <1>2, SelectedSound DEF Selected, SoundChips, Chips
<1> QED
  BY <1>1, <1>3 DEF PresentedWell, SamePin, after

\* Where a PIN that is done leads: the operation ends, or goes on with the
\* other one and no try spent.
LEMMA SlotDoneKeeps ==
  ASSUME ToolInv, NEW t \in Tools, link[t] = "live", NEW answer \in Results, SlotDone(t, answer),
         answer = "ok" => Spends(t) = 0, UNCHANGED <<reader, shown>>, CardsSound', CountsTyped'
  PROVE  /\ ToolInv'
         /\ \/ link'[t] = "none"
            \/ op'[t].at = "floor" /\ op'[t].kind = op[t].kind /\ op'[t].left = op[t].left \ {Target(t)}
<1>1. /\ op[t] \in Ops /\ op[t].spent = 0 /\ Target(t) \in PinSlots /\ op = [u \in Tools |-> op[u]]
      /\ SoundOp(op[t], link[t]) /\ op[t].at # "idle" /\ op[t].left \ {Target(t)} \in SUBSET PinSlots
  BY LiveFinds DEF ToolInv, SoundOp, Ops
<1>2. CASE ContinuesAfter(answer) /\ op[t].left # {Target(t)}
  <2> DEFINE spent == op[t].spent + Spends(t)
             left == op[t].left \ {Target(t)}
             n == [op[t] EXCEPT !.at = "floor", !.left = left, !.spent = spent]
  <2>1. Spends(t) = 0
    BY <1>2 DEF ContinuesAfter
  <2>2. op' = [op EXCEPT ![t] = n] /\ UNCHANGED <<link, result>>
    BY <1>1, <1>2 DEF SlotDone
  <2>3. spent = 0 /\ left \in SUBSET PinSlots
    BY <1>1, <2>1
  <2> HIDE DEF spent, left
  <2>4. n \in Ops
    BY <1>1, <2>3 DEF Ops, Points
  <2>5. /\ n.at = "floor" /\ n.left = left /\ n.entered = op[t].entered /\ n.kind = op[t].kind
        /\ n.caller = op[t].caller /\ n.expected = op[t].expected /\ n.typed = op[t].typed
        /\ n.spent = 0
    BY <1>1, <2>3 DEF Ops
  <2> HIDE DEF n
  <2>6. SoundOp(n, link[t])
    BY <1>1, <2>4, <2>5 DEF SoundOp
  <2>7. ToolInv'
    BY <2>2, <2>6, ToolGoesOn
  <2> QED
    BY <1>1, <2>2, <2>5, <2>7 DEF left
<1>3. CASE ~(ContinuesAfter(answer) /\ op[t].left # {Target(t)})
  <2>1. Ends(t, answer, {Target(t)}) /\ {Target(t)} \in SUBSET PinSlots
    BY <1>1, <1>3 DEF SlotDone
  <2> QED
    BY <2>1, EndsStep
<1> QED
  BY <1>2, <1>3

\* The card answers.
LEMMA PresentKeeps ==
  ASSUME ToolInv, NEW t \in Tools, Present(t)
  PROVE  ToolInv'
<1> DEFINE answer == Heard(t)
<1>1. /\ op[t].at = "present" /\ link[t] = "live" /\ UNCHANGED <<reader, shown, counts>> /\ CountsTyped'
  BY CountsKept DEF Present
<1>2. PICK after : after \in {AfterPresent(t), Selected(AfterPresent(t))} /\ card' = [card EXCEPT ![reader] = after]
  BY DEF Present
<1>3. PresentedWell(t, after)
  BY <1>1, <1>2, AfterPresentWell, SelectedWell
<1>4. CardsSound' /\ card'[reader] = after
  BY <1>1, <1>2, <1>3, LiveFinds DEF PresentedWell, CardsSound, ToolInv
<1>5. answer = "ok" => Spends(t) = 0
  BY <1>1, <1>3, <1>4, LiveFinds DEF PresentedWell, Spends
<1>6. answer \in Results
  BY DEF Heard, Answer, Results
<1>7. CASE TwoCommands(t) /\ answer = "ok"
  <2>1. op' = [op EXCEPT ![t] = [op[t] EXCEPT !.at = "reset", !.left = op[t].left]] /\ UNCHANGED <<link, result>>
    BY <1>1, <1>7, LiveFinds DEF Present, Heard, Goes, ToolInv, Ops
  <2>2. op[t].left \in SUBSET PinSlots
    BY <1>1, LiveFinds DEF Ops
  <2> QED
    BY <1>1, <1>4, <2>1, <2>2, GoesOnSound, ToolGoesOn
<1>8. CASE ~(TwoCommands(t) /\ answer = "ok")
  <2>1. SlotDone(t, answer)
    BY <1>8 DEF Present, Heard
  <2> QED
    BY <1>1, <1>4, <1>5, <1>6, <2>1, SlotDoneKeeps
<1> QED
  BY <1>7, <1>8

\* What a reset without the PUK may make of the card.
ResetWell(t, after) ==
  /\ after \in SoundChips
  /\ \A x \in FlooredCredentials : after.tries[x] >= card[reader].tries[x]
  /\ \A s \in PinSlots \ {Target(t)} : SamePin(card[reader], after, s)

\* A PIN that is set, or not, and a SELECT after it.
LEMMA PinSetWell ==
  ASSUME ToolInv, NEW t \in Tools, link[t] = "live", NEW set \in {card[reader], PinSet(card[reader], Target(t))}
  PROVE  ResetWell(t, set) /\ ResetWell(t, Selected(set))
<1>1. card[reader] \in SoundChips /\ Target(t) \in PinSlots /\ TRUE \in BOOLEAN
  BY LiveFinds
<1>2. \A x \in FlooredCredentials : card[reader].tries[x] \in 0..RetriesPristine
  BY <1>1 DEF SoundChips, Chips
<1>3. ResetWell(t, card[reader])
  BY <1>1, <1>2 DEF ResetWell, SamePin
<1>4. ResetWell(t, PinSet(card[reader], Target(t)))
  <2> DEFINE after == PinSet(card[reader], Target(t))
  <2>1. \A s \in PinSlots \ {Target(t)} : SamePin(card[reader], after, s)
    BY <1>1, OtherPinLeftAlone
  <2>2. /\ after \in SoundChips /\ after.tries[Target(t)] = RetriesPristine
        /\ \A j \in FlooredCredentials \ {Target(t)} : after.tries[j] = card[reader].tries[j]
    BY <1>1, PinSetSound
  <2> HIDE DEF after
  <2>3. RetriesPristine \in Nat
    BY DEF RetriesPristine
  <2> QED
    BY <1>2, <2>1, <2>2, <2>3 DEF ResetWell, after
<1>5. set \in SoundChips /\ ResetWell(t, set)
  BY <1>3, <1>4 DEF ResetWell
<1>6. /\ Selected(set) \in SoundChips /\ Selected(set).tries = set.tries
      /\ Selected(set).fresh = set.fresh
  BY <1>5, SelectedSound DEF Selected, SoundChips, Chips
<1> QED
  BY <1>5, <1>6 DEF ResetWell, SamePin

\* The reset after a verified PUK.
LEMMA ResetOnlyKeeps ==
  ASSUME ToolInv, NEW t \in Tools, ResetOnly(t)
  PROVE  ToolInv'
<1> DEFINE answer == IF "puk" \in card[reader].verified THEN "ok" ELSE "refused"
<1>1. /\ op[t].at = "reset" /\ link[t] = "live" /\ UNCHANGED <<reader, shown, counts>> /\ CountsTyped'
      /\ SlotDone(t, answer)
  BY CountsKept DEF ResetOnly
<1>2. PICK set \in {card[reader], PinSet(card[reader], Target(t))} :
        card' = [card EXCEPT ![reader] = set] \/ card' = [card EXCEPT ![reader] = Selected(set)]
  BY DEF ResetOnly
<1>3. PICK after : card' = [card EXCEPT ![reader] = after] /\ ResetWell(t, after)
  BY <1>1, <1>2, PinSetWell
<1>4. CardsSound' /\ card'[reader] = after
  BY <1>1, <1>3, LiveFinds DEF ResetWell, CardsSound, ToolInv
<1>5. Spends(t) = 0
  <2>1. Presented(t) \in FlooredCredentials /\ card[reader] \in SoundChips
    BY <1>1, LiveFinds
  <2>2. after.tries[Presented(t)] \in Nat /\ card[reader].tries[Presented(t)] \in Nat
    BY <1>3, <2>1 DEF ResetWell, SoundChips, Chips
  <2> QED
    BY <1>3, <1>4, <2>1, <2>2 DEF ResetWell, Spends
<1>6. answer \in Results
  BY DEF Results
<1> HIDE DEF answer
<1> QED
  BY <1>1, <1>4, <1>5, <1>6, SlotDoneKeeps

\* The operation ends without the card's answer.
LEMMA LossKeeps ==
  ASSUME ToolInv, NEW t \in Tools, AnswerLost(t) \/ LinkDead(t)
  PROVE  ToolInv' /\ link'[t] = "none"
<1>1. UNCHANGED <<reader, shown>>
  BY DEF AnswerLost, LinkDead
<1>2. CASE AnswerLost(t)
  <2>1. link[t] = "live" /\ Target(t) \in PinSlots
    BY <1>2, LiveFinds DEF AnswerLost
  <2>2. PICK after : after \in SoundChips /\ card' = [card EXCEPT ![reader] = after]
    BY <1>2, <2>1, AfterPresentWell, PinSetWell DEF AnswerLost, PresentedWell, ResetWell
  <2>3. CardsSound'
    BY <2>1, <2>2, LiveFinds DEF CardsSound, ToolInv
  <2>4. CountsTyped'
    BY <1>2, CardManagerAssumption DEF AnswerLost, ToolInv, CountsTyped
  <2>5. Ends(t, "lost", {Target(t)}) /\ "lost" \in Results /\ {Target(t)} \in SUBSET PinSlots
    BY <1>2, <2>1 DEF AnswerLost, Results
  <2> QED
    BY <1>1, <2>3, <2>4, <2>5, EndsStep
<1>3. CASE LinkDead(t)
  <2>1. CountsTyped' /\ CardsSound'
    BY <1>3, CountsKept DEF LinkDead, ToolInv, CardsSound
  <2>2. \/ Ends(t, "already_activated", {}) \/ Ends(t, "unactivated", op[t].entered) \/ Ends(t, "lost", {})
    BY <1>3 DEF LinkDead
  <2>3. /\ {"already_activated", "unactivated", "lost"} \subseteq Results
        /\ op[t].entered \in SUBSET PinSlots /\ {} \in SUBSET PinSlots
    BY DEF Results, ToolInv, SoundOp, Ops
  <2> QED
    BY <1>1, <2>1, <2>2, <2>3, EndsStep
<1> QED
  BY <1>2, <1>3

\* What binds an operation to its card is inductive.
LEMMA ToolNext ==
  ASSUME ToolInv, [Next]_vars
  PROVE  ToolInv'
<1>1. ASSUME NEW t \in Tools, Step(t)
      PROVE  ToolInv'
  BY <1>1, BeginsKeeps, BindKeeps, OpenKeeps, JudgeKeeps, FloorKeeps, PresentKeeps, ResetOnlyKeeps, LossKeeps
     DEF Step
<1>2. CASE UNCHANGED vars
  BY <1>2 DEF vars, counts, ToolInv, CardsSound, SoundOp, CountsTyped
<1> QED
  BY <1>1, <1>2, EnvironmentKeeps DEF Next

-----------------------------------------------------------------------------
(* Whose step it is, and what it costs.                                      *)

\* A tool's step leaves the operations of the others, and their connections.
LEMMA StepIsOwn ==
  ASSUME ToolInv, NEW t \in Tools, NEW u \in Tools \ {t}, Step(u)
  PROVE  op'[t] = op[t] /\ link'[t] = link[t]
<1>1. CASE Inspect(u) \/ Begins(u) \/ Reinspect(u) \/ Bind(u) \/ Open(u)
  BY <1>1 DEF Inspect, Begins, Begin, Reinspect, Bind, Open, Ends, Goes, ToolInv
<1>2. CASE Judge(u) \/ Floor(u)
  BY <1>2 DEF Judge, JudgeManaged, JudgeActivation, Floor, Ends, Goes, ToolInv
<1>3. CASE Present(u) \/ ResetOnly(u) \/ AnswerLost(u) \/ LinkDead(u)
  BY <1>3 DEF Present, ResetOnly, AnswerLost, LinkDead, SlotDone, Ends, Goes, ToolInv
<1> QED
  BY <1>1, <1>2, <1>3 DEF Step

\* An operation moves by a step of its own tool.
LEMMA ActsIsStep ==
  ASSUME ToolInv, Next, NEW t \in Tools, Acts(t)
  PROVE  Step(t)
<1>1. \A c : ~Insert(c)
  BY DEF Insert, Acts
<1>2. ~Remove /\ \A x, right : ~OtherPresents(x, right)
  BY DEF Remove, OtherPresents, Acts
<1> QED
  BY <1>1, <1>2, StepIsOwn DEF Next, Acts

\* A step of t spends a try only where it presents its code, which is wrong,
\* to the card it is bound to: one try, of the credential presented.
LEMMA StepSpends ==
  ASSUME ToolInv, NEW t \in Tools, Step(t), NEW c \in Cards, NEW x \in FlooredCredentials, Spent(c, x)
  PROVE  /\ op[t].at = "present" /\ link[t] = "live" /\ c = reader /\ x = Presented(t)
         /\ Heard(t) = "wrong" /\ card'[c].tries[x] = card[c].tries[x] - 1
<1>1. card[c] \in SoundChips /\ card[c].tries[x] \in Nat /\ reader \in Cards \cup {NoCard}
  BY DEF ToolInv, CardsSound, SoundChips, Chips
<1>2. ~(card' = card)
  BY <1>1 DEF Spent
<1>3. ~(reader \in Cards /\ card' = [card EXCEPT ![reader] = Selected(card[reader])])
  <2> SUFFICES ASSUME reader \in Cards, card' = [card EXCEPT ![reader] = Selected(card[reader])]
               PROVE  FALSE
    OBVIOUS
  <2>1. c = reader
    BY <1>1 DEF Spent, ToolInv, CardsSound
  <2> QED
    BY <1>1, <2>1, SelectedSound DEF Spent, ToolInv, CardsSound
<1>4. ~(Inspect(t) \/ Begins(t) \/ Reinspect(t) \/ Bind(t) \/ Open(t) \/ Floor(t) \/ LinkDead(t))
  BY <1>1, <1>2, <1>3 DEF Inspect, Begins, Begin, Reinspect, Bind, Open, Floor, LinkDead
<1>5. ~Judge(t)
  <2>1. ~(Judge(t) /\ JudgeEnds(t))
    BY <1>2 DEF JudgeEnds
  <2>2. \A point, left : ~(Judge(t) /\ Judged(t, point, left))
    BY <1>2, <1>3, LiveFinds DEF Judged, Judge
  <2> QED
    BY <2>1, <2>2, JudgeManagedLeads, JudgeActivationLeads DEF Judge
<1>6. ASSUME NEW after, link[t] = "live", card' = [card EXCEPT ![reader] = after], ResetWell(t, after)
      PROVE  FALSE
  <2>1. c = reader /\ card'[reader] = after
    BY <1>1, <1>6, LiveFinds DEF Spent, ToolInv, CardsSound
  <2>2. after.tries[x] \in Nat
    BY <1>6 DEF ResetWell, SoundChips, Chips
  <2> QED
    BY <1>1, <1>6, <2>1, <2>2 DEF ResetWell, Spent
<1>7. ~ResetOnly(t)
  BY <1>6, PinSetWell DEF ResetOnly
<1>8. ASSUME NEW after, link[t] = "live", op[t].at = "present", card' = [card EXCEPT ![reader] = after],
             PresentedWell(t, after)
      PROVE  /\ op[t].at = "present" /\ link[t] = "live" /\ c = reader /\ x = Presented(t)
             /\ Heard(t) = "wrong" /\ card'[c].tries[x] = card[c].tries[x] - 1
  <2>1. c = reader /\ card'[reader] = after
    BY <1>1, <1>8, LiveFinds DEF Spent, ToolInv, CardsSound
  <2> QED
    BY <1>8, <2>1 DEF PresentedWell, Spent
<1>9. CASE Present(t)
  BY <1>8, <1>9, AfterPresentWell, SelectedWell DEF Present
<1>10. CASE AnswerLost(t)
  BY <1>6, <1>8, <1>10, AfterPresentWell, PinSetWell DEF AnswerLost
<1> QED
  BY <1>4, <1>5, <1>7, <1>9, <1>10 DEF Step

\* Where an operation presents a code or sets a PIN, only the card it expects
\* changes.
LEMMA StepReaches ==
  ASSUME ToolInv, NEW t \in Tools, Step(t), op[t].at \in {"present", "reset"}
  PROVE  \A c \in Cards \ {op[t].expected} : card'[c] = card[c]
<1>1. ~(Inspect(t) \/ Begins(t) \/ Reinspect(t) \/ Bind(t) \/ Open(t) \/ Judge(t) \/ Floor(t))
  BY DEF Inspect, Begins, Begin, Reinspect, Bind, Open, Judge, Floor
<1>2. CASE LinkDead(t)
  BY <1>2 DEF LinkDead
<1>3. CASE Present(t) \/ ResetOnly(t) \/ AnswerLost(t)
  <2>1. link[t] = "live"
    BY <1>3 DEF Present, ResetOnly, AnswerLost
  <2>2. PICK after : card' = [card EXCEPT ![reader] = after]
    BY <1>3 DEF Present, ResetOnly, AnswerLost
  <2> QED
    BY <2>1, <2>2, LiveFinds DEF ToolInv, CardsSound
<1> QED
  BY <1>1, <1>2, <1>3 DEF Step

-----------------------------------------------------------------------------
(* Tools that nobody disturbs.                                               *)

\* The part of the invariant that is about one tool.
ReadingHolds(t) ==
  link[t] = "live" =>
    /\ op[t].at = "present" => card[reader].tries[Presented(t)] \notin {1, 2}
    /\ op[t].kind = "activate" =>
         \A s \in op[t].left :
           s \in card[op[t].expected].fresh \/ card[op[t].expected].tries[s] = 0

\* A judgement passes a counter of three or more, and for an activation the
\* PINs that await it.
LEMMA JudgeReads ==
  ASSUME ToolInv, NEW t \in Tools, Judge(t)
  PROVE  ReadingHolds(t)'
<1>1. op[t].at = "judge" /\ link[t] = "live" /\ reader' = reader
  BY DEF Judge
<1>2. /\ reader \in Cards /\ reader = op[t].expected /\ card[reader] \in SoundChips /\ op[t] \in Ops
      /\ DOMAIN op = Tools /\ DOMAIN link = Tools /\ card \in [Cards -> SoundChips]
  BY <1>1, LiveFinds DEF ToolInv, CardsSound
<1>3. CASE JudgeEnds(t)
  BY <1>2, <1>3 DEF JudgeEnds, Ends, ReadingHolds
<1>4. ASSUME NEW point, NEW left, Judged(t, point, left)
      PROVE  /\ op'[t].at = point /\ op'[t].left = left /\ op'[t].kind = op[t].kind
             /\ op'[t].expected = reader
             /\ card'[reader].tries = card[reader].tries /\ card'[reader].fresh = card[reader].fresh
  <2>1. /\ op'[t].at = point /\ op'[t].left = left /\ op'[t].kind = op[t].kind
        /\ op'[t].expected = op[t].expected
    BY <1>2, <1>4 DEF Judged, Ops
  <2>2. card'[reader] = card[reader] \/ card'[reader] = Selected(card[reader])
    BY <1>2, <1>4 DEF Judged
  <2>3. Selected(card[reader]).tries = card[reader].tries /\ Selected(card[reader]).fresh = card[reader].fresh
    BY <1>2 DEF Selected, SoundChips, Chips
  <2> QED
    BY <1>2, <2>1, <2>2, <2>3
<1>5. ASSUME NEW slot \in PinSlots, op[t].kind = "unblock", Judged(t, "floor", {slot})
      PROVE  ReadingHolds(t)'
  BY <1>4, <1>5 DEF ReadingHolds
<1>6. ASSUME NEW slot \in PinSlots, op[t].kind = "change", Judged(t, "present", {slot}),
             ServedByFloor(slot, PinStatus(card[reader], slot))
      PROVE  ReadingHolds(t)'
  <2>1. card[reader].tries[slot] >= 3
    BY <1>2, <1>6, FlooredPin
  <2>2. card[reader].tries[slot] \in Nat
    BY <1>2 DEF SoundChips, Chips, FlooredCredentials
  <2>3. Presented(t)' = slot
    BY <1>4, <1>6 DEF Presented, AsCurrentPin, Target, PinSlots
  <2> QED
    BY <1>1, <1>4, <1>6, <2>1, <2>2, <2>3 DEF ReadingHolds
<1>7. ASSUME NEW left \in SUBSET PinSlots, Judged(t, "floor", left),
             op[t].kind = "activate" => left = Awaiting(card[reader])
      PROVE  ReadingHolds(t)'
  BY <1>1, <1>2, <1>4, <1>7, AwaitingIsUnused DEF ReadingHolds
<1> QED
  BY <1>1, <1>3, <1>5, <1>6, <1>7, JudgeManagedLeads, JudgeActivationLeads DEF Judge

\* The second reading of the counter passes none of the last two tries.
LEMMA FloorReads ==
  ASSUME ToolInv, NEW t \in Tools, ReadingHolds(t), Floor(t)
  PROVE  ReadingHolds(t)'
<1>1. op[t].at = "floor" /\ link[t] = "live" /\ UNCHANGED <<card, reader>>
  BY DEF Floor
<1>2. /\ reader \in Cards /\ card[reader] \in SoundChips /\ op[t] \in Ops
      /\ Target(t) \in PinSlots /\ DOMAIN op = Tools /\ DOMAIN link = Tools
  BY <1>1, LiveFinds DEF ToolInv
<1>3. CASE Served(t)
  <2>1. /\ op'[t].at = "present" /\ op'[t].kind = op[t].kind /\ op'[t].left = op[t].left
        /\ op'[t].expected = op[t].expected
    BY <1>2, <1>3 DEF Floor, Goes, Ops
  <2>2. Presented(t)' = Presented(t)
    BY <1>1, <2>1 DEF Presented, AsCurrentPin, Target
  <2>3. card[reader].tries[Presented(t)] \notin {1, 2}
    <3>1. CASE ~AsCurrentPin(t)
      BY <1>2, <1>3, <3>1, FlooredPuk DEF Served, Presented
    <3>2. CASE AsCurrentPin(t)
      <4> DEFINE slot == Target(t)
      <4>1. ServedToActivate(PinStatus(card[reader], slot)) /\ Presented(t) = slot
        BY <1>3, <3>2 DEF Served, Presented
      <4>2. card[reader].tries[slot] \in 0..RetriesPristine /\ slot \in PinSlots
        BY <1>2 DEF SoundChips, Chips, FlooredCredentials
      <4> HIDE DEF slot
      <4>3. CASE slot \in card[reader].verified
        BY <1>2, <4>1, <4>3 DEF SoundChips, VerifiedIsFull, RetriesPristine
      <4>4. CASE slot \notin card[reader].verified
        <5>1. PinStatus(card[reader], slot) = Risk(card[reader].tries[slot])
          BY <4>1, <4>4 DEF PinStatus, ServedToActivate
        <5> QED
          BY <4>1, <4>2, <5>1, RiskFacts DEF ServedToActivate
      <4> QED
        BY <4>3, <4>4
    <3> QED
      BY <3>1, <3>2
  <2> QED
    BY <1>1, <2>1, <2>2, <2>3 DEF ReadingHolds
<1>4. CASE ~Served(t)
  BY <1>2, <1>4 DEF Floor, Ends, ReadingHolds
<1> QED
  BY <1>3, <1>4

\* A PIN that is set leaves the one still to set as it was found.
LEMMA PresentReads ==
  ASSUME ToolInv, NEW t \in Tools, ReadingHolds(t), Present(t) \/ ResetOnly(t)
  PROVE  ReadingHolds(t)'
<1>1. link[t] = "live" /\ reader' = reader /\ op[t].at \in {"present", "reset"}
  BY DEF Present, ResetOnly
<1>2. /\ reader \in Cards /\ card[reader] \in SoundChips /\ op[t] \in Ops /\ reader = op[t].expected
      /\ DOMAIN op = Tools /\ DOMAIN link = Tools /\ card \in [Cards -> SoundChips]
      /\ op[t].left \in SUBSET PinSlots
  BY <1>1, LiveFinds DEF ToolInv, CardsSound, Ops
<1>3. PICK after : /\ card' = [card EXCEPT ![reader] = after]
                   /\ \A s \in PinSlots \ {Target(t)} : SamePin(card[reader], after, s)
                   /\ Present(t) /\ TwoCommands(t) => SamePin(card[reader], after, Target(t))
  <2>1. CASE Present(t)
    BY <1>1, <2>1, AfterPresentWell, SelectedWell DEF Present, PresentedWell
  <2>2. CASE ResetOnly(t)
    <3>1. ~Present(t)
      BY <2>2 DEF Present, ResetOnly
    <3> QED
      BY <1>1, <2>2, <3>1, PinSetWell DEF ResetOnly, ResetWell
  <2> QED
    BY <2>1, <2>2
<1>4. card'[reader] = after
  BY <1>2, <1>3
<1>5. CASE Present(t) /\ TwoCommands(t) /\ Heard(t) = "ok"
  <2>1. /\ op'[t].at = "reset" /\ op'[t].kind = op[t].kind /\ op'[t].left = op[t].left
        /\ op'[t].expected = op[t].expected /\ link' = link
    BY <1>2, <1>5 DEF Present, Heard, Goes, Ops
  <2> QED
    BY <1>1, <1>2, <1>3, <1>4, <1>5, <2>1 DEF ReadingHolds, SamePin
<1>6. CASE ~(Present(t) /\ TwoCommands(t) /\ Heard(t) = "ok")
  <2>1. PICK answer : SlotDone(t, answer)
    BY <1>6 DEF Present, ResetOnly, Heard
  <2>2. CASE link'[t] = "none"
    BY <2>2 DEF ReadingHolds
  <2>3. CASE link'[t] # "none"
    <3>1. /\ op'[t].at = "floor" /\ op'[t].kind = op[t].kind /\ op'[t].left = op[t].left \ {Target(t)}
          /\ op'[t].expected = op[t].expected /\ link' = link
      BY <1>2, <2>1, <2>3 DEF SlotDone, Ends, Ops
    <3> QED
      BY <1>1, <1>2, <1>3, <1>4, <3>1 DEF ReadingHolds, SamePin
  <2> QED
    BY <2>2, <2>3
<1> QED
  BY <1>5, <1>6

\* No counter that a tool read, and no PIN it found unused, is moved by another
\* before the tool acts on it.
LEMMA OthersRead ==
  ASSUME ToolInv, NEW t \in Tools, ReadingHolds(t), Exclusive, reader' = reader, op'[t] = op[t],
         link'[t] = link[t]
  PROVE  ReadingHolds(t)'
<1> SUFFICES ASSUME link[t] = "live"
             PROVE  ReadingHolds(t)'
  BY DEF ReadingHolds
<1>1. card' = card
  BY DEF Exclusive
<1>2. Presented(t)' = Presented(t)
  BY <1>1 DEF Presented, AsCurrentPin, Target
<1> QED
  BY <1>1, <1>2 DEF ReadingHolds

\* The card comes and goes, and other programs use it between operations.
LEMMA EnvironmentReads ==
  ASSUME ToolInv, ReadingsHold, Exclusive, NEW t \in Tools, ReadingHolds(t),
         \/ \E c \in Cards : Insert(c)
         \/ Remove
         \/ \E x \in FlooredCredentials, right \in BOOLEAN : OtherPresents(x, right)
  PROVE  ReadingHolds(t)'
<1>1. ASSUME NEW c \in Cards, Insert(c)
      PROVE  link'[t] # "live"
  BY <1>1, LiveFinds, CardManagerAssumption DEF Insert
<1>2. CASE Remove
  BY <1>2 DEF Remove, ReadingHolds
<1>3. ASSUME NEW x, NEW right, OtherPresents(x, right)
      PROVE  ReadingHolds(t)'
  BY <1>3, OthersRead DEF OtherPresents
<1> QED
  BY <1>1, <1>2, <1>3 DEF ReadingHolds

\* A step of the tool itself.
LEMMA StepReads ==
  ASSUME ToolInv, NEW t \in Tools, ReadingHolds(t), Step(t)
  PROVE  ReadingHolds(t)'
<1>1. CASE Inspect(t) \/ Begins(t)
  BY <1>1 DEF Inspect, Begins, Begin, ReadingHolds, ToolInv, SoundOp
<1>2. CASE Reinspect(t) \/ Bind(t) \/ AnswerLost(t) \/ LinkDead(t)
  BY <1>2, BindKeeps, LossKeeps DEF ReadingHolds
<1>3. CASE Open(t)
  BY <1>3, OpenKeeps DEF ReadingHolds
<1> QED
  BY <1>1, <1>2, <1>3, JudgeReads, FloorReads, PresentReads DEF Step

\* A tool's step leaves the reader.
LEMMA StepStays ==
  ASSUME NEW t \in Tools, Step(t)
  PROVE  reader' = reader
BY DEF Step, Inspect, Begins, Begin, Reinspect, Bind, Open, Judge, Floor, Present, ResetOnly, AnswerLost, LinkDead

\* What the tools have read goes on holding, when nobody disturbs them.
LEMMA ReadingsNext ==
  ASSUME ToolInv, ReadingsHold, [Next /\ Exclusive]_vars
  PROVE  ReadingsHold'
<1>1. ReadingsHold <=> \A t \in Tools : ReadingHolds(t)
  BY DEF ReadingsHold, FloorAhead, UsedPinKept, ReadingHolds
<1>2. ReadingsHold' <=> \A t \in Tools : ReadingHolds(t)'
  BY DEF ReadingsHold, FloorAhead, UsedPinKept, ReadingHolds
<1>3. ASSUME NEW u \in Tools, Step(u), Exclusive, NEW t \in Tools
      PROVE  ReadingHolds(t)'
  <2>1. CASE t = u
    BY <1>1, <1>3, <2>1, StepReads
  <2>2. CASE t # u
    <3>1. op'[t] = op[t] /\ link'[t] = link[t] /\ reader' = reader /\ ReadingHolds(t)
      BY <1>1, <1>3, <2>2, StepIsOwn, StepStays
    <3> QED
      BY <1>3, <3>1, OthersRead
  <2> QED
    BY <2>1, <2>2
<1>4. CASE UNCHANGED vars
  BY <1>4 DEF vars, ReadingsHold, FloorAhead, UsedPinKept, Presented, AsCurrentPin, Target
<1>5. CASE Next /\ Exclusive
  BY <1>1, <1>2, <1>3, <1>5, EnvironmentReads DEF Next
<1> QED
  BY <1>4, <1>5

\* A step of a tool with a connection goes on to the operation's next point.
LEMMA StepMoves ==
  ASSUME ToolInv, NEW t \in Tools, Step(t), link[t] = "live", link'[t] = "live"
  PROVE  op'[t] # op[t]
<1>1. op[t].at \in {"judge", "floor", "present", "reset"} /\ op[t] \in Ops /\ DOMAIN op = Tools /\ DOMAIN link = Tools
  BY LiveFinds DEF ToolInv
<1>2. ~(Inspect(t) \/ Begins(t) \/ Reinspect(t) \/ Bind(t) \/ Open(t) \/ LinkDead(t))
  BY <1>1 DEF Inspect, Begins, Begin, Reinspect, Bind, Open, LinkDead
<1>3. \A what, about : ~Ends(t, what, about)
  BY <1>1 DEF Ends
<1>4. CASE Judge(t)
  <2>1. ~JudgeEnds(t)
    BY <1>3 DEF JudgeEnds
  <2>2. PICK point \in {"floor", "present"}, left \in SUBSET PinSlots : Judged(t, point, left)
    <3>1. \A slot \in PinSlots : {slot} \in SUBSET PinSlots
      OBVIOUS
    <3> QED
      BY <1>4, <2>1, <3>1, JudgeManagedLeads, JudgeActivationLeads DEF Judge
  <2>3. op'[t].at = point
    BY <1>1, <2>2 DEF Judged, Ops
  <2> QED
    BY <1>4, <2>3 DEF Judge
<1>5. CASE Floor(t)
  <2>1. op'[t].at = "present"
    BY <1>1, <1>3, <1>5 DEF Floor, Goes, Ops
  <2> QED
    BY <1>5, <2>1 DEF Floor
<1>6. ~AnswerLost(t)
  BY <1>3 DEF AnswerLost
<1>7. ASSUME NEW answer, SlotDone(t, answer)
      PROVE  op'[t].at = "floor"
  BY <1>1, <1>3, <1>7 DEF SlotDone, Ops
<1>8. CASE Present(t)
  <2>1. op'[t].at \in {"reset", "floor"}
    BY <1>1, <1>7, <1>8 DEF Present, Goes, Ops
  <2> QED
    BY <1>8, <2>1 DEF Present
<1>9. CASE ResetOnly(t)
  BY <1>7, <1>9 DEF ResetOnly
<1> QED
  BY <1>2, <1>4, <1>5, <1>6, <1>8, <1>9 DEF Step

\* A tool alone with cards that no command of another program interrupts is
\* disturbed by nobody.
LEMMA AloneExcludes ==
  ASSUME Alone, ToolInv, Next
  PROVE  Exclusive
<1> SUFFICES ASSUME NEW t \in Tools, link[t] = "live", link'[t] = "live", op'[t] = op[t]
             PROVE  card' = card
  BY DEF Exclusive
<1>1. ~Remove
  BY DEF Remove
<1>2. \A x, right : ~OtherPresents(x, right)
  BY DEF OtherPresents, Undisturbed, Alone
<1>3. ~\E u \in Tools : Step(u)
  BY StepMoves DEF Alone
<1>4. PICK c \in Cards : Insert(c)
  BY <1>1, <1>2, <1>3 DEF Next
<1> QED
  BY <1>4 DEF Insert

-----------------------------------------------------------------------------
(* Theorems.                                                                 *)

\* Nothing runs at first, and the cards are sound.
LEMMA InitInv ==
  ASSUME Init
  PROVE  ToolInv /\ ReadingsHold
<1>1. CardsSound
  BY CardManagerAssumption DEF Init, CardsSound, SoundChips
<1>2. \A t \in Tools : op[t] = Idle /\ link[t] = "none"
  BY DEF Init
<1>3. result \in [Tools -> Returned]
  BY DEF Init, Returned, Nothing, Results
<1>4. CountsTyped
  BY CardManagerAssumption DEF Init, CountsTyped
<1>5. ToolInv
  <2>1. \A t \in Tools : SoundOp(op[t], link[t])
    BY <1>2, IdleSound
  <2> QED
    BY <1>1, <1>3, <1>4, <2>1 DEF Init, ToolInv
<1>6. ReadingsHold
  BY <1>2 DEF ReadingsHold, FloorAhead, UsedPinKept
<1> QED
  BY <1>5, <1>6

\* The invariant of every tool.
THEOREM ToolInvariant == Spec => []ToolInv
<1>1. Init => ToolInv
  BY InitInv
<1>2. ToolInv /\ [Next]_vars => ToolInv'
  BY ToolNext
<1> QED
  BY <1>1, <1>2, PTL DEF Spec

\* Every variable of the card manager keeps its type: the cards, the card in
\* the reader, and each tool's operation, connection and result.
THEOREM TypeCorrect == Spec => []TypeOK
<1>1. ToolInv => TypeOK
  <2> SUFFICES ASSUME ToolInv
               PROVE  TypeOK
    OBVIOUS
  <2>1. op \in [Tools -> Ops] /\ link \in [Tools -> {"none", "live", "dead"}]
    BY DEF ToolInv, SoundOp
  <2>2. card \in [Cards -> Chips]
    BY DEF ToolInv, CardsSound, SoundChips
  <2> QED
    BY <2>1, <2>2 DEF ToolInv, CountsTyped, TypeOK
<1> QED
  BY <1>1, ToolInvariant, PTL

\* The codes typed in the settings application reach no card but the one shown
\* while they were typed, for any number of tools, whatever other programs send
\* between the commands and whichever cards come and go.
THEOREM CodesReachShownCard == Spec => ShownCardOnly
<1>1. ASSUME ToolInv, [Next]_vars
      PROVE  [\A t \in Tools : op[t].caller = "settings" => BoundToShown(t)]_vars
  <2>1. ASSUME Next, NEW t \in Tools, op[t].caller = "settings"
        PROVE  BoundToShown(t)
    <3>1. op[t].expected = op[t].typed
      BY <1>1, <2>1 DEF ToolInv, SoundOp
    <3> QED
      BY <1>1, <2>1, <3>1, ActsIsStep, StepReaches DEF BoundToShown
  <2> QED
    BY <1>1, <2>1
<1>2. ToolInv /\ [Next]_vars => [\A t \in Tools : op[t].caller = "settings" => BoundToShown(t)]_vars
  BY <1>1
<1> QED
  BY <1>2, ToolInvariant, PTL DEF Spec, ShownCardOnly

\* An operation that has spent a try spends no other: it goes on to the next
\* PIN only when the card took the code, for any number of tools.
THEOREM SpendsOneTry == Spec => OneTrySpent
<1>1. ASSUME ToolInv, [Next]_vars
      PROVE  [\A t \in Tools : Acts(t) /\ op[t].spent > 0 =>
                \A c \in Cards, x \in FlooredCredentials : ~Spent(c, x)]_vars
  <2>1. \A t \in Tools : ~(op[t].spent > 0)
    BY <1>1 DEF ToolInv, SoundOp
  <2> QED
    BY <2>1
<1>2. ToolInv /\ [Next]_vars => [\A t \in Tools : Acts(t) /\ op[t].spent > 0 =>
                \A c \in Cards, x \in FlooredCredentials : ~Spent(c, x)]_vars
  BY <1>1
<1> QED
  BY <1>2, ToolInvariant, PTL DEF Spec, OneTrySpent

\* The behaviours in which nobody disturbs a tool are the card manager's.
LEMMA ExclusiveIsSpec == ExclusiveSpec => Spec
<1>1. [Next /\ Exclusive]_vars => [Next]_vars
  OBVIOUS
<1> QED
  BY <1>1, PTL DEF ExclusiveSpec, Spec

\* Tools that nobody disturbs keep the counters they read and the PINs they
\* judged until they act on them.
THEOREM ReadingsInvariant == ExclusiveSpec => [](ToolInv /\ ReadingsHold)
<1>1. Init => ReadingsHold
  BY InitInv
<1>2. ToolInv /\ ReadingsHold /\ [Next /\ Exclusive]_vars => ReadingsHold'
  BY ReadingsNext
<1>3. ExclusiveSpec => []ToolInv
  BY ExclusiveIsSpec, ToolInvariant, PTL
<1> QED
  BY <1>1, <1>2, <1>3, PTL DEF ExclusiveSpec

\* No command of any number of tools that nobody disturbs inside an operation
\* spends one of the last two tries of a PIN or of the PUK, on any card and from
\* any counter: the floor's judgement still holds when the code is presented.
THEOREM LastTriesKept == ExclusiveSpec => FloorKept
<1>1. ASSUME ToolInv, ReadingsHold, [Next]_vars
      PROVE  [\A t \in Tools : Acts(t) =>
                \A c \in Cards, x \in FlooredCredentials : Spent(c, x) => card'[c].tries[x] >= 2]_vars
  <2>1. ASSUME Next, NEW t \in Tools, Acts(t), NEW c \in Cards, NEW x \in FlooredCredentials, Spent(c, x)
        PROVE  card'[c].tries[x] >= 2
    <3>1. /\ op[t].at = "present" /\ link[t] = "live" /\ c = reader /\ x = Presented(t)
          /\ Heard(t) = "wrong" /\ card'[c].tries[x] = card[c].tries[x] - 1
      BY <1>1, <2>1, ActsIsStep, StepSpends
    <3>2. card[c].tries[x] \notin {1, 2} /\ card[c].tries[x] # 0
      BY <1>1, <3>1 DEF ReadingsHold, FloorAhead, Heard, Answer
    <3>3. card[c].tries[x] \in Nat
      BY <1>1 DEF ToolInv, CardsSound, SoundChips, Chips
    <3> QED
      BY <3>1, <3>2, <3>3
  <2> QED
    BY <1>1, <2>1
<1>2. ToolInv /\ ReadingsHold /\ [Next]_vars =>
        [\A t \in Tools : Acts(t) =>
           \A c \in Cards, x \in FlooredCredentials : Spent(c, x) => card'[c].tries[x] >= 2]_vars
  BY <1>1
<1>3. ExclusiveSpec => [][Next]_vars
  BY ExclusiveIsSpec, PTL DEF Spec
<1> QED
  BY <1>2, <1>3, ReadingsInvariant, PTL DEF FloorKept

\* An activation that was not forced, by tools that nobody disturbs, is about to
\* replace only PINs the holder has not set or can no longer use.
THEOREM HolderPinKept == ExclusiveSpec => []UsedPinKept
<1>1. ReadingsHold => UsedPinKept
  BY DEF ReadingsHold
<1> QED
  BY <1>1, ReadingsInvariant, PTL

-----------------------------------------------------------------------------
(* The counters move as CardTries promises.                                  *)

\* The abstract specification's credentials are these.
LEMMA TriesNames ==
  /\ Tries!FlooredCredentials = FlooredCredentials /\ Tries!PinSlots = PinSlots
  /\ Tries!RetriesPristine = RetriesPristine
BY DEF Tries!FlooredCredentials, FlooredCredentials, Tries!PinSlots, PinSlots,
       Tries!RetriesPristine, RetriesPristine

\* A step that keeps every counter and is no other program's is none of the
\* abstract specification's.
LEMMA TriesStutter ==
  ASSUME others' = others, \A c \in Cards : card'[c].tries = card[c].tries
  PROVE  UNCHANGED Tries!vars
BY DEF Tries!vars

\* One card changes, and its counters with it.
LEMMA TriesOf ==
  ASSUME CardsSound, NEW c \in Cards, NEW chip \in SoundChips, card' = [card EXCEPT ![c] = chip]
  PROVE  [d \in Cards |-> card'[d].tries] = [[d \in Cards |-> card[d].tries] EXCEPT ![c] = chip.tries]
BY DEF CardsSound

\* What a command may do to one chip is a step of the promise.
LEMMA PromisedStep ==
  ASSUME CardsSound, NEW c \in Cards, NEW chip \in SoundChips, Promised(card[c], chip),
         card' = [card EXCEPT ![c] = chip], others' = others
  PROVE  [Tries!Next]_(Tries!vars)
<1> DEFINE tries == [d \in Cards |-> card[d].tries]
           after == [d \in Cards |-> card'[d].tries]
<1>1. after = [tries EXCEPT ![c] = chip.tries] /\ tries[c] = card[c].tries
  BY TriesOf
<1>2. CASE chip.tries = card[c].tries
  <2>1. \A d \in Cards : card'[d].tries = card[d].tries
    BY <1>2 DEF CardsSound
  <2> QED
    BY <2>1, TriesStutter
<1>3. ASSUME NEW k \in FlooredCredentials, card[c].tries[k] >= 3,
             chip.tries = [card[c].tries EXCEPT ![k] = @ - 1]
      PROVE  Tries!Next
  <2>1. after = [tries EXCEPT ![c][k] = @ - 1]
    BY <1>1, <1>3
  <2>2. Tries!Refused(c, k)
    BY <1>1, <1>3, <2>1 DEF Tries!Refused, Tries!AboveLastTwo
  <2> QED
    BY <2>2, TriesNames DEF Tries!Next
<1>4. ASSUME NEW k \in FlooredCredentials, card[c].tries[k] >= 3,
             chip.tries = [card[c].tries EXCEPT ![k] = RetriesPristine]
      PROVE  Tries!Next
  <2>1. after = [tries EXCEPT ![c][k] = RetriesPristine]
    BY <1>1, <1>4
  <2>2. Tries!Accepted(c, k)
    BY <1>1, <1>4, <2>1, TriesNames DEF Tries!Accepted, Tries!AboveLastTwo
  <2> QED
    BY <2>2, TriesNames DEF Tries!Next
<1>5. ASSUME NEW slot \in PinSlots, card[c].tries["puk"] >= 3,
             chip.tries = [card[c].tries EXCEPT !["puk"] = RetriesPristine, ![slot] = RetriesPristine]
      PROVE  Tries!Next
  <2>1. after = [tries EXCEPT ![c]["puk"] = RetriesPristine, ![c][slot] = RetriesPristine]
    BY <1>1, <1>5
  <2>2. Tries!Restored(c, slot)
    BY <1>1, <1>5, <2>1, TriesNames DEF Tries!Restored, Tries!AboveLastTwo
  <2> QED
    BY <2>2, TriesNames DEF Tries!Next
<1> QED
  BY <1>2, <1>3, <1>4, <1>5 DEF Promised

\* The card comes and goes, and what another program presents is its own.
LEMMA EnvironmentPromised ==
  ASSUME ToolInv,
         \/ \E c \in Cards : Insert(c)
         \/ Remove
         \/ \E x \in FlooredCredentials, right \in BOOLEAN : OtherPresents(x, right)
  PROVE  [Tries!Next]_(Tries!vars)
<1>1. CardsSound
  BY DEF ToolInv
<1>2. ASSUME NEW c \in Cards, Insert(c)
      PROVE  UNCHANGED Tries!vars
  BY <1>2, TriesStutter DEF Insert, counts
<1>3. CASE Remove
  <2>1. others' = others /\ reader \in Cards /\ card' = [card EXCEPT ![reader] = Unpowered(card[reader])]
    BY <1>3 DEF Remove, counts, ToolInv
  <2>2. \A d \in Cards : card'[d].tries = card[d].tries
    BY <1>1, <2>1, SelectedSound DEF CardsSound
  <2> QED
    BY <2>1, <2>2, TriesStutter
<1>4. ASSUME NEW x \in FlooredCredentials, NEW right \in BOOLEAN, OtherPresents(x, right)
      PROVE  Tries!Next
  <2> DEFINE chip == Verified(card[reader], x, right)
  <2>0. PICK c \in Cards : c = reader
    BY <1>4 DEF OtherPresents, ToolInv
  <2>1. card[reader] \in SoundChips
    BY <1>1, <2>0 DEF CardsSound
  <2>2. chip \in SoundChips
    BY <2>1, VerifiedSound DEF Comparison
  <2>3. chip.tries \in [FlooredCredentials -> 0..RetriesPristine]
    BY <2>2 DEF SoundChips, Chips
  <2>4. others' = others + 1 /\ card' = [card EXCEPT ![c] = chip]
    BY <1>4, <2>0 DEF OtherPresents
  <2> HIDE DEF chip
  <2>5. [d \in Cards |-> card'[d].tries] = [[d \in Cards |-> card[d].tries] EXCEPT ![c] = chip.tries]
    BY <1>1, <2>2, <2>4, TriesOf
  <2>6. Tries!Foreign(c)
    BY <2>3, <2>4, <2>5, TriesNames DEF Tries!Foreign
  <2> QED
    BY <2>6 DEF Tries!Next
<1> QED
  BY <1>2, <1>3, <1>4

\* Presenting a code past the floor keeps the promise, by whichever of the three
\* commands.
LEMMA AfterPresentPromised ==
  ASSUME ToolInv, NEW t \in Tools, link[t] = "live", card[reader].tries[Presented(t)] \notin {1, 2}
  PROVE  Promised(card[reader], AfterPresent(t))
<1> DEFINE chip == card[reader]
           right == CodeIsRight(t)
           slot == Target(t)
<1>1. /\ chip \in SoundChips /\ slot \in PinSlots /\ right \in BOOLEAN
      /\ slot \in FlooredCredentials /\ "puk" \in FlooredCredentials /\ Presented(t) \in FlooredCredentials
  BY LiveFinds DEF FlooredCredentials
<1>2. chip.tries[Presented(t)] >= 3 \/ chip.tries[Presented(t)] = 0
  BY <1>1 DEF SoundChips, Chips, RetriesPristine
<1>3. CASE TwoCommands(t)
  <2>1. AfterPresent(t) = Verified(chip, "puk", right) /\ Presented(t) = "puk"
    BY <1>3 DEF AfterPresent, TwoCommands, Presented
  <2>2. Comparison(chip, Verified(chip, "puk", right), "puk", right)
    BY <1>1, VerifiedSound
  <2> QED
    BY <1>1, <1>2, <2>1, <2>2, ComparisonPromised
<1>4. CASE ~TwoCommands(t) /\ AsCurrentPin(t)
  <2>1. AfterPresent(t) = PinChanged(chip, slot, right) /\ Presented(t) = slot
    BY <1>4 DEF AfterPresent, Presented
  <2>2. Comparison(chip, PinChanged(chip, slot, right), slot, right)
    BY <1>1, PinChangedSound
  <2> QED
    BY <1>1, <1>2, <2>1, <2>2, ComparisonPromised
<1>5. CASE ~TwoCommands(t) /\ ~AsCurrentPin(t)
  <2>1. AfterPresent(t) = PinReset(chip, slot, right) /\ Presented(t) = "puk"
    BY <1>5 DEF AfterPresent, Presented
  <2> QED
    BY <1>1, <1>2, <2>1, PinResetPromised
<1> QED
  BY <1>3, <1>4, <1>5

\* A step of a tool leaves the cards, or does to the one in the reader what the
\* promise allows.
TouchedWell ==
  \/ card' = card
  \/ \E chip \in SoundChips :
       reader \in Cards /\ Promised(card[reader], chip) /\ card' = [card EXCEPT ![reader] = chip]

\* SELECT does so.
LEMMA SelectTouches ==
  ASSUME ToolInv, reader \in Cards, card' = [card EXCEPT ![reader] = Selected(card[reader])]
  PROVE  TouchedWell
<1>1. card[reader] \in SoundChips
  BY DEF ToolInv, CardsSound
<1>2. Selected(card[reader]) \in SoundChips /\ Promised(card[reader], Selected(card[reader]))
  BY <1>1, SelectedSound, SelectedPromised
<1> QED
  BY <1>2 DEF TouchedWell

\* So does every step of a tool whose reading holds.
LEMMA StepTouches ==
  ASSUME ToolInv, NEW t \in Tools, ReadingHolds(t), Step(t)
  PROVE  TouchedWell
<1>1. CASE Inspect(t) \/ Begins(t) \/ Reinspect(t) \/ Bind(t) \/ Open(t) \/ Floor(t) \/ LinkDead(t)
  <2>1. card' = card \/ (reader \in Cards /\ card' = [card EXCEPT ![reader] = Selected(card[reader])])
    BY <1>1 DEF Inspect, Begins, Begin, Reinspect, Bind, Open, Floor, LinkDead, ToolInv
  <2> QED
    BY <2>1, SelectTouches DEF TouchedWell
<1>2. CASE Judge(t)
  <2>1. link[t] = "live" /\ op[t].at = "judge" /\ reader \in Cards
    BY <1>2, LiveFinds DEF Judge
  <2>2. card' = card \/ card' = [card EXCEPT ![reader] = Selected(card[reader])]
    BY <1>2, <2>1, JudgeManagedLeads, JudgeActivationLeads DEF Judge, JudgeEnds, Judged
  <2> QED
    BY <2>1, <2>2, SelectTouches DEF TouchedWell
<1>3. ASSUME link[t] = "live", op[t].at = "present",
             \/ card' = [card EXCEPT ![reader] = AfterPresent(t)]
             \/ card' = [card EXCEPT ![reader] = Selected(AfterPresent(t))]
      PROVE  TouchedWell
  <2> DEFINE after == AfterPresent(t)
  <2>1. reader \in Cards /\ card[reader] \in SoundChips /\ Promised(card[reader], after) /\ after \in SoundChips
    BY <1>3, LiveFinds, AfterPresentPromised, AfterPresentWell DEF ReadingHolds, PresentedWell
  <2> HIDE DEF after
  <2>2. Selected(after) \in SoundChips /\ Promised(card[reader], Selected(after))
    BY <2>1, SelectedSound, SelectedPromised
  <2> QED
    BY <1>3, <2>1, <2>2 DEF TouchedWell, after
<1>4. ASSUME link[t] = "live", NEW set, set = card[reader] \/ ("puk" \in card[reader].verified /\ set = PinSet(card[reader], Target(t))),
             card' = [card EXCEPT ![reader] = set] \/ card' = [card EXCEPT ![reader] = Selected(set)]
      PROVE  TouchedWell
  <2>1. reader \in Cards /\ card[reader] \in SoundChips /\ Target(t) \in PinSlots
    BY <1>4, LiveFinds
  <2>2. set \in SoundChips /\ Promised(card[reader], set)
    <3>1. CASE set = card[reader]
      BY <2>1, <3>1 DEF Promised
    <3>2. CASE "puk" \in card[reader].verified /\ set = PinSet(card[reader], Target(t))
      BY <2>1, <3>2, PinSetSound, PinSetPromised
    <3> QED
      BY <1>4, <3>1, <3>2
  <2>3. Selected(set) \in SoundChips /\ Promised(card[reader], Selected(set))
    BY <2>1, <2>2, SelectedSound, SelectedPromised
  <2> QED
    BY <1>4, <2>1, <2>2, <2>3 DEF TouchedWell
<1>5. CASE Present(t)
  BY <1>3, <1>5 DEF Present
<1>6. CASE ResetOnly(t)
  BY <1>4, <1>6 DEF ResetOnly
<1>7. CASE AnswerLost(t)
  BY <1>3, <1>4, <1>7 DEF AnswerLost
<1> QED
  BY <1>1, <1>2, <1>5, <1>6, <1>7 DEF Step

\* A tool's step is no other program's.
LEMMA StepIsNotForeign ==
  ASSUME NEW t \in Tools, Step(t)
  PROVE  others' = others
BY DEF Step, Inspect, Begins, Begin, Reinspect, Bind, Open, Judge, Floor, Present, ResetOnly, AnswerLost, LinkDead, counts

\* The steps of any number of tools that nobody disturbs, over a change, an
\* unblocking and an activation, move the cards' counters only as CardTries
\* promises: codes are presented from three tries up, and a blocked PIN comes
\* back only with the PUK.
THEOREM ToolsKeepTries == ExclusiveSpec => KeepsTries
<1>1. Init => Tries!Init
  <2> SUFFICES ASSUME Init
               PROVE  Tries!Init
    OBVIOUS
  <2>1. ToolInv
    BY InitInv
  <2>2. /\ [c \in Cards |-> card[c].tries] \in [Cards -> [FlooredCredentials -> 0..RetriesPristine]]
        /\ others \in Nat
    BY <2>1, CardManagerAssumption DEF ToolInv, CardsSound, SoundChips, Chips, CountsTyped
  <2> QED
    BY <2>2, TriesNames DEF Tries!Init
<1>2. ASSUME ToolInv, ReadingsHold, [Next]_vars
      PROVE  [Tries!Next]_(Tries!vars)
  <2>1. CASE UNCHANGED vars
    BY <2>1, TriesStutter DEF vars, counts
  <2>2. ASSUME NEW t \in Tools, Step(t)
        PROVE  [Tries!Next]_(Tries!vars)
    <3>1. ReadingHolds(t) /\ CardsSound /\ others' = others
      BY <1>2, <2>2, StepIsNotForeign DEF ReadingsHold, FloorAhead, UsedPinKept, ReadingHolds, ToolInv
    <3>2. TouchedWell
      BY <1>2, <2>2, <3>1, StepTouches
    <3>3. CASE card' = card
      BY <3>1, <3>3, TriesStutter
    <3> QED
      BY <3>1, <3>2, <3>3, PromisedStep DEF TouchedWell
  <2> QED
    BY <1>2, <2>1, <2>2, EnvironmentPromised DEF Next
<1>3. ToolInv /\ ReadingsHold /\ [Next]_vars => [Tries!Next]_(Tries!vars)
  BY <1>2
<1>4. ExclusiveSpec => Init /\ [][Next]_vars
  BY ExclusiveIsSpec, PTL DEF Spec
<1> QED
  BY <1>1, <1>3, <1>4, ReadingsInvariant, PTL DEF KeepsTries, Tries!Spec

-----------------------------------------------------------------------------
(* One tool alone.                                                           *)

\* A single tool, with no other program's command inside its operations, is one
\* that nobody disturbs: the last tries and the PINs in use are kept, and the
\* counters move as promised, in every behaviour.
THEOREM AloneKeeps == Alone => (Spec => FloorKept /\ []UsedPinKept /\ KeepsTries)
<1> SUFFICES ASSUME Alone
             PROVE  Spec => FloorKept /\ []UsedPinKept /\ KeepsTries
  OBVIOUS
<1>1. ToolInv /\ [Next]_vars => [Next /\ Exclusive]_vars
  BY AloneExcludes
<1>2. Spec => ExclusiveSpec
  BY <1>1, ToolInvariant, PTL DEF Spec, ExclusiveSpec
<1> QED
  BY <1>2, LastTriesKept, HolderPinKept, ToolsKeepTries, PTL

=============================================================================
