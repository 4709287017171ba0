---------------------------- MODULE CardManager ----------------------------
(* PIN change, unblocking and activation: crates/refineid-card-manager-core,  *)
(* as the settings application (refineid-settings-ffi) and the window of      *)
(* refineid-gui-win32 call it.                                                *)
(*                                                                            *)
(* A tool is a process that shows a card and runs one operation at a time     *)
(* with the codes its user typed.  An operation connects twice: it binds to   *)
(* the card it finds, then opens it again, reads its state and presents the   *)
(* code.  The connection is shared, and only a single command is atomic       *)
(* (refineid-lib-pcsc); a card taken out kills the connections to it.         *)
EXTENDS CardChip

CONSTANTS
  Tools,        \* processes that run operations
  Callers,      \* who calls the operations: the settings application, the window
  Cards,        \* the cards that may be in the reader
  NoCard,       \* the reader is empty
  Initially,    \* Initially[c]: the states card c may start in
  Interleaved,  \* whether another program's command may come inside an operation
  MaxOps,       \* bound: operations begun
  MaxOther,     \* bound: codes other programs present
  MaxLost       \* bound: answers of the card that are lost

ASSUME CardManagerAssumption ==
  /\ Callers \subseteq {"settings", "window"} /\ NoCard \notin Cards
  /\ \A c \in Cards : Initially[c] \subseteq {chip \in Chips : VerifiedIsFull(chip)}
  /\ Interleaved \in BOOLEAN /\ MaxOps \in Nat /\ MaxOther \in Nat /\ MaxLost \in Nat

VARIABLES
  card,    \* card[c]: the state of each card
  reader,  \* the card in the reader
  shown,   \* shown[t]: the card a tool displays
  op,      \* op[t]: the operation of a tool
  link,    \* link[t]: its connection
  result,  \* result[t]: what the last operation returned
  ops, others, lost    \* counts against the bounds

counts == <<ops, others, lost>>
vars == <<card, reader, shown, op, link, result, counts>>

Kinds == {"change", "unblock", "activate", "reactivate"}
Points == {"idle", "inspect", "bind", "open", "judge", "floor", "present", "reset"}
Codes == {"right", "wrong", "misfit"}
Results == {"none", "ok", "wrong", "locked", "refused", "floor", "unactivated",
            "already_activated", "mismatch", "length", "revoked", "lost"}

\* entered: the PINs the user typed new values for; typed: the card shown while
\* the codes were typed; expected: the serial the operation is called with;
\* left: the PINs still to set; spent: the tries this operation spent.
Ops == [at : Points, kind : Kinds, caller : {"settings", "window"}, entered : SUBSET PinSlots, code : Codes,
        typed : Cards \cup {NoCard}, expected : Cards \cup {NoCard},
        left : SUBSET PinSlots, spent : Nat]

Idle == [at |-> "idle", kind |-> "change", caller |-> "settings", entered |-> {},
         code |-> "right", typed |-> NoCard, expected |-> NoCard, left |-> {}, spent |-> 0]

\* What a tool keeps of an operation that ended: the PIN it was about.
Returned == [what : Results, about : SUBSET PinSlots, card : Cards \cup {NoCard}]

Nothing == [what |-> "none", about |-> {}, card |-> NoCard]

TypeOK ==
  /\ card \in [Cards -> Chips] /\ reader \in Cards \cup {NoCard}
  /\ shown \in [Tools -> Cards \cup {NoCard}] /\ op \in [Tools -> Ops]
  /\ link \in [Tools -> {"none", "live", "dead"}] /\ result \in [Tools -> Returned]
  /\ ops \in 0..MaxOps /\ others \in 0..MaxOther /\ lost \in 0..MaxLost

Init ==
  /\ card \in [Cards -> UNION {Initially[c] : c \in Cards}]
  /\ \A c \in Cards : card[c] \in Initially[c]
  /\ reader = NoCard
  /\ shown = [t \in Tools |-> NoCard] /\ op = [t \in Tools |-> Idle]
  /\ link = [t \in Tools |-> "none"]
  /\ result = [t \in Tools |-> Nothing]
  /\ ops = 0 /\ others = 0 /\ lost = 0

Goes(t, point) == op' = [op EXCEPT ![t].at = point]

\* The operation returns: its connection and its codes are dropped.
Ends(t, what, about) ==
  /\ op' = [op EXCEPT ![t] = Idle] /\ link' = [link EXCEPT ![t] = "none"]
  /\ result' = [result EXCEPT ![t] = [what |-> what, about |-> about, card |-> op[t].expected]]

-----------------------------------------------------------------------------
(* The card and the other programs that use it.                              *)

Insert(c) ==
  /\ reader = NoCard /\ reader' = c
  /\ UNCHANGED <<card, shown, op, link, result, counts>>

Remove ==
  /\ reader # NoCard /\ reader' = NoCard
  /\ card' = [card EXCEPT ![reader] = Unpowered(@)]
  /\ link' = [t \in Tools |-> IF link[t] = "live" THEN "dead" ELSE link[t]]
  /\ UNCHANGED <<shown, op, result, counts>>

Undisturbed == Interleaved \/ \A t \in Tools : link[t] # "live"

OtherPresents(credential, right) ==
  /\ reader # NoCard /\ Undisturbed
  /\ others < MaxOther /\ others' = others + 1
  /\ card' = [card EXCEPT ![reader] = Verified(@, credential, right)]
  /\ UNCHANGED <<reader, shown, op, link, result, ops, lost>>

-----------------------------------------------------------------------------
(* Showing a card, and calling an operation.                                 *)

\* inspect: read-only, and refused when the card changes between its two
\* connections.  A tool shows what the last inspection found.
Inspect(t) ==
  /\ op[t].at = "idle"
  /\ shown' = [shown EXCEPT ![t] = reader]
  /\ card' = IF reader = NoCard THEN card ELSE [card EXCEPT ![reader] = Selected(@)]
  /\ UNCHANGED <<reader, op, link, result, counts>>

\* Mutant: the window's way for every caller.
AlwaysInspects(caller) == "inspect"

\* The settings application passes the serial it shows; the window inspects
\* the card once more and passes what it finds (run_change, run_unblock,
\* run_activate).
FirstPoint(caller) == IF caller = "window" THEN "inspect" ELSE "bind"

\* The entries of a form: one PIN for a change or an unblocking, any for an
\* activation.
Entries(kind) ==
  IF kind \in {"change", "unblock"} THEN {{s} : s \in PinSlots} ELSE SUBSET PinSlots

Begin(t, caller, kind, entered, code) ==
  /\ op[t].at = "idle" /\ shown[t] # NoCard
  /\ entered \in Entries(kind)
  /\ code = "misfit" => kind \in {"activate", "reactivate"}
  /\ caller = "window" => kind # "reactivate"
  /\ ops < MaxOps /\ ops' = ops + 1
  /\ op' = [op EXCEPT ![t] = [Idle EXCEPT !.at = FirstPoint(caller), !.kind = kind,
              !.caller = caller, !.entered = entered, !.code = code, !.typed = shown[t], !.expected = shown[t]]]
  /\ result' = [result EXCEPT ![t] = Nothing]
  /\ UNCHANGED <<card, reader, shown, link, others, lost>>

\* The window's inspection inside the operation; a code of the wrong length
\* for the card's scheme ends run_activate here.
Reinspect(t) ==
  /\ op[t].at = "inspect"
  /\ IF reader = NoCard THEN Ends(t, "revoked", {}) /\ card' = card
     ELSE /\ card' = [card EXCEPT ![reader] = Selected(@)]
          /\ IF op[t].code = "misfit" THEN Ends(t, "length", {})
             ELSE /\ op' = [op EXCEPT ![t].at = "bind", ![t].expected = reader]
                  /\ UNCHANGED <<link, result>>
  /\ UNCHANGED <<reader, shown, counts>>

-----------------------------------------------------------------------------
(* The operation: bind, open, judge, floor, present.                         *)

\* ensure_serial and re_verify_session.
SameSerial(expected, live) == expected = live

\* establish_card_session and ensure_serial; activate_first refuses a code of
\* the wrong length before it opens the card.
Bind(t) ==
  /\ op[t].at = "bind"
  /\ CASE reader = NoCard \/ ~SameSerial(op[t].expected, reader) ->
            Ends(t, "revoked", {}) /\ UNCHANGED card
       [] OTHER ->
            /\ card' = [card EXCEPT ![reader] = Selected(@)]
            /\ IF op[t].code = "misfit" THEN Ends(t, "length", {})
               ELSE Goes(t, "open") /\ UNCHANGED <<link, result>>
  /\ UNCHANGED <<reader, shown, counts>>

\* open_exclusive, SELECT, re_verify_session and read_card_pin_lengths.
Open(t) ==
  /\ op[t].at = "open"
  /\ IF reader = NoCard \/ ~SameSerial(op[t].expected, reader)
     THEN Ends(t, "revoked", {}) /\ UNCHANGED card
     ELSE /\ card' = [card EXCEPT ![reader] = Selected(@)]
          /\ link' = [link EXCEPT ![t] = "live"] /\ Goes(t, "judge")
          /\ UNCHANGED result
  /\ UNCHANGED <<reader, shown, counts>>

Awaiting(chip) == {s \in PinSlots : AwaitsActivation(chip, s)}

\* Mutant: an entry for a PIN that does not await its activation passes.
AnyTarget(kind, entered, awaiting) == entered # {}

\* activation_targets.
TargetsFit(kind, entered, awaiting) ==
  entered # {} /\ (kind = "reactivate" \/ entered = awaiting)

\* require_activated and, for a change, the floor on the status it read.
JudgeManaged(t) ==
  LET slot  == CHOOSE s \in op[t].entered : TRUE
      ready == ~AwaitsActivation(card[reader], slot)
  IN  CASE ~ready -> Ends(t, "unactivated", {slot}) /\ UNCHANGED card
        [] ready /\ op[t].kind = "unblock" ->
             /\ op' = [op EXCEPT ![t].at = "floor", ![t].left = {slot}]
             /\ card' = [card EXCEPT ![reader] = Selected(@)]
             /\ UNCHANGED <<link, result>>
        [] ready /\ op[t].kind # "unblock" /\ ServedByFloor(slot, PinStatus(card[reader], slot)) ->
             /\ op' = [op EXCEPT ![t].at = "present", ![t].left = {slot}]
             /\ card' = [card EXCEPT ![reader] = Selected(@)]
             /\ UNCHANGED <<link, result>>
        [] OTHER -> Ends(t, "floor", {slot}) /\ UNCHANGED card

\* The preflight of activate_first, activation_targets and the
\* re_verify_session before the first PIN.
JudgeActivation(t) ==
  LET awaiting == Awaiting(card[reader])
  IN  CASE op[t].kind = "activate" /\ awaiting = {} ->
             Ends(t, "already_activated", {}) /\ UNCHANGED card
        [] TargetsFit(op[t].kind, op[t].entered, awaiting) ->
             /\ op' = [op EXCEPT ![t].at = "floor", ![t].left = op[t].entered]
             /\ card' = [card EXCEPT ![reader] = Selected(@)]
             /\ UNCHANGED <<link, result>>
        [] OTHER -> Ends(t, "mismatch", awaiting) /\ UNCHANGED card

Judge(t) ==
  /\ op[t].at = "judge" /\ link[t] = "live"
  /\ IF op[t].kind \in {"change", "unblock"} THEN JudgeManaged(t) ELSE JudgeActivation(t)
  /\ UNCHANGED <<reader, shown, counts>>

\* PIN 1 is set before PIN 2.
Target(t) == IF "pin1" \in op[t].left THEN "pin1" ELSE "pin2"

\* Whether the code goes to the card as the PIN's current value.
AsCurrentPin(t) ==
  \/ op[t].kind = "change"
  \/ op[t].kind \in {"activate", "reactivate"} /\ card[reader].profile.scheme = "preset"

\* The counter is read once more before an unblocking or the setup of a PIN:
\* puk_retry_floor, or the PIN's status for the preset code.
Served(t) ==
  IF AsCurrentPin(t)
  THEN ServedToActivate(PinStatus(card[reader], Target(t)))
  ELSE ServedByFloor("puk", PukStatus(card[reader]))

Floor(t) ==
  /\ op[t].at = "floor" /\ link[t] = "live"
  /\ IF Served(t) THEN Goes(t, "present") /\ UNCHANGED <<link, result>>
     ELSE Ends(t, "floor", IF AsCurrentPin(t) THEN {Target(t)} ELSE {})
  /\ UNCHANGED <<card, reader, shown, counts>>

\* The typed code is the card's: the preset value is right only while the
\* holder has not replaced it.
CodeIsRight(t) ==
  /\ op[t].code = "right"
  /\ AsCurrentPin(t) /\ op[t].kind # "change" => Target(t) \in card[reader].fresh

Presented(t) == IF AsCurrentPin(t) THEN Target(t) ELSE "puk"

\* An organizational card takes the PUK by VERIFY and the new PIN by a RESET
\* RETRY COUNTER of its own.
TwoCommands(t) == ~AsCurrentPin(t) /\ card[reader].profile.numbering = "organizational"

AfterPresent(t) ==
  CASE TwoCommands(t) -> Verified(card[reader], "puk", CodeIsRight(t))
    [] AsCurrentPin(t) -> PinChanged(card[reader], Target(t), CodeIsRight(t))
    [] OTHER -> PinReset(card[reader], Target(t), CodeIsRight(t))

Spends(t) ==
  IF card'[reader].tries[Presented(t)] < card[reader].tries[Presented(t)] THEN 1 ELSE 0

\* Mutant: PIN 2 is set whatever became of PIN 1.
ContinuesAnyway(answer) == TRUE

\* activation_continues_after_pin1.
ContinuesAfter(answer) == answer = "ok"

\* A PIN is done: the next one after re_verify_session, or the report.
SlotDone(t, answer) ==
  IF ContinuesAfter(answer) /\ op[t].left # {Target(t)}
  THEN /\ op' = [op EXCEPT ![t].at = "floor", ![t].left = @ \ {Target(t)},
                           ![t].spent = @ + Spends(t)]
       /\ UNCHANGED <<link, result>>
  ELSE Ends(t, answer, {Target(t)})

\* The card's answer arrives.
Present(t) ==
  LET answer == Answer(card[reader], Presented(t), CodeIsRight(t))
      more   == ContinuesAfter(answer) /\ op[t].left # {Target(t)}
  IN  /\ op[t].at = "present" /\ link[t] = "live"
      /\ IF TwoCommands(t) /\ answer = "ok"
         THEN /\ card' = [card EXCEPT ![reader] = AfterPresent(t)]
              /\ Goes(t, "reset") /\ UNCHANGED <<link, result>>
         ELSE /\ card' = [card EXCEPT ![reader] =
                            IF more THEN Selected(AfterPresent(t)) ELSE AfterPresent(t)]
              /\ SlotDone(t, answer)
      /\ UNCHANGED <<reader, shown, counts>>

\* RESET RETRY COUNTER without the PUK: the card wants it verified.
ResetOnly(t) ==
  LET answer == IF "puk" \in card[reader].verified THEN "ok" ELSE "refused"
      set    == IF answer = "ok" THEN PinSet(card[reader], Target(t)) ELSE card[reader]
  IN  /\ op[t].at = "reset" /\ link[t] = "live"
      /\ card' = [card EXCEPT ![reader] =
                    IF ContinuesAfter(answer) /\ op[t].left # {Target(t)}
                    THEN Selected(set) ELSE set]
      /\ SlotDone(t, answer)
      /\ UNCHANGED <<reader, shown, counts>>

\* The card did as it was told and its answer is lost: the operation ends in a
\* transport error, whatever the card now holds.
AnswerLost(t) ==
  /\ lost < MaxLost /\ lost' = lost + 1 /\ link[t] = "live"
  /\ \/ op[t].at = "present" /\ card' = [card EXCEPT ![reader] = AfterPresent(t)]
     \/ /\ op[t].at = "reset" /\ "puk" \in card[reader].verified
        /\ card' = [card EXCEPT ![reader] = PinSet(@, Target(t))]
  /\ Ends(t, "lost", {Target(t)})
  /\ UNCHANGED <<reader, shown, ops, others>>

\* The card is gone.  The probes of the judgement give nothing, and a PIN with
\* neither flag nor status counts as activated (PinActivation::judge); every
\* later command fails.
LinkDead(t) ==
  /\ link[t] = "dead"
  /\ CASE op[t].at = "judge" /\ op[t].kind = "activate" -> Ends(t, "already_activated", {})
       [] op[t].at = "judge" /\ op[t].kind \in {"change", "unblock"} ->
            Ends(t, "unactivated", op[t].entered)
       [] OTHER -> Ends(t, "lost", {})
  /\ UNCHANGED <<card, reader, shown, counts>>

Begins(t) ==
  \E caller \in Callers, kind \in Kinds, entered \in SUBSET PinSlots, code \in Codes :
    Begin(t, caller, kind, entered, code)

Step(t) ==
  \/ Inspect(t) \/ Begins(t) \/ Reinspect(t) \/ Bind(t) \/ Open(t)
  \/ Judge(t) \/ Floor(t) \/ Present(t) \/ ResetOnly(t) \/ AnswerLost(t) \/ LinkDead(t)

Next ==
  \/ \E c \in Cards : Insert(c)
  \/ Remove
  \/ \E x \in FlooredCredentials, right \in BOOLEAN : OtherPresents(x, right)
  \/ \E t \in Tools : Step(t)

Spec == Init /\ [][Next]_vars

\* While a tool has its connection, no command but its own reaches the card:
\* what one held transaction would give, and this shared connection does not
\* of itself.
Exclusive ==
  \A t \in Tools : link[t] = "live" /\ link'[t] = "live" /\ op'[t] = op[t] => UNCHANGED card

\* The behaviours in which nobody disturbs a tool, however many there are.
ExclusiveSpec == Init /\ [][Next /\ Exclusive]_vars

-----------------------------------------------------------------------------
(* Properties.                                                               *)

Acts(t) == op'[t] # op[t]

Spent(c, x) == card'[c].tries[x] < card[c].tries[x]

\* No command of this software spends one of the last two tries of a
\* credential (pin_retry_risk.rs: it "never spends the next-to-last or last
\* attempt and a lockout is never its doing").
FloorKept ==
  [][\A t \in Tools : Acts(t) =>
       \A c \in Cards, x \in FlooredCredentials : Spent(c, x) => card'[c].tries[x] >= 2]_vars

Tries == INSTANCE CardTries WITH tries <- [c \in Cards |-> card[c].tries]

\* Over all the steps of a change, an unblocking and an activation the cards'
\* counters move as the floor promises: a code is presented only from three
\* tries up, and a blocked PIN comes back only with the PUK.
KeepsTries == Tries!Spec

BoundToShown(t) ==
  Acts(t) /\ op[t].at \in {"present", "reset"} =>
    \A c \in Cards \ {op[t].typed} : card'[c] = card[c]

\* The codes typed in the settings application reach no card but the one that
\* was shown while they were typed, whatever is in the reader by then.
ShownCardOnly == [][\A t \in Tools : op[t].caller = "settings" => BoundToShown(t)]_vars

\* The same of every caller (service.rs, change_pin: "on the card currently
\* shown by the UI").
EveryCallerBinds == [][\A t \in Tools : BoundToShown(t)]_vars

\* An operation spends one try at most, of whatever credential: a wrong
\* activation code that PIN 1 refused is not presented for PIN 2.
OneTrySpent ==
  [][\A t \in Tools : Acts(t) /\ op[t].spent > 0 =>
       \A c \in Cards, x \in FlooredCredentials : ~Spent(c, x)]_vars

\* What an activation that was not forced is about to replace is a PIN the
\* holder has not set or can no longer use, however an earlier activation or
\* another program left the card.
UsedPinKept ==
  \A t \in Tools : op[t].kind = "activate" /\ link[t] = "live" =>
    \A s \in op[t].left :
      s \in card[op[t].expected].fresh \/ card[op[t].expected].tries[s] = 0

\* A refusal to try a PIN because its tries run out leaves the PUK path open:
\* an unblocking of that PIN is not refused as unactivated
\* (pin_retry_risk.rs, RetryFloorRefusal).
RefusalLeavesPuk ==
  \A t \in Tools : result[t].what = "floor" =>
    \A s \in result[t].about : ~AwaitsActivation(card[result[t].card], s)

=============================================================================
