------------------------------- MODULE Pkcs11 -------------------------------
(* The PKCS #11 module (crates/refineid-pkcs11) in one application process,   *)
(* with the slot of one reader: C_Initialize to C_Finalize, sessions, C_Login,*)
(* C_Logout, C_SignInit, C_Sign and C_SetPIN from several threads, and the    *)
(* held PIN 1 of crates/refineid-lib-core/src/pin_cache.rs.                   *)
(*                                                                            *)
(* Two mutexes guard it: MODULE, and that of the reader's PIN cache, which    *)
(* outlives C_Finalize.  A call takes MODULE to look at its session, and may  *)
(* take the cache inside it; C_Login, C_Sign and C_SetPIN then let MODULE go  *)
(* and talk to the card, and C_Login keeps the cache while the card verifies. *)
(* Commands of other threads and programs come between any two commands, as   *)
(* the connection is shared (refineid-lib-pcsc).                              *)
EXTENDS PinCache

CONSTANTS
  Threads,      \* the application's threads
  NoCard,       \* the reader is empty, or a connection is dead
  NoReader,     \* the reader is unplugged
  PinChange,    \* whether the build has the feature pin-change
  Initially,    \* Initially[c]: the states card c may start in
  MaxCalls,     \* bound: calls to C_Login, C_Sign and C_SetPIN
  MaxEnds,      \* bound: calls to C_Logout and to close sessions, failed refreshes
  MaxSessions,  \* bound: sessions opened after an initialization
  MaxOther,     \* bound: commands of other programs
  MaxLost,      \* bound: answers of the card that are lost
  MaxInits,     \* bound: initializations
  MaxMoves      \* bound: times a card or the reader comes or goes

ASSUME Pkcs11Assumption ==
  /\ NoCard \notin Cards /\ NoReader \notin Cards \cup {NoCard} /\ Pins # {}
  /\ \A c \in Cards : Initially[c] \subseteq {chip \in Chips : VerifiedIsFull(chip)}
  /\ PinChange \in BOOLEAN
  /\ \A n \in {MaxCalls, MaxEnds, MaxSessions, MaxOther, MaxLost, MaxInits, MaxMoves} : n \in Nat

VARIABLES
  card,      \* card[c]: the state of each card
  pinOf,     \* pinOf[c]: the value of its PIN 1
  reader,    \* what the reader holds
  module,    \* MODULE: whether the module is initialized
  mutex,     \* the threads that hold MODULE across a wait for the cache
  attached,  \* whether this initialization has looked the reader's cache up
  slot,      \* the slot record: unknown, absent or present
  objects,   \* the card whose token objects are cached
  sessions,  \* the open session handles
  signing,   \* those with an active sign operation
  opened,    \* handles given out since the initialization
  held,      \* the held PIN 1: no entry or one
  current,   \* the threads whose checkout no invalidation has outdated
  rejected,  \* the values each card rejected, for the life of the process
  th,        \* th[t]: the call of a thread
  user,      \* history: whether a login succeeded since the last end of one
  counts     \* counts against the bounds

moduleVars == <<module, mutex, attached, slot, objects, sessions, signing, opened>>
cacheVars == <<held, current, rejected, user>>
vars == <<card, pinOf, reader, moduleVars, cacheVars, th, counts>>

Points == {"idle", "enter", "clear", "probe", "refused", "check", "verify", "checkout", "present",
           "settle", "pso", "deliver"}
Calls == {"none", "login", "logout", "sign", "set_pin", "other"}

\* link: the card a call is connected to; serial: the one it read; entry: what it checked out; heard:
\* what the card answered, as the thread knows it.
ThreadStates ==
  [at : Points, call : Calls, session : 0..MaxSessions, pin : Pins, link : Cards \cup {NoCard},
   serial : Cards \cup {NoCard}, status : Statuses, entry : SUBSET HeldPins, heard : {"ok", "wrong", "locked", "lost"}]

AnyPin == CHOOSE p \in Pins : TRUE

Idle == [at |-> "idle", call |-> "none", session |-> 0, pin |-> AnyPin, link |-> NoCard,
         serial |-> NoCard, status |-> "unread", entry |-> {}, heard |-> "lost"]

TypeOK ==
  /\ card \in [Cards -> Chips] /\ pinOf \in [Cards -> Pins]
  /\ reader \in Cards \cup {NoCard, NoReader}
  /\ module \in {"none", "up"} /\ mutex \subseteq Threads /\ attached \in BOOLEAN
  /\ slot \in {"unknown", "absent", "present"} /\ objects \in Cards \cup {NoCard}
  /\ sessions \subseteq 1..opened /\ signing \subseteq sessions /\ opened \in 0..MaxSessions
  /\ held \subseteq HeldPins /\ current \subseteq Threads /\ rejected \subseteq Cards \X Pins
  /\ th \in [Threads -> ThreadStates] /\ user \in {"in", "out"}
  /\ counts \in [{"calls", "ends", "other", "lost", "inits", "moves"} -> Nat]

Init ==
  /\ card \in [Cards -> UNION {Initially[c] : c \in Cards}]
  /\ \A c \in Cards : card[c] \in Initially[c]
  /\ pinOf = [c \in Cards |-> AnyPin] /\ reader \in Cards
  /\ module = "none" /\ mutex = {} /\ attached = FALSE /\ slot = "unknown" /\ objects = NoCard
  /\ sessions = {} /\ signing = {} /\ opened = 0
  /\ held = {} /\ current = {} /\ rejected = {} /\ user = "out"
  /\ th = [t \in Threads |-> Idle]
  /\ counts = [b \in {"calls", "ends", "other", "lost", "inits", "moves"} |-> 0]

Counted(b, bound) == counts[b] < bound /\ counts' = [counts EXCEPT ![b] = @ + 1]

Goes(t, point) == th' = [th EXCEPT ![t].at = point]

Returns(t) == th' = [th EXCEPT ![t] = Idle]

-----------------------------------------------------------------------------
(* PinSafetyCache.                                                           *)

CacheFree == \A t \in Threads : th[t].at # "verify"

\* Mutant: the held PIN goes and the generation stays.
GenerationKept == held' = {} /\ UNCHANGED current

\* clear_positive: the held PIN goes, and the new generation outdates every
\* checkout in flight.
ClearPositive == held' = {} /\ current' = {}

\* invalidate_slot, logout and clear_all_positive_pins: a cache this
\* initialization has not looked up is left alone.
LoginEnds ==
  /\ IF attached THEN ClearPositive ELSE UNCHANGED <<held, current>>
  /\ user' = "out" /\ UNCHANGED rejected

\* store_pin1 and stage_pin1_once: hold_pin1 refuses a value the card rejected.
Hold(c, p, status) ==
  IF <<c, p>> \in rejected THEN UNCHANGED cacheVars
  ELSE held' = {Holding(c, p, status)} /\ current' = {} /\ user' = "in"
       /\ UNCHANGED rejected

\* Mutant: the value is remembered and checkouts of it stay good.
RecordOnly(c, p) ==
  rejected' = rejected \cup {<<c, p>>} /\ UNCHANGED <<held, current, user>>

\* record_rejected.
RecordRejected(c, p) ==
  ClearPositive /\ rejected' = rejected \cup {<<c, p>>} /\ user' = "out"

\* restore.
Restored(t, entry) ==
  IF t \in current /\ held = {}
  THEN held' = entry /\ current' = current \ {t} /\ UNCHANGED <<rejected, user>>
  ELSE current' = current \ {t} /\ UNCHANGED <<held, rejected, user>>

-----------------------------------------------------------------------------
(* The reader, and other programs.                                           *)

\* A card that leaves is unpowered, and the connections to it die.
Moves(to) ==
  /\ Counted("moves", MaxMoves) /\ reader' = to
  /\ card' = IF reader \in Cards THEN [card EXCEPT ![reader] = Unpowered(@)] ELSE card
  /\ th' = [t \in Threads |-> IF th[t].link = reader THEN [th[t] EXCEPT !.link = NoCard] ELSE th[t]]
  /\ UNCHANGED <<pinOf, moduleVars, cacheVars>>

Insert(c) == reader = NoCard /\ Moves(c)

Remove == reader \in Cards /\ Moves(NoCard)

Unplug == reader # NoReader /\ Moves(NoReader)

Plug == reader = NoReader /\ Moves(NoCard)

OtherPresents(p) ==
  /\ reader \in Cards /\ Counted("other", MaxOther)
  /\ card' = [card EXCEPT ![reader] = Verified(@, "pin1", p = pinOf[reader])]
  /\ UNCHANGED <<pinOf, reader, moduleVars, cacheVars, th>>

OtherChanges(p) ==
  /\ reader \in Cards /\ Counted("other", MaxOther) /\ card[reader].tries["pin1"] > 0
  /\ card' = [card EXCEPT ![reader] = PinSet(@, "pin1")]
  /\ pinOf' = [pinOf EXCEPT ![reader] = p]
  /\ UNCHANGED <<reader, moduleVars, cacheVars, th>>

-----------------------------------------------------------------------------
(* Calls that stay inside MODULE.                                            *)

ModuleFree == mutex = {}

\* A thread that is idle takes MODULE of an initialized module.
Entered(t) == th[t].at = "idle" /\ ModuleFree /\ module = "up"

\* The call goes on to wait for the cache with MODULE held.
Waits(t, point, call, h, p) ==
  /\ mutex' = {t}
  /\ th' = [th EXCEPT ![t] = [Idle EXCEPT !.at = point, !.call = call, !.session = h, !.pin = p]]

\* refresh_slots_with on the reader, as the slot record and the token objects
\* come out of it; unseen: the card is there and cannot be reached now
\* (TemporarilyUnavailable), or its objects cannot be built.
Observed(seen) ==
  CASE reader \in Cards /\ seen /\ slot # "present" -> slot' = "present" /\ objects' = reader
    [] reader = NoCard /\ slot = "present" -> slot' = "absent" /\ objects' = NoCard
    [] OTHER -> UNCHANGED <<slot, objects>>

\* Whether the refresh calls invalidate_slot.
Invalidates(seen) ==
  \/ reader \in Cards /\ seen /\ slot = "absent"
  \/ reader = NoCard /\ slot = "present"

SelectedHere == card' = IF reader \in Cards THEN [card EXCEPT ![reader] = Selected(@)] ELSE card

\* C_Initialize: ModuleState::new.
Initialize(t, seen) ==
  /\ th[t].at = "idle" /\ ModuleFree /\ module = "none" /\ Counted("inits", MaxInits)
  /\ module' = "up" /\ Observed(seen) /\ SelectedHere
  /\ attached' = FALSE /\ sessions' = {} /\ signing' = {} /\ opened' = 0
  /\ UNCHANGED <<pinOf, reader, mutex, cacheVars, th>>

\* C_Finalize, which the standard lets a caller make only when no other call
\* is under way.
Finalize(t) ==
  /\ Entered(t) /\ \A u \in Threads : th[u].at = "idle"
  /\ module' = "none" /\ slot' = "unknown" /\ objects' = NoCard
  /\ sessions' = {} /\ signing' = {} /\ opened' = 0 /\ attached' = FALSE
  /\ LoginEnds
  /\ UNCHANGED <<card, pinOf, reader, mutex, th, counts>>

\* C_GetSlotList and C_WaitForSlotEvent.
Refresh(t, seen) ==
  /\ Entered(t) /\ Observed(seen) /\ SelectedHere
  /\ IF Invalidates(seen) THEN Waits(t, "clear", "other", 0, AnyPin)
     ELSE UNCHANGED <<mutex, th>>
  /\ UNCHANGED <<pinOf, reader, module, attached, sessions, signing, opened, cacheVars, counts>>

\* A refresh whose enumeration fails.
RefreshFails(t) ==
  /\ Entered(t) /\ Counted("ends", MaxEnds) /\ Waits(t, "clear", "other", 0, AnyPin)
  /\ UNCHANGED <<card, pinOf, reader, module, attached, slot, objects, sessions, signing, opened,
                 cacheVars>>

\* ensure_token: C_GetTokenInfo, C_FindObjectsInit and C_SignInit.
TokenBuilt ==
  IF objects # NoCard THEN UNCHANGED <<card, objects>>
  ELSE objects' = reader /\ SelectedHere

TokenCanBe == objects # NoCard \/ reader \in Cards

EnsureToken(t) ==
  /\ Entered(t) /\ slot # "unknown" /\ TokenCanBe /\ TokenBuilt
  /\ UNCHANGED <<pinOf, reader, module, mutex, attached, slot, sessions, signing, opened,
                 cacheVars, th, counts>>

OpenSession(t) ==
  /\ Entered(t) /\ slot = "present" /\ opened < MaxSessions
  /\ opened' = opened + 1 /\ sessions' = sessions \cup {opened + 1}
  /\ UNCHANGED <<card, pinOf, reader, module, mutex, attached, slot, objects, signing, cacheVars,
                 th, counts>>

\* Mutant: a closed session's sign operation stays.
SignKept(t, gone) ==
  /\ Counted("ends", MaxEnds) /\ sessions' = sessions \ gone /\ UNCHANGED signing
  /\ IF sessions \subseteq gone THEN Waits(t, "clear", "other", 0, AnyPin) ELSE UNCHANGED <<mutex, th>>
  /\ UNCHANGED <<card, pinOf, reader, module, attached, slot, objects, opened, cacheVars>>

\* close_session and forget_login_if_no_sessions; close_all_sessions.
SessionsClosed(t, gone) ==
  /\ Counted("ends", MaxEnds) /\ sessions' = sessions \ gone /\ signing' = signing \ gone
  /\ IF sessions \subseteq gone THEN Waits(t, "clear", "other", 0, AnyPin) ELSE UNCHANGED <<mutex, th>>
  /\ UNCHANGED <<card, pinOf, reader, module, attached, slot, objects, opened, cacheVars>>

CloseSession(t, h) == Entered(t) /\ h \in sessions /\ SessionsClosed(t, {h})

CloseAllSessions(t) == Entered(t) /\ slot # "unknown" /\ SessionsClosed(t, sessions)

SignInit(t, h) ==
  /\ Entered(t) /\ h \in sessions \ signing /\ TokenCanBe /\ TokenBuilt
  /\ signing' = signing \cup {h}
  /\ UNCHANGED <<pinOf, reader, module, mutex, attached, slot, sessions, opened, cacheVars, th,
                 counts>>

\* is_logged_in waits for the cache with MODULE held: C_Logout and C_Login.
Logout(t, h) ==
  /\ Entered(t) /\ h \in sessions /\ Counted("ends", MaxEnds)
  /\ Waits(t, "enter", "logout", h, AnyPin)
  /\ UNCHANGED <<card, pinOf, reader, module, attached, slot, objects, sessions, signing, opened,
                 cacheVars>>

Login(t, h, p) ==
  /\ Entered(t) /\ h \in sessions /\ Counted("calls", MaxCalls)
  /\ Waits(t, "enter", "login", h, p)
  /\ UNCHANGED <<card, pinOf, reader, module, attached, slot, objects, sessions, signing, opened,
                 cacheVars>>

\* C_SetPIN logs out first, whatever is held.
SetPin(t, h, p) ==
  /\ PinChange /\ Entered(t) /\ h \in sessions /\ Counted("calls", MaxCalls)
  /\ Waits(t, "enter", "set_pin", h, p)
  /\ UNCHANGED <<card, pinOf, reader, module, attached, slot, objects, sessions, signing, opened,
                 cacheVars>>

LoggedIn == attached /\ held # {}

\* The rest of such a call once it has the cache; MODULE goes at its end.
Enter(t) ==
  /\ th[t].at = "enter" /\ CacheFree /\ mutex' = {}
  /\ \/ /\ th[t].call = "login" /\ LoggedIn
        /\ Returns(t) /\ UNCHANGED <<attached, cacheVars>>
     \/ /\ th[t].call = "login" /\ ~LoggedIn
        /\ attached' = TRUE /\ Goes(t, "probe") /\ UNCHANGED cacheVars
     \/ /\ th[t].call = "logout"
        /\ IF LoggedIn THEN LoginEnds ELSE UNCHANGED cacheVars
        /\ Returns(t) /\ UNCHANGED attached
     \/ /\ th[t].call = "set_pin"
        /\ LoginEnds /\ Goes(t, "probe") /\ UNCHANGED attached
  /\ UNCHANGED <<card, pinOf, reader, module, slot, objects, sessions, signing, opened, counts>>

Clear(t) ==
  /\ th[t].at = "clear" /\ CacheFree /\ mutex' = {} /\ LoginEnds /\ Returns(t)
  /\ UNCHANGED <<card, pinOf, reader, module, attached, slot, objects, sessions, signing, opened,
                 counts>>

\* C_Sign ends the sign operation before it goes to the card.
Sign(t, h) ==
  /\ Entered(t) /\ h \in signing /\ Counted("calls", MaxCalls)
  /\ signing' = signing \ {h} /\ attached' = TRUE
  /\ th' = [th EXCEPT ![t] = [Idle EXCEPT !.at = "probe", !.call = "sign", !.session = h]]
  /\ UNCHANGED <<card, pinOf, reader, module, mutex, slot, objects, sessions, opened, cacheVars>>

-----------------------------------------------------------------------------
(* At the card: card_login, card_sign, card_change_pin1.                     *)

AfterProbe(call) ==
  CASE call = "login" -> "check" [] call = "sign" -> "checkout" [] call = "set_pin" -> "present"

\* The connection, SELECT, the serial and PIN 1's status; pin1_verify_guard.
Probe(t) ==
  /\ th[t].at = "probe"
  /\ IF reader \notin Cards THEN Returns(t) /\ UNCHANGED card
     ELSE /\ SelectedHere
          /\ th' = [th EXCEPT ![t].link = reader, ![t].serial = reader,
                      ![t].status = PinStatus(card'[reader], "pin1"),
                      ![t].at = IF ServedByFloor("pin1", PinStatus(card'[reader], "pin1"))
                                THEN AfterProbe(th[t].call) ELSE "refused"]
  /\ UNCHANGED <<pinOf, reader, moduleVars, cacheVars, counts>>

\* The guard refused: card_login and card_sign destroy what is held.
Refused(t) ==
  /\ th[t].at = "refused" /\ CacheFree /\ Returns(t)
  /\ IF th[t].call = "set_pin" THEN UNCHANGED <<held, current, user>>
     ELSE ClearPositive /\ user' = "out"
  /\ UNCHANGED <<card, pinOf, reader, moduleVars, rejected, counts>>

\* card_login takes the cache and asks its rejection memory.
Check(t) ==
  /\ th[t].at = "check" /\ CacheFree
  /\ IF <<th[t].serial, th[t].pin>> \in rejected THEN Returns(t) ELSE Goes(t, "verify")
  /\ UNCHANGED <<card, pinOf, reader, moduleVars, cacheVars, counts>>

Right(t, p) == p = pinOf[th[t].link]

\* The card verifies a login's PIN, and its answer arrives.
LoginVerified(t) ==
  LET c      == th[t].link
      answer == Answer(card[c], "pin1", Right(t, th[t].pin))
  IN  /\ th[t].at = "verify" /\ c # NoCard
      /\ card' = [card EXCEPT ![c] = Verified(@, "pin1", Right(t, th[t].pin))]
      /\ CASE answer = "ok" -> Hold(c, th[t].pin, th[t].status)
           [] answer = "wrong" -> RecordRejected(c, th[t].pin)
           [] OTHER -> UNCHANGED cacheVars
      /\ Returns(t)
      /\ UNCHANGED <<pinOf, reader, moduleVars, counts>>

\* Mutant: MODULE is wanted again before the cache is let go.
LoginVerifyInModule(t) == ModuleFree /\ LoginVerified(t)

LoginVerify(t) == LoginVerified(t)

\* checkout_pin1: whatever does not fit is destroyed.
Checkout(t) ==
  /\ th[t].at = "checkout" /\ CacheFree
  /\ IF held = {} THEN Returns(t) /\ UNCHANGED cacheVars
     ELSE IF \A e \in held : Fits(e, th[t].serial, th[t].status)
     THEN /\ th' = [th EXCEPT ![t].at = "present", ![t].entry = held]
          /\ held' = {} /\ current' = current \cup {t} /\ UNCHANGED <<rejected, user>>
     ELSE ClearPositive /\ user' = "out" /\ UNCHANGED rejected /\ Returns(t)
  /\ UNCHANGED <<card, pinOf, reader, moduleVars, counts>>

Entry(t) == CHOOSE e \in th[t].entry : TRUE

\* The card verifies a held PIN, and its answer arrives.
SignVerify(t) ==
  LET c == th[t].link
  IN  /\ th[t].at = "present" /\ th[t].call = "sign" /\ c # NoCard
      /\ card' = [card EXCEPT ![c] = Verified(@, "pin1", Right(t, Entry(t).pin))]
      /\ th' = [th EXCEPT ![t].at = "settle",
                          ![t].heard = Answer(card[c], "pin1", Right(t, Entry(t).pin))]
      /\ UNCHANGED <<pinOf, reader, moduleVars, cacheVars, counts>>

\* restore_after_success, record_rejected, restore_after_unanswered; a blocked
\* PIN drops the checkout.
Settle(t) ==
  /\ th[t].at = "settle" /\ CacheFree
  /\ CASE th[t].heard = "wrong" -> RecordRejected(Entry(t).card, Entry(t).pin)
       [] th[t].heard = "lost" \/ (th[t].heard = "ok" /\ ~Entry(t).once) -> Restored(t, th[t].entry)
       [] OTHER -> current' = current \ {t} /\ UNCHANGED <<held, rejected, user>>
  /\ IF th[t].heard = "ok" THEN th' = [th EXCEPT ![t].at = "pso", ![t].entry = {}] ELSE Returns(t)
  /\ UNCHANGED <<card, pinOf, reader, moduleVars, counts>>

\* sign_with_card: the card signs while PIN 1 is verified.
Pso(t) ==
  /\ th[t].at = "pso"
  /\ IF th[t].link # NoCard /\ "pin1" \in card[th[t].link].verified
     THEN Goes(t, "deliver") ELSE Returns(t)
  /\ UNCHANGED <<card, pinOf, reader, moduleVars, cacheVars, counts>>

\* The session is looked up again before the signature is written.
Deliver(t) ==
  /\ th[t].at = "deliver" /\ ModuleFree /\ Returns(t)
  /\ UNCHANGED <<card, pinOf, reader, moduleVars, cacheVars, counts>>

\* change_pin, with the PIN typed as the current value and another as the new.
ChangePin(t, new) ==
  LET c == th[t].link
  IN  /\ th[t].at = "present" /\ th[t].call = "set_pin" /\ c # NoCard
      /\ card' = [card EXCEPT ![c] = PinChanged(@, "pin1", Right(t, th[t].pin))]
      /\ pinOf' = IF Answer(card[c], "pin1", Right(t, th[t].pin)) = "ok"
                  THEN [pinOf EXCEPT ![c] = new] ELSE pinOf
      /\ Returns(t)
      /\ UNCHANGED <<reader, moduleVars, cacheVars, counts>>

\* The command was sent and its answer is lost: the card may have done it.  A
\* dead connection never took it there.
Unanswered(t) ==
  /\ th[t].at \in {"verify", "present"}
  /\ IF th[t].link = NoCard THEN UNCHANGED <<card, counts>>
     ELSE /\ Counted("lost", MaxLost) /\ th[t].call # "set_pin"
          /\ card' = [card EXCEPT ![th[t].link] =
                        Verified(@, "pin1", Right(t, IF th[t].call = "sign" THEN Entry(t).pin
                                                     ELSE th[t].pin))]
  /\ IF th[t].call = "sign" THEN th' = [th EXCEPT ![t].at = "settle", ![t].heard = "lost"]
     ELSE Returns(t)
  /\ UNCHANGED <<pinOf, reader, moduleVars, cacheVars>>

AtCard(t) ==
  \/ Probe(t) \/ Refused(t) \/ Check(t) \/ LoginVerify(t) \/ Checkout(t) \/ SignVerify(t)
  \/ Settle(t) \/ Pso(t) \/ Deliver(t) \/ Unanswered(t)
  \/ \E new \in Pins : ChangePin(t, new)

Continues(t) == Enter(t) \/ Clear(t) \/ AtCard(t)

Begins(t) ==
  \/ \E seen \in BOOLEAN : Initialize(t, seen) \/ Refresh(t, seen)
  \/ Finalize(t) \/ RefreshFails(t) \/ EnsureToken(t) \/ OpenSession(t) \/ CloseAllSessions(t)
  \/ \E h \in sessions : CloseSession(t, h) \/ SignInit(t, h) \/ Logout(t, h) \/ Sign(t, h)
  \/ \E h \in sessions, p \in Pins : Login(t, h, p) \/ SetPin(t, h, p)

Environment ==
  \/ \E c \in Cards : Insert(c)
  \/ Remove \/ Unplug \/ Plug
  \/ \E p \in Pins : OtherPresents(p) \/ OtherChanges(p)

Next == Environment \/ \E t \in Threads : Begins(t) \/ Continues(t)

Spec == Init /\ [][Next]_vars

\* From the probe to what the card's answer leaves in the cache.
InSpan(t) == th[t].at \in {"check", "verify", "checkout", "present", "settle"}

\* One call at a time is there, and no other program is: what one held
\* transaction would give, and this shared connection does not of itself.
Exclusive ==
  \A t \in Threads : InSpan(t) =>
    counts'["other"] = counts["other"] /\ \A u \in Threads \ {t} : ~InSpan(u)'

\* The behaviours in which nobody disturbs a call, however many threads call.
ExclusiveSpec == Init /\ [][Next /\ Exclusive]_vars

-----------------------------------------------------------------------------
(* Properties.                                                               *)

\* A PIN value a card has rejected is held for that card by nobody and never
\* again in this process, however a login, a signature in flight and another
\* program's change of the PIN fall together.
RejectedNeverHeld == \A e \in held : <<e.card, e.pin>> \notin rejected

\* Once a login has ended, by C_Logout, the last session's close, a card or
\* reader gone at a refresh, C_SetPIN, a refusal or C_Finalize, no signature
\* that was in flight brings its PIN back: what is held comes from a later
\* login.
EndedLoginStaysEnded == held # {} => user = "in"

\* A held PIN is presented to the card it was verified on and to no other,
\* whatever is swapped between the login, the checkout and the command.
OwnCardOnly ==
  \A t \in Threads : th[t].entry # {} /\ th[t].link # NoCard => Entry(t).card = th[t].link

\* While calls are under way one of them can go on: the two mutexes are never
\* waited for in a circle, whichever thread is at the card.
NoCircularWait ==
  (\E t \in Threads : th[t].at # "idle") => \E t \in Threads : ENABLED Continues(t)

Presents(t) ==
  \/ th[t].at = "verify" /\ th'[t].at # "verify"
  \/ th[t].at = "present" /\ th[t].call = "sign" /\ th'[t].at = "settle"

\* A PIN value the card rejected "is remembered until process exit and refused
\* locally thereafter, so software cannot burn another card retry with the same
\* value" (pin_cache.rs): neither a login nor a signature presents it.
RefusedThereafter ==
  [][\A t \in Threads : Presents(t) /\ th[t].link # NoCard =>
       <<th[t].link, IF th[t].call = "sign" THEN Entry(t).pin ELSE th[t].pin>> \notin rejected]_vars

Tries == INSTANCE CardTries WITH tries <- [c \in Cards |-> card[c].tries], others <- counts["other"]

\* Over all the steps of C_Login, C_Sign and C_SetPIN the counters of the cards
\* move as the floor promises: a PIN is presented only from three tries up, and
\* the module never blocks one.
KeepsTries == Tries!Spec

=============================================================================
