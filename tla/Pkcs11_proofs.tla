--------------------------- MODULE Pkcs11_proofs ---------------------------
(* Theorems about the PKCS #11 module's two mutexes and its held PIN 1, for   *)
(* any threads, cards, PINs and bounds.                                       *)
EXTENDS Pkcs11, CardChip_proofs

\* A thread's call stands where calls of its kind go, a signature that presents
\* a PIN has checked one out, and what it checked out is of the card it read.
SoundThread(r) ==
  /\ r.at = "idle" => r.call = "none"
  /\ r.at \in {"probe", "refused"} => r.call \in {"login", "sign", "set_pin"}
  /\ r.at \in {"check", "verify"} => r.call = "login"
  /\ r.at \in {"checkout", "settle", "pso", "deliver"} => r.call = "sign"
  /\ r.at = "present" => r.call \in {"sign", "set_pin"}
  /\ r.at \in {"present", "settle"} /\ r.call = "sign" => r.entry # {}
  /\ r.at \notin {"present", "settle"} => r.entry = {}
  /\ \A e \in r.entry : e.card = r.serial
  /\ r.link \in {NoCard, r.serial}

SoundThreads == {r \in ThreadStates : SoundThread(r)}

\* The invariant by parts.
CardsOK == card \in [Cards -> SoundChips] /\ pinOf \in [Cards -> Pins] /\ reader \in Cards \cup {NoCard, NoReader}

ModuleOK ==
  /\ module \in {"none", "up"} /\ mutex \subseteq Threads /\ attached \in BOOLEAN
  /\ slot \in {"unknown", "absent", "present"} /\ objects \in Cards \cup {NoCard}
  /\ sessions \subseteq 1..opened /\ signing \subseteq sessions /\ opened \in 0..MaxSessions

ThreadsOK == th \in [Threads -> SoundThreads]

Bounds == {"calls", "ends", "other", "lost", "inits", "moves"}

CountsOK == counts \in [Bounds -> Nat]

CacheOK ==
  /\ held \subseteq HeldPins /\ current \subseteq Threads /\ rejected \subseteq Cards \X Pins
  /\ user \in {"in", "out"} /\ RejectedNeverHeld

\* A checkout that would be restored is of a value no card has rejected.
CheckoutsGood == \A t \in current : \A e \in th[t].entry : <<e.card, e.pin>> \notin rejected

\* While a PIN is held, or checked out to be restored, the login it came from
\* has not ended.
LoginLives == held # {} \/ current # {} => user = "in"

\* A call that takes or gives the held PIN has looked the reader's cache up:
\* until then there is nothing for the end of a login to clear.
Unattached(r) == r.call # "sign" /\ (r.call = "login" => r.at = "enter")

AttachedFirst == ~attached => held = {} /\ current = {} /\ \A t \in Threads : Unattached(th[t])

DownIsQuiet == module = "none" => ~attached /\ \A t \in Threads : th[t].at = "idle"

\* The inductive invariant.
ModuleInv ==
  /\ CardsOK /\ ModuleOK /\ ThreadsOK /\ CountsOK /\ CacheOK
  /\ CheckoutsGood /\ LoginLives /\ AttachedFirst /\ DownIsQuiet

-----------------------------------------------------------------------------
(* Parts.                                                                    *)

\* A value for what no call has typed.
LEMMA AnyPinTyped == AnyPin \in Pins
BY Pkcs11Assumption DEF AnyPin

\* A thread that is back in the application.
LEMMA IdleSound == Idle \in SoundThreads /\ Idle.entry = {} /\ Unattached(Idle) /\ Idle.at = "idle"
<1>1. Idle \in ThreadStates
  BY AnyPinTyped, Pkcs11Assumption DEF Idle, ThreadStates, Points, Calls, Statuses
<1> QED
  BY <1>1 DEF Idle, SoundThreads, SoundThread, Unattached

\* A count goes up within its type.
LEMMA CountedTyped ==
  ASSUME CountsOK, NEW b \in Bounds, NEW n, Counted(b, n)
  PROVE  CountsOK'
BY DEF CountsOK, Counted

\* The selection of the application in the reader's card.
LEMMA SelectedTyped ==
  ASSUME CardsOK, SelectedHere, UNCHANGED <<pinOf, reader>>
  PROVE  CardsOK'
BY SelectedSound DEF CardsOK, SelectedHere

\* One thread's step, as far as threads go.
LEMMA ThreadStep ==
  ASSUME ThreadsOK, NEW t \in Threads, NEW r \in SoundThreads, th' = [th EXCEPT ![t] = r]
  PROVE  ThreadsOK' /\ th'[t] = r /\ \A u \in Threads \ {t} : th'[u] = th[u]
BY DEF ThreadsOK

\* A thread that returns.
LEMMA ReturnsStep ==
  ASSUME ThreadsOK, NEW t \in Threads, Returns(t)
  PROVE  ThreadsOK' /\ th'[t] = Idle /\ \A u \in Threads \ {t} : th'[u] = th[u]
BY IdleSound, ThreadStep DEF Returns

\* The end of a login leaves nothing held and no checkout to restore, whether
\* or not the cache was looked up.
LEMMA LoginEndsClears ==
  ASSUME ModuleInv, LoginEnds
  PROVE  held' = {} /\ current' = {} /\ rejected' = rejected /\ user' = "out"
BY DEF LoginEnds, ClearPositive, ModuleInv, AttachedFirst

\* An empty cache is sound.
LEMMA EmptyCache ==
  ASSUME held' = {}, current' = {}, rejected' \subseteq Cards \X Pins, user' \in {"in", "out"}
  PROVE  CacheOK' /\ CheckoutsGood' /\ LoginLives'
BY DEF CacheOK, CheckoutsGood, LoginLives, RejectedNeverHeld

\* A step that leaves the cache alone, and checks nothing out.
LEMMA SameCache ==
  ASSUME ModuleInv, UNCHANGED cacheVars, NEW t \in Threads,
         \A u \in Threads \ {t} : th'[u] = th[u],
         th'[t].entry = th[t].entry \/ th'[t].entry = {}
  PROVE  CacheOK' /\ CheckoutsGood' /\ LoginLives'
<1>1. CacheOK' /\ LoginLives'
  BY DEF ModuleInv, CacheOK, LoginLives, RejectedNeverHeld, cacheVars
<1>2. current \subseteq Threads
  BY DEF ModuleInv, CacheOK
<1>3. CheckoutsGood'
  BY <1>2 DEF ModuleInv, CheckoutsGood, cacheVars
<1> QED
  BY <1>1, <1>3

\* A call at the card that takes or gives the held PIN has looked the cache up.
LEMMA AtCardAttached ==
  ASSUME ModuleInv, NEW t \in Threads, th[t].at # "enter", th[t].call \in {"login", "sign"}
  PROVE  attached
BY DEF ModuleInv, AttachedFirst, Unattached

\* A step of a call under way in an attached process.
LEMMA AttachedStep ==
  ASSUME ModuleInv, NEW t \in Threads, th[t].at # "idle", attached' = TRUE, UNCHANGED module
  PROVE  AttachedFirst' /\ DownIsQuiet'
BY DEF ModuleInv, AttachedFirst, DownIsQuiet

\* A step of a call that neither takes nor gives the held PIN.
LEMMA OtherStep ==
  ASSUME ModuleInv, NEW t \in Threads, \A u \in Threads \ {t} : th'[u] = th[u], Unattached(th'[t]),
         UNCHANGED attached, module' = "up", held' = {} \/ held' = held, current' = {} \/ current' = current
  PROVE  AttachedFirst' /\ DownIsQuiet'
<1>1. ASSUME ~attached, NEW u \in Threads PROVE Unattached(th'[u])
  BY <1>1 DEF ModuleInv, AttachedFirst
<1> QED
  BY <1>1 DEF ModuleInv, AttachedFirst, DownIsQuiet, Unattached

\* The module is up while a call is under way.
LEMMA CallMeansUp ==
  ASSUME ModuleInv, NEW t \in Threads, th[t].at # "idle"
  PROVE  module = "up"
BY DEF ModuleInv, ModuleOK, DownIsQuiet

-----------------------------------------------------------------------------
(* The reader, and other programs.                                           *)

\* A card or the reader comes or goes: the connections to it die, and nothing
\* else of a call changes.
LEMMA MovesKeeps ==
  ASSUME ModuleInv, NEW to \in Cards \cup {NoCard, NoReader}, Moves(to)
  PROVE  ModuleInv'
<1>1. UNCHANGED <<pinOf, moduleVars, cacheVars>> /\ reader' = to
  BY DEF Moves
<1>2. CardsOK'
  BY <1>1, SelectedSound DEF Moves, ModuleInv, CardsOK
<1>3. \A t \in Threads : th'[t] = th[t] \/ th'[t] = [th[t] EXCEPT !.link = NoCard]
  BY DEF Moves
<1>4. \A t \in Threads : /\ th'[t] \in SoundThreads /\ th'[t].entry = th[t].entry
                         /\ th'[t].at = th[t].at /\ th'[t].call = th[t].call
  <2> SUFFICES ASSUME NEW t \in Threads
               PROVE  /\ th'[t] \in SoundThreads /\ th'[t].entry = th[t].entry
                      /\ th'[t].at = th[t].at /\ th'[t].call = th[t].call
    OBVIOUS
  <2>1. th[t] \in SoundThreads
    BY DEF ModuleInv, ThreadsOK
  <2>2. CASE th'[t] = th[t]
    BY <2>1, <2>2
  <2>3. CASE th'[t] = [th[t] EXCEPT !.link = NoCard]
    <3>1. th'[t] \in ThreadStates
      BY <2>1, <2>3 DEF SoundThreads, ThreadStates
    <3>2. /\ th'[t].entry = th[t].entry /\ th'[t].at = th[t].at /\ th'[t].call = th[t].call
          /\ th'[t].serial = th[t].serial /\ th'[t].link = NoCard
      BY <2>1, <2>3 DEF SoundThreads, ThreadStates
    <3> QED
      BY <2>1, <3>1, <3>2 DEF SoundThreads, SoundThread
  <2> QED
    BY <1>3, <2>2, <2>3
<1>5. ThreadsOK'
  <2>1. th' = [t \in Threads |-> th'[t]]
    BY DEF Moves
  <2> QED
    BY <1>4, <2>1 DEF ThreadsOK
<1>6. ModuleOK' /\ CacheOK' /\ LoginLives'
  BY <1>1 DEF ModuleInv, ModuleOK, CacheOK, LoginLives, RejectedNeverHeld, moduleVars, cacheVars
<1>7. CountsOK'
  BY CountedTyped DEF ModuleInv, Moves, Bounds
<1>8. CheckoutsGood'
  <2>1. current \subseteq Threads
    BY DEF ModuleInv, CacheOK
  <2> QED
    BY <1>1, <1>4, <2>1 DEF ModuleInv, CheckoutsGood, cacheVars
<1>9. AttachedFirst' /\ DownIsQuiet'
  BY <1>1, <1>4 DEF ModuleInv, AttachedFirst, DownIsQuiet, Unattached, moduleVars, cacheVars
<1> QED
  BY <1>2, <1>5, <1>6, <1>7, <1>8, <1>9 DEF ModuleInv

\* What other programs do stays in the card.
LEMMA OthersKeep ==
  ASSUME ModuleInv, NEW p \in Pins, OtherPresents(p) \/ OtherChanges(p)
  PROVE  ModuleInv'
<1>1. /\ UNCHANGED <<reader, moduleVars, cacheVars, th>> /\ reader \in Cards
      /\ pinOf' = pinOf \/ pinOf' = [pinOf EXCEPT ![reader] = p]
  BY DEF OtherPresents, OtherChanges
<1>2. CardsOK'
  <2>1. card[reader] \in SoundChips /\ "pin1" \in PinSlots /\ "pin1" \in FlooredCredentials
    BY <1>1 DEF ModuleInv, CardsOK, PinSlots, FlooredCredentials
  <2>2. Verified(card[reader], "pin1", p = pinOf[reader]) \in SoundChips /\ PinSet(card[reader], "pin1") \in SoundChips
    BY <2>1, VerifiedSound, PinSetSound DEF Comparison
  <2> QED
    BY <1>1, <2>2 DEF OtherPresents, OtherChanges, ModuleInv, CardsOK
<1>3. CountsOK'
  BY CountedTyped DEF ModuleInv, OtherPresents, OtherChanges, Bounds
<1> QED
  BY <1>1, <1>2, <1>3 DEF ModuleInv, ModuleOK, ThreadsOK, CacheOK, CheckoutsGood, LoginLives,
     AttachedFirst, DownIsQuiet, Unattached, RejectedNeverHeld, moduleVars, cacheVars

\* The environment keeps the invariant.
LEMMA EnvironmentKeeps ==
  ASSUME ModuleInv, Environment
  PROVE  ModuleInv'
BY MovesKeeps, OthersKeep DEF Environment, Insert, Remove, Unplug, Plug

-----------------------------------------------------------------------------
(* Calls that stay inside MODULE.                                            *)

\* The slot record and the token objects come out typed.
LEMMA ObservedTyped ==
  ASSUME ModuleOK, CardsOK, NEW seen \in BOOLEAN, Observed(seen)
  PROVE  slot' \in {"unknown", "absent", "present"} /\ objects' \in Cards \cup {NoCard}
BY DEF ModuleOK, CardsOK, Observed

\* A call that leaves the threads, the cache and what it is attached to alone.
LEMMA InsideKeeps ==
  ASSUME ModuleInv, UNCHANGED <<th, cacheVars, attached>>, module' = "up", CardsOK', ModuleOK', CountsOK'
  PROVE  ModuleInv'
BY DEF ModuleInv, ThreadsOK, CacheOK, CheckoutsGood, LoginLives, AttachedFirst, DownIsQuiet, Unattached,
       RejectedNeverHeld, cacheVars

\* C_Initialize.
LEMMA InitializeKeeps ==
  ASSUME ModuleInv, NEW t \in Threads, NEW seen \in BOOLEAN, Initialize(t, seen)
  PROVE  ModuleInv'
<1>1. CardsOK'
  BY SelectedTyped DEF Initialize, ModuleInv
<1>2. ModuleOK'
  <2>1. slot' \in {"unknown", "absent", "present"} /\ objects' \in Cards \cup {NoCard}
    BY ObservedTyped DEF Initialize, ModuleInv
  <2>2. MaxSessions \in Nat /\ mutex \subseteq Threads
    BY Pkcs11Assumption DEF ModuleInv, ModuleOK
  <2>3. /\ module' = "up" /\ attached' = FALSE /\ sessions' = {} /\ signing' = {} /\ opened' = 0
        /\ mutex' = mutex
    BY DEF Initialize
  <2>4. sessions' \subseteq 1..opened' /\ signing' \subseteq sessions' /\ opened' \in 0..MaxSessions
    BY <2>2, <2>3
  <2> QED
    BY <2>1, <2>2, <2>3, <2>4 DEF ModuleOK
<1>3. CountsOK'
  BY CountedTyped DEF Initialize, ModuleInv, Bounds
<1>4. UNCHANGED <<th, cacheVars, attached>> /\ module' = "up"
  BY DEF Initialize, ModuleInv, DownIsQuiet, ModuleOK
<1> QED
  BY <1>1, <1>2, <1>3, <1>4, InsideKeeps

\* The token objects are built from the card in the reader.
LEMMA TokenTyped ==
  ASSUME CardsOK, ModuleOK, TokenCanBe, TokenBuilt, UNCHANGED <<pinOf, reader>>
  PROVE  CardsOK' /\ objects' \in Cards \cup {NoCard}
<1>1. CASE objects # NoCard
  BY <1>1 DEF TokenBuilt, CardsOK, ModuleOK
<1>2. CASE objects = NoCard
  BY <1>2, SelectedTyped DEF TokenBuilt, TokenCanBe
<1> QED
  BY <1>1, <1>2

\* C_GetTokenInfo, C_OpenSession and C_SignInit.
LEMMA PlainCallsKeep ==
  ASSUME ModuleInv, NEW t \in Threads,
         EnsureToken(t) \/ OpenSession(t) \/ \E h \in sessions : SignInit(t, h)
  PROVE  ModuleInv'
<1>1. UNCHANGED <<th, cacheVars, attached, counts, mutex>> /\ module' = "up" /\ CountsOK'
  BY DEF EnsureToken, OpenSession, SignInit, Entered, ModuleInv, CountsOK
<1>2. CASE EnsureToken(t)
  <2>1. CardsOK' /\ objects' \in Cards \cup {NoCard}
    BY <1>2, TokenTyped DEF EnsureToken, ModuleInv
  <2>2. ModuleOK'
    BY <1>1, <1>2, <2>1 DEF EnsureToken, ModuleInv, ModuleOK
  <2> QED
    BY <1>1, <2>1, <2>2, InsideKeeps
<1>3. CASE OpenSession(t)
  <2>1. CardsOK'
    BY <1>3 DEF OpenSession, ModuleInv, CardsOK
  <2>2. sessions' \subseteq 1..opened' /\ opened' \in 0..MaxSessions
    <3>1. /\ opened < MaxSessions /\ opened' = opened + 1 /\ sessions' = sessions \cup {opened + 1}
          /\ MaxSessions \in Nat /\ opened \in 0..MaxSessions /\ sessions \subseteq 1..opened
      BY <1>3, Pkcs11Assumption DEF OpenSession, ModuleInv, ModuleOK
    <3> QED
      BY <3>1
  <2>3. ModuleOK'
    BY <1>1, <1>3, <2>2 DEF OpenSession, ModuleInv, ModuleOK
  <2> QED
    BY <1>1, <2>1, <2>3, InsideKeeps
<1>4. ASSUME NEW h \in sessions, SignInit(t, h)
      PROVE  ModuleInv'
  <2>1. CardsOK' /\ objects' \in Cards \cup {NoCard}
    BY <1>4, TokenTyped DEF SignInit, ModuleInv
  <2>2. ModuleOK'
    BY <1>1, <1>4, <2>1 DEF SignInit, ModuleInv, ModuleOK
  <2> QED
    BY <1>1, <2>1, <2>2, InsideKeeps
<1> QED
  BY <1>2, <1>3, <1>4

\* A call that goes on to wait for the cache with MODULE held.
LEMMA WaitsKeeps ==
  ASSUME ModuleInv, NEW t \in Threads, NEW point \in {"enter", "clear"},
         NEW call \in {"login", "logout", "set_pin", "other"}, NEW h \in 0..MaxSessions, NEW p \in Pins,
         call = "login" => point = "enter", th[t].at = "idle",
         Waits(t, point, call, h, p), UNCHANGED <<cacheVars, attached>>, module' = "up",
         CardsOK', ModuleOK', CountsOK'
  PROVE  ModuleInv'
<1> DEFINE r == [Idle EXCEPT !.at = point, !.call = call, !.session = h, !.pin = p]
<1>1. r \in SoundThreads /\ Unattached(r) /\ r.entry = {}
  <2>1. /\ r.at = point /\ r.call = call /\ r.entry = {} /\ r.link = NoCard /\ r.serial = NoCard
        /\ r.session = h /\ r.pin = p /\ r.status = "unread" /\ r.heard = "lost"
    BY DEF Idle
  <2>2. r \in ThreadStates
    BY IdleSound DEF SoundThreads, ThreadStates, Points, Calls
  <2> HIDE DEF r
  <2> QED
    BY <2>1, <2>2 DEF SoundThreads, SoundThread, Unattached
<1>2. th' = [th EXCEPT ![t] = r]
  BY DEF Waits
<1> HIDE DEF r
<1>3. ThreadsOK' /\ th'[t] = r /\ \A u \in Threads \ {t} : th'[u] = th[u]
  BY <1>1, <1>2, ThreadStep DEF ModuleInv
<1>4. CacheOK' /\ CheckoutsGood' /\ LoginLives'
  BY <1>1, <1>3, SameCache
<1>5. AttachedFirst' /\ DownIsQuiet'
  BY <1>1, <1>3, OtherStep DEF cacheVars
<1> QED
  BY <1>3, <1>4, <1>5 DEF ModuleInv

\* C_GetSlotList, a refresh that fails, the close of sessions, C_Logout, C_Login
\* and C_SetPIN, up to the cache.
LEMMA WaitingCallsKeep ==
  ASSUME ModuleInv, NEW t \in Threads,
         \/ \E seen \in BOOLEAN : Refresh(t, seen)
         \/ RefreshFails(t) \/ CloseAllSessions(t)
         \/ \E h \in sessions : CloseSession(t, h) \/ Logout(t, h)
         \/ \E h \in sessions, p \in Pins : Login(t, h, p) \/ SetPin(t, h, p)
  PROVE  ModuleInv'
<1>0. /\ 0 \in 0..MaxSessions /\ sessions \subseteq 0..MaxSessions /\ AnyPin \in Pins
      /\ \A u \in Threads : {u} \subseteq Threads
  <2>1. MaxSessions \in Nat /\ opened \in 0..MaxSessions /\ sessions \subseteq 1..opened
    BY Pkcs11Assumption DEF ModuleInv, ModuleOK
  <2> QED
    BY <2>1, AnyPinTyped
<1>1. ASSUME NEW seen \in BOOLEAN, Refresh(t, seen)
      PROVE  ModuleInv'
  <2>1. /\ UNCHANGED <<pinOf, reader, module, attached, sessions, signing, opened, cacheVars, counts>>
        /\ module' = "up" /\ th[t].at = "idle" /\ Observed(seen) /\ SelectedHere
        /\ \/ Waits(t, "clear", "other", 0, AnyPin)
           \/ UNCHANGED <<mutex, th>>
    BY <1>1 DEF Refresh, Entered
  <2>2. CardsOK' /\ CountsOK'
    BY <2>1, SelectedTyped DEF ModuleInv, CountsOK
  <2>3. ModuleOK'
    BY <1>0, <2>1, ObservedTyped DEF ModuleInv, ModuleOK, Waits
  <2>4. CASE Waits(t, "clear", "other", 0, AnyPin)
    BY <1>0, <2>1, <2>2, <2>3, <2>4, WaitsKeeps
  <2>5. CASE UNCHANGED <<mutex, th>>
    BY <2>1, <2>2, <2>3, <2>5, InsideKeeps
  <2> QED
    BY <2>1, <2>4, <2>5
<1>2. CASE RefreshFails(t)
  <2>1. /\ UNCHANGED <<card, pinOf, reader, module, attached, slot, objects, sessions, signing, opened, cacheVars>>
        /\ module' = "up" /\ th[t].at = "idle" /\ Waits(t, "clear", "other", 0, AnyPin)
    BY <1>2 DEF RefreshFails, Entered
  <2>2. CardsOK' /\ CountsOK' /\ ModuleOK'
    BY <1>0, <1>2, <2>1, CountedTyped DEF RefreshFails, ModuleInv, CardsOK, ModuleOK, Waits, Bounds
  <2> QED
    BY <1>0, <2>1, <2>2, WaitsKeeps
<1>3. ASSUME NEW gone, Entered(t), SessionsClosed(t, gone)
      PROVE  ModuleInv'
  <2>1. /\ UNCHANGED <<card, pinOf, reader, module, attached, slot, objects, opened, cacheVars>>
        /\ module' = "up" /\ th[t].at = "idle"
        /\ sessions' = sessions \ gone /\ signing' = signing \ gone
        /\ \/ Waits(t, "clear", "other", 0, AnyPin)
           \/ UNCHANGED <<mutex, th>>
    BY <1>3 DEF SessionsClosed, Entered
  <2>2. CardsOK' /\ CountsOK'
    BY <1>3, <2>1, CountedTyped DEF SessionsClosed, ModuleInv, CardsOK, Bounds
  <2>3. ModuleOK'
    BY <1>0, <2>1 DEF ModuleInv, ModuleOK, Waits
  <2>4. CASE Waits(t, "clear", "other", 0, AnyPin)
    BY <1>0, <2>1, <2>2, <2>3, <2>4, WaitsKeeps
  <2>5. CASE UNCHANGED <<mutex, th>>
    BY <2>1, <2>2, <2>3, <2>5, InsideKeeps
  <2> QED
    BY <2>1, <2>4, <2>5
<1>4. ASSUME NEW h \in sessions, NEW p \in Pins, Logout(t, h) \/ Login(t, h, p) \/ SetPin(t, h, p)
      PROVE  ModuleInv'
  <2>1. /\ UNCHANGED <<card, pinOf, reader, module, attached, slot, objects, sessions, signing, opened, cacheVars>>
        /\ module' = "up" /\ th[t].at = "idle"
        /\ \/ Waits(t, "enter", "logout", h, AnyPin) \/ Waits(t, "enter", "login", h, p)
           \/ Waits(t, "enter", "set_pin", h, p)
    BY <1>4 DEF Logout, Login, SetPin, Entered
  <2>2. CountsOK'
    BY <1>4, CountedTyped DEF Logout, Login, SetPin, ModuleInv, Bounds
  <2>3. CardsOK' /\ ModuleOK'
    BY <1>0, <2>1 DEF ModuleInv, CardsOK, ModuleOK, Waits
  <2> QED
    BY <1>0, <2>1, <2>2, <2>3, WaitsKeeps
<1> QED
  BY <1>1, <1>2, <1>3, <1>4, AnyPinTyped DEF CloseSession, CloseAllSessions

\* C_Finalize, with every other call back: it leaves nothing held.
LEMMA FinalizeKeeps ==
  ASSUME ModuleInv, NEW t \in Threads, Finalize(t)
  PROVE  ModuleInv'
<1>1. held' = {} /\ current' = {} /\ rejected' = rejected /\ user' = "out"
  BY LoginEndsClears DEF Finalize
<1>2. UNCHANGED <<card, pinOf, reader, mutex, th, counts>>
  BY DEF Finalize
<1>3. CacheOK' /\ CheckoutsGood' /\ LoginLives'
  BY <1>1, EmptyCache DEF ModuleInv, CacheOK
<1>4. ModuleOK'
  <2>1. MaxSessions \in Nat /\ mutex \subseteq Threads
    BY Pkcs11Assumption DEF ModuleInv, ModuleOK
  <2>2. /\ module' = "none" /\ slot' = "unknown" /\ objects' = NoCard
        /\ sessions' = {} /\ signing' = {} /\ opened' = 0 /\ attached' = FALSE /\ mutex' = mutex
    BY DEF Finalize
  <2>3. sessions' \subseteq 1..opened' /\ signing' \subseteq sessions' /\ opened' \in 0..MaxSessions
    BY <2>1, <2>2
  <2> QED
    BY <2>1, <2>2, <2>3 DEF ModuleOK
<1>5. \A u \in Threads : Unattached(th[u]) /\ th[u].at = "idle"
  BY DEF Finalize, ModuleInv, ThreadsOK, SoundThreads, SoundThread, Unattached
<1>6. AttachedFirst' /\ DownIsQuiet'
  BY <1>1, <1>2, <1>5 DEF AttachedFirst, DownIsQuiet, Unattached, Finalize
<1>7. CardsOK' /\ ThreadsOK' /\ CountsOK'
  BY <1>2 DEF ModuleInv, CardsOK, ThreadsOK, CountsOK
<1> QED
  BY <1>3, <1>4, <1>6, <1>7 DEF ModuleInv

\* The step that lets MODULE go keeps the module's part.
LEMMA LetGo ==
  ASSUME ModuleInv, mutex' = {} \/ mutex' = mutex, attached' \in BOOLEAN,
         UNCHANGED <<module, slot, objects, sessions, signing, opened>>
  PROVE  ModuleOK'
BY DEF ModuleInv, ModuleOK

\* C_Login, C_Logout and C_SetPIN once they have the cache.
LEMMA EnterKeeps ==
  ASSUME ModuleInv, NEW t \in Threads, Enter(t)
  PROVE  ModuleInv'
<1>1. /\ UNCHANGED <<card, pinOf, reader, module, slot, objects, sessions, signing, opened, counts>>
      /\ mutex' = {} /\ th[t].at = "enter" /\ module = "up"
  BY CallMeansUp DEF Enter
<1>2. CardsOK' /\ CountsOK'
  BY <1>1 DEF ModuleInv, CardsOK, CountsOK
<1>3. [th[t] EXCEPT !.at = "probe"].call = th[t].call /\ [th[t] EXCEPT !.at = "probe"].entry = th[t].entry
      /\ (th[t].call \in {"login", "set_pin"} => [th[t] EXCEPT !.at = "probe"] \in SoundThreads)
  BY <1>1 DEF ModuleInv, ThreadsOK, SoundThreads, SoundThread, ThreadStates, Points
<1>4. Goes(t, "probe") => th' = [th EXCEPT ![t] = [th[t] EXCEPT !.at = "probe"]]
  BY DEF Goes, ModuleInv, ThreadsOK
<1>5. attached \in BOOLEAN /\ rejected \subseteq Cards \X Pins
  BY DEF ModuleInv, ModuleOK, CacheOK
<1>6. CASE th[t].call = "login" /\ Returns(t) /\ UNCHANGED <<attached, cacheVars>>
  <2>1. ThreadsOK' /\ th'[t] = Idle /\ \A u \in Threads \ {t} : th'[u] = th[u]
    BY <1>6, ReturnsStep DEF ModuleInv
  <2>2. CacheOK' /\ CheckoutsGood' /\ LoginLives'
    BY <1>6, <2>1, SameCache, IdleSound
  <2>3. AttachedFirst' /\ DownIsQuiet'
    BY <1>1, <1>6, <2>1, OtherStep, IdleSound DEF cacheVars
  <2> QED
    BY <1>1, <1>2, <1>5, <1>6, <2>1, <2>2, <2>3, LetGo DEF ModuleInv
<1>7. CASE th[t].call = "login" /\ attached' = TRUE /\ Goes(t, "probe") /\ UNCHANGED cacheVars
  <2>1. ThreadsOK' /\ th'[t].entry = th[t].entry /\ \A u \in Threads \ {t} : th'[u] = th[u]
    BY <1>3, <1>4, <1>7, ThreadStep DEF ModuleInv
  <2>2. CacheOK' /\ CheckoutsGood' /\ LoginLives'
    BY <1>7, <2>1, SameCache
  <2>3. AttachedFirst' /\ DownIsQuiet'
    BY <1>1, <1>7, AttachedStep
  <2>4. attached' \in BOOLEAN
    BY <1>7
  <2> QED
    BY <1>1, <1>2, <2>1, <2>2, <2>3, <2>4, LetGo DEF ModuleInv
<1>8. CASE th[t].call = "logout" /\ Returns(t) /\ UNCHANGED attached
           /\ IF LoggedIn THEN LoginEnds ELSE UNCHANGED cacheVars
  <2>1. ThreadsOK' /\ th'[t] = Idle /\ \A u \in Threads \ {t} : th'[u] = th[u]
    BY <1>8, ReturnsStep DEF ModuleInv
  <2>2. CASE LoginEnds
    <3>1. held' = {} /\ current' = {} /\ rejected' = rejected /\ user' = "out"
      BY <2>2, LoginEndsClears
    <3>2. CacheOK' /\ CheckoutsGood' /\ LoginLives'
      BY <1>5, <3>1, EmptyCache
    <3>3. AttachedFirst' /\ DownIsQuiet'
      BY <1>1, <1>8, <2>1, <3>1, OtherStep, IdleSound
    <3> QED
      BY <1>1, <1>2, <1>5, <1>8, <2>1, <3>2, <3>3, LetGo DEF ModuleInv
  <2>3. CASE UNCHANGED cacheVars
    <3>1. CacheOK' /\ CheckoutsGood' /\ LoginLives'
      BY <2>1, <2>3, SameCache, IdleSound
    <3>2. AttachedFirst' /\ DownIsQuiet'
      BY <1>1, <1>8, <2>1, <2>3, OtherStep, IdleSound DEF cacheVars
    <3> QED
      BY <1>1, <1>2, <1>5, <1>8, <2>1, <3>1, <3>2, LetGo DEF ModuleInv
  <2> QED
    BY <1>8, <2>2, <2>3
<1>9. CASE th[t].call = "set_pin" /\ LoginEnds /\ Goes(t, "probe") /\ UNCHANGED attached
  <2>1. ThreadsOK' /\ th'[t].call = "set_pin" /\ \A u \in Threads \ {t} : th'[u] = th[u]
    BY <1>3, <1>4, <1>9, ThreadStep DEF ModuleInv
  <2>2. held' = {} /\ current' = {} /\ rejected' = rejected /\ user' = "out"
    BY <1>9, LoginEndsClears
  <2>3. CacheOK' /\ CheckoutsGood' /\ LoginLives'
    BY <1>5, <2>2, EmptyCache
  <2>4. AttachedFirst' /\ DownIsQuiet'
    BY <1>1, <1>9, <2>1, <2>2, OtherStep DEF Unattached
  <2> QED
    BY <1>1, <1>2, <1>5, <1>9, <2>1, <2>3, <2>4, LetGo DEF ModuleInv
<1> QED
  BY <1>6, <1>7, <1>8, <1>9 DEF Enter

\* What ends a login once it has the cache: a refresh that invalidates the
\* slot, the last session's close.
LEMMA ClearKeeps ==
  ASSUME ModuleInv, NEW t \in Threads, Clear(t)
  PROVE  ModuleInv'
<1>1. /\ UNCHANGED <<card, pinOf, reader, module, attached, slot, objects, sessions, signing, opened, counts>>
      /\ mutex' = {} /\ Returns(t) /\ module = "up"
  BY CallMeansUp DEF Clear
<1>2. held' = {} /\ current' = {} /\ rejected' = rejected /\ user' = "out"
  BY LoginEndsClears DEF Clear
<1>3. CacheOK' /\ CheckoutsGood' /\ LoginLives'
  BY <1>2, EmptyCache DEF ModuleInv, CacheOK
<1>4. ThreadsOK' /\ th'[t] = Idle /\ \A u \in Threads \ {t} : th'[u] = th[u]
  BY <1>1, ReturnsStep DEF ModuleInv
<1>5. AttachedFirst' /\ DownIsQuiet'
  BY <1>1, <1>2, <1>4, OtherStep, IdleSound
<1>6. CardsOK' /\ CountsOK' /\ ModuleOK'
  BY <1>1, LetGo DEF ModuleInv, CardsOK, CountsOK, ModuleOK
<1> QED
  BY <1>3, <1>4, <1>5, <1>6 DEF ModuleInv

\* C_Sign, up to the card.
LEMMA SignKeeps ==
  ASSUME ModuleInv, NEW t \in Threads, NEW h \in sessions, Sign(t, h)
  PROVE  ModuleInv'
<1> DEFINE r == [Idle EXCEPT !.at = "probe", !.call = "sign", !.session = h]
<1>1. /\ UNCHANGED <<card, pinOf, reader, module, mutex, slot, objects, sessions, opened, cacheVars>>
      /\ module = "up" /\ attached' = TRUE /\ signing' = signing \ {h} /\ th' = [th EXCEPT ![t] = r]
  BY DEF Sign, Entered
<1>2. r \in SoundThreads /\ r.entry = {}
  <2>1. h \in 0..MaxSessions
    <3>1. MaxSessions \in Nat /\ opened \in 0..MaxSessions /\ sessions \subseteq 1..opened
      BY Pkcs11Assumption DEF ModuleInv, ModuleOK
    <3> QED
      BY <3>1
  <2>2. r \in ThreadStates /\ r.entry = {} /\ r.at = "probe" /\ r.call = "sign" /\ r.link = NoCard
    BY <2>1, IdleSound DEF Idle, SoundThreads, ThreadStates, Points, Calls
  <2> HIDE DEF r
  <2> QED
    BY <2>2 DEF SoundThreads, SoundThread
<1> HIDE DEF r
<1>3. ThreadsOK' /\ th'[t] = r /\ \A u \in Threads \ {t} : th'[u] = th[u]
  BY <1>1, <1>2, ThreadStep DEF ModuleInv
<1>4. CacheOK' /\ CheckoutsGood' /\ LoginLives'
  BY <1>1, <1>2, <1>3, SameCache
<1>5. AttachedFirst' /\ DownIsQuiet'
  BY <1>1 DEF AttachedFirst, DownIsQuiet
<1>6. ModuleOK'
  BY <1>1 DEF ModuleInv, ModuleOK
<1>7. CardsOK' /\ CountsOK'
  BY <1>1, CountedTyped DEF ModuleInv, CardsOK, Sign, Bounds
<1> QED
  BY <1>3, <1>4, <1>5, <1>6, <1>7 DEF ModuleInv

-----------------------------------------------------------------------------
(* At the card.                                                              *)

\* A step at the card keeps the invariant when its parts do.
LEMMA AtCardKeeps ==
  ASSUME ModuleInv, NEW t \in Threads, th[t].at \notin {"idle", "enter"}, NEW r \in SoundThreads,
         th' = [th EXCEPT ![t] = r], UNCHANGED moduleVars, CardsOK', CountsOK',
         CacheOK', CheckoutsGood', LoginLives',
         \/ th[t].call \in {"login", "sign"}
         \/ /\ Unattached(r) /\ held' \in {held, {}} /\ current' \in {current, {}}
  PROVE  ModuleInv'
<1>1. ThreadsOK' /\ th'[t] = r /\ \A u \in Threads \ {t} : th'[u] = th[u]
  BY ThreadStep DEF ModuleInv
<1>2. ModuleOK' /\ module' = module /\ attached' = attached /\ attached \in BOOLEAN /\ module = "up"
  BY CallMeansUp DEF ModuleInv, ModuleOK, moduleVars
<1>3. CASE th[t].call \in {"login", "sign"}
  <2>1. attached' = TRUE
    BY <1>2, <1>3, AtCardAttached
  <2>2. AttachedFirst' /\ DownIsQuiet'
    BY <1>2, <2>1, AttachedStep
  <2> QED
    BY <1>1, <1>2, <2>2 DEF ModuleInv
<1>4. CASE Unattached(r) /\ held' \in {held, {}} /\ current' \in {current, {}}
  <2>1. AttachedFirst' /\ DownIsQuiet'
    BY <1>1, <1>2, <1>4, OtherStep
  <2> QED
    BY <1>1, <1>2, <2>1 DEF ModuleInv
<1> QED
  BY <1>3, <1>4

\* The same for a step that leaves the cache alone.
LEMMA AtCardSameCache ==
  ASSUME ModuleInv, NEW t \in Threads, th[t].at \notin {"idle", "enter"}, NEW r \in SoundThreads,
         th' = [th EXCEPT ![t] = r], UNCHANGED <<moduleVars, cacheVars>>, CardsOK', CountsOK',
         r.entry = th[t].entry \/ r.entry = {},
         th[t].call \in {"login", "sign"} \/ Unattached(r)
  PROVE  ModuleInv'
<1>1. th'[t] = r /\ \A u \in Threads \ {t} : th'[u] = th[u]
  BY ThreadStep DEF ModuleInv
<1>2. CacheOK' /\ CheckoutsGood' /\ LoginLives'
  BY <1>1, SameCache
<1> QED
  BY <1>2, AtCardKeeps DEF cacheVars

\* What a command to PIN 1 leaves of the cards.
LEMMA PresentedTyped ==
  ASSUME ModuleInv, NEW c \in Cards, NEW right \in BOOLEAN, UNCHANGED <<reader>>, pinOf' \in [Cards -> Pins],
         \/ card' = [card EXCEPT ![c] = Verified(card[c], "pin1", right)]
         \/ card' = [card EXCEPT ![c] = PinChanged(card[c], "pin1", right)]
  PROVE  CardsOK'
<1>1. card[c] \in SoundChips /\ "pin1" \in PinSlots /\ "pin1" \in FlooredCredentials
  BY DEF ModuleInv, CardsOK, PinSlots, FlooredCredentials
<1>2. Verified(card[c], "pin1", right) \in SoundChips /\ PinChanged(card[c], "pin1", right) \in SoundChips
  BY <1>1, VerifiedSound, PinChangedSound DEF Comparison
<1> QED
  BY <1>2 DEF ModuleInv, CardsOK

\* What a thread at the card has.
LEMMA ThreadFinds ==
  ASSUME ModuleInv, NEW t \in Threads
  PROVE  /\ th[t] \in SoundThreads /\ th[t] \in ThreadStates /\ SoundThread(th[t])
         /\ th[t].link # NoCard => th[t].link \in Cards
         /\ th[t].entry # {} => Entry(t) \in th[t].entry /\ Entry(t) \in HeldPins
BY DEF ModuleInv, ThreadsOK, SoundThreads, ThreadStates, Entry

\* The probe gives the call its card and its status.
LEMMA ProbeKeeps ==
  ASSUME ModuleInv, NEW t \in Threads, Probe(t)
  PROVE  ModuleInv'
<1>1. UNCHANGED <<pinOf, reader, moduleVars, cacheVars, counts>> /\ th[t].at = "probe" /\ CountsOK'
  BY DEF Probe, ModuleInv, CountsOK
<1>2. th[t].call \in {"login", "sign", "set_pin"} /\ th[t] \in ThreadStates /\ SoundThread(th[t])
  BY <1>1, ThreadFinds DEF SoundThread
<1>3. CASE reader \notin Cards
  <2>1. th' = [th EXCEPT ![t] = Idle] /\ card' = card
    BY <1>3 DEF Probe, Returns
  <2>2. CardsOK'
    BY <1>1, <2>1 DEF ModuleInv, CardsOK
  <2> QED
    BY <1>1, <2>1, <2>2, AtCardSameCache, IdleSound
<1>4. CASE reader \in Cards
  <2> DEFINE status == PinStatus(card'[reader], "pin1")
             point  == IF ServedByFloor("pin1", status) THEN AfterProbe(th[t].call) ELSE "refused"
             r      == [th[t] EXCEPT !.link = reader, !.serial = reader, !.status = status, !.at = point]
  <2>1. SelectedHere /\ th' = [th EXCEPT ![t] = r]
    BY <1>4 DEF Probe, ModuleInv, ThreadsOK
  <2>2. CardsOK'
    BY <1>1, <2>1, SelectedTyped DEF ModuleInv
  <2>3. status \in Statuses
    BY <1>1, <1>4, <2>2, PinStatusTyped DEF CardsOK, PinSlots
  <2>4. /\ point \in {"check", "checkout", "present", "refused"}
        /\ point = "check" => th[t].call = "login"
        /\ point = "checkout" => th[t].call = "sign"
        /\ point = "present" => th[t].call = "set_pin"
    BY <1>2 DEF AfterProbe
  <2>5. th[t].entry = {}
    BY <1>1, <1>2 DEF SoundThread
  <2> HIDE DEF status, point
  <2>6. r \in SoundThreads /\ r.entry = {} /\ r.call = th[t].call
    <3>1. r \in ThreadStates
      BY <1>2, <1>4, <2>3, <2>4 DEF ThreadStates, Points
    <3>2. /\ r.at = point /\ r.call = th[t].call /\ r.entry = {} /\ r.link = reader /\ r.serial = reader
      BY <1>2, <2>5 DEF ThreadStates
    <3> HIDE DEF r
    <3> QED
      BY <1>2, <2>4, <3>1, <3>2 DEF SoundThreads, SoundThread
  <2>7. th[t].call = "set_pin" => Unattached(r)
    BY <2>6 DEF Unattached
  <2> HIDE DEF r
  <2> QED
    BY <1>1, <1>2, <2>1, <2>2, <2>6, <2>7, AtCardSameCache
<1> QED
  BY <1>3, <1>4

\* The guard refuses: a login and a signature leave nothing held.
LEMMA RefusedKeeps ==
  ASSUME ModuleInv, NEW t \in Threads, Refused(t)
  PROVE  ModuleInv'
<1>1. /\ UNCHANGED <<card, pinOf, reader, moduleVars, rejected, counts>> /\ th[t].at = "refused"
      /\ th' = [th EXCEPT ![t] = Idle]
  BY DEF Refused, Returns
<1>2. CardsOK' /\ CountsOK'
  BY <1>1 DEF ModuleInv, CardsOK, CountsOK
<1>3. CASE th[t].call = "set_pin"
  <2>1. UNCHANGED cacheVars
    BY <1>1, <1>3 DEF Refused, cacheVars
  <2> QED
    BY <1>1, <1>2, <2>1, AtCardSameCache, IdleSound
<1>4. CASE th[t].call # "set_pin"
  <2>1. held' = {} /\ current' = {} /\ user' = "out"
    BY <1>4 DEF Refused, ClearPositive
  <2>2. CacheOK' /\ CheckoutsGood' /\ LoginLives'
    BY <1>1, <2>1, EmptyCache DEF ModuleInv, CacheOK
  <2> QED
    BY <1>1, <1>2, <2>1, <2>2, AtCardKeeps, IdleSound
<1> QED
  BY <1>3, <1>4

\* A step that moves a call on, or back.
LEMMA GoesOn ==
  ASSUME ModuleInv, NEW t \in Threads, UNCHANGED <<card, pinOf, reader, moduleVars, cacheVars, counts>>,
         \/ th[t].at \notin {"idle", "enter"} /\ Returns(t)
         \/ th[t].at = "check" /\ Goes(t, "verify")
         \/ th[t].at = "pso" /\ Goes(t, "deliver")
  PROVE  ModuleInv'
<1>1. CardsOK' /\ CountsOK'
  BY DEF ModuleInv, CardsOK, CountsOK
<1>2. CASE Returns(t) /\ th[t].at \notin {"idle", "enter"}
  BY <1>1, <1>2, AtCardSameCache, IdleSound DEF Returns
<1>3. ASSUME NEW point, <<th[t].at, point>> \in {<<"check", "verify">>, <<"pso", "deliver">>}, Goes(t, point)
      PROVE  ModuleInv'
  <2> DEFINE r == [th[t] EXCEPT !.at = point]
  <2>1. th' = [th EXCEPT ![t] = r]
    BY <1>3 DEF Goes, ModuleInv, ThreadsOK
  <2>2. th[t] \in ThreadStates /\ SoundThread(th[t]) /\ th[t].call \in {"login", "sign"}
    BY <1>3, ThreadFinds DEF SoundThread
  <2>3. r \in SoundThreads /\ r.entry = th[t].entry
    BY <1>3, <2>2 DEF SoundThreads, SoundThread, ThreadStates, Points
  <2> HIDE DEF r
  <2> QED
    BY <1>1, <1>3, <2>1, <2>2, <2>3, AtCardSameCache
<1> QED
  BY <1>2, <1>3

\* A login: only a value the card has not rejected comes to be held.
LEMMA LoginVerifyKeeps ==
  ASSUME ModuleInv, NEW t \in Threads, LoginVerify(t)
  PROVE  ModuleInv'
<1> DEFINE c      == th[t].link
           right  == Right(t, th[t].pin)
           answer == Answer(card[c], "pin1", right)
<1>1. /\ UNCHANGED <<pinOf, reader, moduleVars, counts>> /\ th[t].at = "verify" /\ c # NoCard
      /\ card' = [card EXCEPT ![c] = Verified(card[c], "pin1", right)]
      /\ th' = [th EXCEPT ![t] = Idle]
  BY DEF LoginVerify, LoginVerified, Returns
<1>2. c \in Cards /\ th[t].call = "login" /\ th[t].pin \in Pins /\ right \in BOOLEAN
  BY <1>1, ThreadFinds DEF SoundThread, ThreadStates, Right
<1>3. CardsOK' /\ CountsOK'
  BY <1>1, <1>2, PresentedTyped DEF ModuleInv, CardsOK, CountsOK
<1>4. \/ UNCHANGED cacheVars
      \/ Hold(c, th[t].pin, th[t].status)
      \/ RecordRejected(c, th[t].pin)
  BY DEF LoginVerify, LoginVerified
<1>5. rejected \subseteq Cards \X Pins
  BY DEF ModuleInv, CacheOK
<1>6. CASE UNCHANGED cacheVars
  BY <1>1, <1>2, <1>3, <1>6, AtCardSameCache, IdleSound
<1>7. CASE Hold(c, th[t].pin, th[t].status) /\ ~UNCHANGED cacheVars
  <2> DEFINE e == Holding(c, th[t].pin, th[t].status)
  <2>1. held' = {e} /\ current' = {} /\ user' = "in" /\ rejected' = rejected /\ <<c, th[t].pin>> \notin rejected
    BY <1>7 DEF Hold
  <2>2. e \in HeldPins /\ e.card = c /\ e.pin = th[t].pin
    BY <1>2 DEF Holding, HeldPins
  <2> HIDE DEF e
  <2>3. CacheOK' /\ CheckoutsGood' /\ LoginLives'
    BY <1>5, <2>1, <2>2 DEF CacheOK, CheckoutsGood, LoginLives, RejectedNeverHeld
  <2> QED
    BY <1>1, <1>2, <1>3, <2>3, AtCardKeeps, IdleSound
<1>8. CASE RecordRejected(c, th[t].pin)
  <2>1. held' = {} /\ current' = {} /\ user' = "out" /\ rejected' \subseteq Cards \X Pins
    BY <1>2, <1>5, <1>8 DEF RecordRejected, ClearPositive
  <2>2. CacheOK' /\ CheckoutsGood' /\ LoginLives'
    BY <2>1, EmptyCache
  <2> QED
    BY <1>1, <1>2, <1>3, <2>2, AtCardKeeps, IdleSound
<1> QED
  BY <1>4, <1>6, <1>7, <1>8

\* A checkout takes a PIN of the card the signature reads, and destroys another.
LEMMA CheckoutKeeps ==
  ASSUME ModuleInv, NEW t \in Threads, Checkout(t)
  PROVE  ModuleInv'
<1>1. UNCHANGED <<card, pinOf, reader, moduleVars, counts>> /\ th[t].at = "checkout"
  BY DEF Checkout
<1>2. CardsOK' /\ CountsOK' /\ th[t].call = "sign" /\ th[t] \in ThreadStates /\ SoundThread(th[t])
  BY <1>1, ThreadFinds DEF ModuleInv, CardsOK, CountsOK, SoundThread
<1>3. CASE held = {}
  BY <1>1, <1>2, <1>3, AtCardSameCache, IdleSound DEF Checkout, Returns
<1>4. CASE held # {} /\ \A e \in held : Fits(e, th[t].serial, th[t].status)
  <2> DEFINE r == [th[t] EXCEPT !.at = "present", !.entry = held]
  <2>1. /\ th' = [th EXCEPT ![t] = r] /\ held' = {} /\ current' = current \cup {t}
        /\ UNCHANGED <<rejected, user>>
    BY <1>4 DEF Checkout, ModuleInv, ThreadsOK
  <2>2. held \subseteq HeldPins /\ \A e \in held : e.card = th[t].serial
    BY <1>4 DEF ModuleInv, CacheOK, Fits
  <2>3. r \in SoundThreads /\ r.entry = held
    <3>1. r \in ThreadStates
      BY <1>2, <2>2 DEF ThreadStates, Points
    <3>2. /\ r.at = "present" /\ r.call = "sign" /\ r.entry = held /\ r.link = th[t].link
          /\ r.serial = th[t].serial
      BY <1>2 DEF ThreadStates
    <3> HIDE DEF r
    <3> QED
      BY <1>2, <1>4, <2>2, <3>1, <3>2 DEF SoundThreads, SoundThread
  <2> HIDE DEF r
  <2>4. th'[t] = r /\ \A u \in Threads \ {t} : th'[u] = th[u]
    BY <2>1, <2>3, ThreadStep DEF ModuleInv
  <2>5. CacheOK' /\ LoginLives'
    BY <1>4, <2>1 DEF ModuleInv, CacheOK, LoginLives, RejectedNeverHeld
  <2>6. CheckoutsGood'
    <3>1. current \subseteq Threads /\ \A e \in held : <<e.card, e.pin>> \notin rejected
      BY DEF ModuleInv, CacheOK, RejectedNeverHeld
    <3> QED
      BY <2>1, <2>3, <2>4, <3>1 DEF ModuleInv, CheckoutsGood
  <2> QED
    BY <1>1, <1>2, <2>1, <2>3, <2>5, <2>6, AtCardKeeps
<1>5. CASE held # {} /\ ~(\A e \in held : Fits(e, th[t].serial, th[t].status))
  <2>1. held' = {} /\ current' = {} /\ user' = "out" /\ rejected' = rejected /\ th' = [th EXCEPT ![t] = Idle]
    BY <1>5 DEF Checkout, ClearPositive, Returns
  <2>2. CacheOK' /\ CheckoutsGood' /\ LoginLives'
    BY <2>1, EmptyCache DEF ModuleInv, CacheOK
  <2> QED
    BY <1>1, <1>2, <2>1, <2>2, AtCardKeeps, IdleSound
<1> QED
  BY <1>3, <1>4, <1>5

\* A signature that has heard the card, or has lost its answer.
LEMMA HeardSound ==
  ASSUME ModuleInv, NEW t \in Threads, th[t].at = "present", th[t].call = "sign",
         NEW heard \in {"ok", "wrong", "locked", "lost"}
  PROVE  /\ [th[t] EXCEPT !.at = "settle", !.heard = heard] \in SoundThreads
         /\ [th[t] EXCEPT !.at = "settle", !.heard = heard].entry = th[t].entry
BY ThreadFinds DEF SoundThreads, SoundThread, ThreadStates, Points

\* The card verifies a held PIN.
LEMMA SignVerifyKeeps ==
  ASSUME ModuleInv, NEW t \in Threads, SignVerify(t)
  PROVE  ModuleInv'
<1> DEFINE c      == th[t].link
           right  == Right(t, Entry(t).pin)
           answer == Answer(card[c], "pin1", right)
           r      == [th[t] EXCEPT !.at = "settle", !.heard = answer]
<1>1. /\ UNCHANGED <<pinOf, reader, moduleVars, cacheVars, counts>> /\ th[t].at = "present" /\ c # NoCard
      /\ th[t].call = "sign" /\ card' = [card EXCEPT ![c] = Verified(card[c], "pin1", right)]
      /\ th' = [th EXCEPT ![t] = r]
  BY DEF SignVerify, ModuleInv, ThreadsOK
<1>2. c \in Cards /\ right \in BOOLEAN /\ answer \in {"ok", "wrong", "locked", "lost"}
  BY <1>1, ThreadFinds DEF Right, Answer
<1>3. CardsOK' /\ CountsOK'
  BY <1>1, <1>2, PresentedTyped DEF ModuleInv, CardsOK, CountsOK
<1> HIDE DEF answer
<1>4. r \in SoundThreads /\ r.entry = th[t].entry
  BY <1>1, <1>2, HeardSound
<1> HIDE DEF r
<1> QED
  BY <1>1, <1>3, <1>4, AtCardSameCache

\* What a signature does with its checkout: a rejected value goes, and one that
\* an invalidation has outdated does not come back.
LEMMA SettleKeeps ==
  ASSUME ModuleInv, NEW t \in Threads, Settle(t)
  PROVE  ModuleInv'
<1> DEFINE gone == [th[t] EXCEPT !.at = "pso", !.entry = {}]
           r    == IF th[t].heard = "ok" THEN gone ELSE Idle
<1>1. /\ UNCHANGED <<card, pinOf, reader, moduleVars, counts>> /\ th[t].at = "settle"
      /\ th' = [th EXCEPT ![t] = r]
  BY DEF Settle, Returns, ModuleInv, ThreadsOK
<1>2. th[t].call = "sign" /\ th[t] \in ThreadStates /\ SoundThread(th[t]) /\ Entry(t) \in HeldPins
  BY <1>1, ThreadFinds DEF SoundThread
<1>3. CardsOK' /\ CountsOK'
  BY <1>1 DEF ModuleInv, CardsOK, CountsOK
<1>4. r \in SoundThreads /\ r.entry = {}
  <2>1. gone \in SoundThreads /\ gone.entry = {}
    BY <1>1, <1>2 DEF SoundThreads, SoundThread, ThreadStates, Points
  <2> HIDE DEF gone
  <2> QED
    BY <2>1, IdleSound
<1> HIDE DEF r, gone
<1>5. th'[t] = r /\ \A u \in Threads \ {t} : th'[u] = th[u]
  BY <1>1, <1>4, ThreadStep DEF ModuleInv
<1>6. \/ RecordRejected(Entry(t).card, Entry(t).pin)
      \/ Restored(t, th[t].entry)
      \/ current' = current \ {t} /\ UNCHANGED <<held, rejected, user>>
  BY DEF Settle
<1>7. CASE RecordRejected(Entry(t).card, Entry(t).pin)
  <2>1. held' = {} /\ current' = {} /\ user' = "out" /\ rejected' \subseteq Cards \X Pins
    BY <1>2, <1>7 DEF RecordRejected, ClearPositive, HeldPins, ModuleInv, CacheOK
  <2>2. CacheOK' /\ CheckoutsGood' /\ LoginLives'
    BY <2>1, EmptyCache
  <2> QED
    BY <1>1, <1>2, <1>3, <1>4, <2>2, AtCardKeeps
<1>8. ASSUME current' = current \ {t}, UNCHANGED <<rejected, user>>,
             held' = held \/ (held' = th[t].entry /\ t \in current)
      PROVE  ModuleInv'
  <2>1. CacheOK' /\ LoginLives'
    BY <1>2, <1>8 DEF ModuleInv, CacheOK, LoginLives, CheckoutsGood, RejectedNeverHeld, ThreadStates
  <2>2. CheckoutsGood'
    <3>1. current \subseteq Threads
      BY DEF ModuleInv, CacheOK
    <3> QED
      BY <1>5, <1>8, <3>1 DEF ModuleInv, CheckoutsGood
  <2> QED
    BY <1>1, <1>2, <1>3, <1>4, <2>1, <2>2, AtCardKeeps
<1> QED
  BY <1>6, <1>7, <1>8 DEF Restored

\* C_SetPIN at the card.
LEMMA ChangePinKeeps ==
  ASSUME ModuleInv, NEW t \in Threads, NEW new \in Pins, ChangePin(t, new)
  PROVE  ModuleInv'
<1> DEFINE c     == th[t].link
           right == Right(t, th[t].pin)
<1>1. /\ UNCHANGED <<reader, moduleVars, cacheVars, counts>> /\ th[t].at = "present" /\ c # NoCard
      /\ card' = [card EXCEPT ![c] = PinChanged(card[c], "pin1", right)]
      /\ pinOf' = pinOf \/ pinOf' = [pinOf EXCEPT ![c] = new]
      /\ th' = [th EXCEPT ![t] = Idle]
  BY DEF ChangePin, Returns
<1>2. c \in Cards /\ right \in BOOLEAN
  BY <1>1, ThreadFinds DEF Right
<1>3. pinOf' \in [Cards -> Pins]
  BY <1>1, <1>2 DEF ModuleInv, CardsOK
<1>4. CardsOK' /\ CountsOK'
  BY <1>1, <1>2, <1>3, PresentedTyped DEF ModuleInv, CountsOK
<1> QED
  BY <1>1, <1>4, AtCardSameCache, IdleSound

\* A command whose answer is lost, or which never reached the card.
LEMMA UnansweredKeeps ==
  ASSUME ModuleInv, NEW t \in Threads, Unanswered(t)
  PROVE  ModuleInv'
<1> DEFINE r == IF th[t].call = "sign" THEN [th[t] EXCEPT !.at = "settle", !.heard = "lost"] ELSE Idle
<1>1. /\ UNCHANGED <<pinOf, reader, moduleVars, cacheVars>> /\ th[t].at \in {"verify", "present"}
      /\ th' = [th EXCEPT ![t] = r]
  BY DEF Unanswered, Returns, ModuleInv, ThreadsOK
<1>2. CountsOK'
  BY CountedTyped DEF Unanswered, ModuleInv, CountsOK, Bounds
<1>3. CardsOK'
  <2>1. CASE th[t].link = NoCard
    BY <1>1, <2>1 DEF Unanswered, ModuleInv, CardsOK
  <2>2. CASE th[t].link # NoCard
    <3> DEFINE right == Right(t, IF th[t].call = "sign" THEN Entry(t).pin ELSE th[t].pin)
    <3>1. card' = [card EXCEPT ![th[t].link] = Verified(card[th[t].link], "pin1", right)]
      BY <2>2 DEF Unanswered
    <3>2. th[t].link \in Cards /\ right \in BOOLEAN
      BY <2>2, ThreadFinds DEF Right
    <3> HIDE DEF right
    <3> QED
      BY <1>1, <3>1, <3>2, PresentedTyped DEF ModuleInv, CardsOK
  <2> QED
    BY <2>1, <2>2
<1>4. r \in SoundThreads /\ (r.entry = th[t].entry \/ r.entry = {}) /\ (th[t].call # "sign" => Unattached(r))
  <2>1. th[t].call = "sign" => th[t].at = "present"
    BY <1>1, ThreadFinds DEF SoundThread
  <2> QED
    BY <1>1, <2>1, HeardSound, IdleSound
<1> HIDE DEF r
<1> QED
  BY <1>1, <1>2, <1>3, <1>4, AtCardSameCache

-----------------------------------------------------------------------------
(* The theorems.                                                             *)

\* The states the process starts in.
LEMMA InitInv == Init => ModuleInv
<1> SUFFICES ASSUME Init PROVE ModuleInv
  OBVIOUS
<1>1. CardsOK
  BY AnyPinTyped, Pkcs11Assumption DEF Init, CardsOK, SoundChips
<1>2. ModuleOK
  <2>1. 0 \in 0..MaxSessions
    BY Pkcs11Assumption
  <2> QED
    BY <2>1 DEF Init, ModuleOK
<1>3. ThreadsOK /\ \A t \in Threads : Unattached(th[t]) /\ th[t].at = "idle"
  BY IdleSound DEF Init, ThreadsOK
<1> QED
  BY <1>1, <1>2, <1>3 DEF Init, ModuleInv, CountsOK, Bounds, CacheOK, CheckoutsGood, LoginLives,
     AttachedFirst, DownIsQuiet, RejectedNeverHeld

\* Every step of a thread keeps the invariant.
LEMMA ThreadKeeps ==
  ASSUME ModuleInv, NEW t \in Threads, Begins(t) \/ Continues(t)
  PROVE  ModuleInv'
<1>1. CASE Begins(t)
  <2>1. ASSUME NEW h \in sessions, Sign(t, h) PROVE ModuleInv'
    BY <2>1, SignKeeps
  <2> QED
    BY <1>1, <2>1, InitializeKeeps, FinalizeKeeps, PlainCallsKeep, WaitingCallsKeep DEF Begins
<1>2. CASE AtCard(t)
  <2>1. CASE Check(t) \/ Pso(t) \/ Deliver(t)
    BY <2>1, GoesOn DEF Check, Pso, Deliver
  <2> QED
    BY <1>2, <2>1, ProbeKeeps, RefusedKeeps, LoginVerifyKeeps, CheckoutKeeps, SignVerifyKeeps, SettleKeeps,
       ChangePinKeeps, UnansweredKeeps DEF AtCard
<1> QED
  BY <1>1, <1>2, EnterKeeps, ClearKeeps DEF Continues

\* The inductive invariant holds of every behaviour.
LEMMA InvHolds == Spec => []ModuleInv
<1>1. ModuleInv /\ [Next]_vars => ModuleInv'
  <2> SUFFICES ASSUME ModuleInv, [Next]_vars PROVE ModuleInv'
    OBVIOUS
  <2>1. CASE UNCHANGED vars
    BY <2>1 DEF vars, moduleVars, cacheVars, ModuleInv, CardsOK, ModuleOK, ThreadsOK, CountsOK, CacheOK,
       CheckoutsGood, LoginLives, AttachedFirst, DownIsQuiet, Unattached, RejectedNeverHeld
  <2> QED
    BY <2>1, EnvironmentKeeps, ThreadKeeps DEF Next
<1> QED
  BY <1>1, InitInv, PTL DEF Spec

\* The state keeps its type: a closed session leaves no sign operation, and
\* every thread's call, card and checkout stay what the code's types allow.
THEOREM TypeCorrect == Spec => []TypeOK
<1>1. ModuleInv => TypeOK
  BY DEF ModuleInv, CardsOK, ModuleOK, ThreadsOK, CountsOK, CacheOK, TypeOK, SoundChips, SoundThreads, Bounds
<1> QED
  BY <1>1, InvHolds, PTL

\* No value a card has rejected is held for it: a rejection outdates every
\* checkout in flight, so that a late restore cannot bring the value back.
THEOREM RejectedStaysOut == Spec => []RejectedNeverHeld
<1>1. ModuleInv => RejectedNeverHeld
  BY DEF ModuleInv, CacheOK
<1> QED
  BY <1>1, InvHolds, PTL

\* A login that has ended stays ended: what C_Logout, the last close, a refused
\* guard or C_Finalize cleared comes back only through another login.
THEOREM LogoutIsFinal == Spec => []EndedLoginStaysEnded
<1>1. ModuleInv => EndedLoginStaysEnded
  BY DEF ModuleInv, LoginLives, EndedLoginStaysEnded
<1> QED
  BY <1>1, InvHolds, PTL

\* A held PIN goes to the card it was verified on, however cards and readers
\* are swapped between the login, the checkout and the command.
THEOREM HeldPinGoesHome == Spec => []OwnCardOnly
<1>1. ModuleInv => OwnCardOnly
  BY ThreadFinds DEF OwnCardOnly, SoundThread
<1> QED
  BY <1>1, InvHolds, PTL

-----------------------------------------------------------------------------
(* The two mutexes.                                                          *)

\* The points at which a call keeps MODULE, and at which it wants a mutex.
InModule == {"enter", "clear"}
WantsCache == {"enter", "clear", "refused", "check", "checkout", "settle"}

\* MODULE is kept by one call at most, a call that waits for the cache; the
\* cache is kept by one login at most, while the card verifies it.
LocksOK ==
  /\ \A t \in Threads : t \in mutex <=> th[t].at \in InModule
  /\ \A t, u \in mutex : t = u
  /\ \A t, u \in Threads : th[t].at = "verify" /\ th[u].at = "verify" => t = u

\* While calls are under way, one of them has every mutex it wants.
SomeCallFree ==
  (\E t \in Threads : th[t].at # "idle") =>
    \E t \in Threads : /\ th[t].at # "idle"
                       /\ th[t].at \in WantsCache => CacheFree
                       /\ th[t].at = "deliver" => ModuleFree

\* A step of one thread that neither takes nor lets go MODULE.
LEMMA LocksStay ==
  ASSUME LocksOK, NEW t \in Threads, \A u \in Threads \ {t} : th'[u] = th[u], mutex' = mutex,
         mutex \subseteq Threads,
         th[t].at \notin InModule, th'[t].at \notin InModule,
         th'[t].at = "verify" => CacheFree \/ th[t].at = "verify"
  PROVE  LocksOK'
BY DEF LocksOK, CacheFree

\* A step that leaves every thread where it is.
LEMMA LocksSame ==
  ASSUME LocksOK, mutex' = mutex, \A t \in Threads : th'[t].at = th[t].at, mutex \subseteq Threads
  PROVE  LocksOK'
BY DEF LocksOK

\* A call takes MODULE and waits for the cache.
LEMMA LocksTaken ==
  ASSUME LocksOK, ThreadsOK, NEW t \in Threads, Entered(t), NEW point \in InModule, NEW call, NEW h, NEW p,
         Waits(t, point, call, h, p)
  PROVE  LocksOK'
<1> DEFINE r == [Idle EXCEPT !.at = point, !.call = call, !.session = h, !.pin = p]
<1>1. r.at = point
  BY DEF Idle
<1>2. mutex = {} /\ mutex' = {t} /\ th' = [th EXCEPT ![t] = r]
  BY DEF Waits, Entered, ModuleFree
<1> HIDE DEF r
<1>3. th'[t] = r /\ \A u \in Threads \ {t} : th'[u] = th[u]
  BY <1>2 DEF ThreadsOK
<1> QED
  BY <1>1, <1>2, <1>3 DEF LocksOK, InModule

\* The step of a thread at the card: where it goes on, or the application.
LEMMA PointStep ==
  ASSUME ThreadsOK, NEW t \in Threads, AtCard(t)
  PROVE  /\ \A u \in Threads \ {t} : th'[u] = th[u]
         /\ th'[t].at \in {"idle", "refused", "check", "checkout", "present", "verify", "settle", "pso", "deliver"}
         /\ th'[t].at = "verify" => CacheFree
         /\ th[t].at \notin InModule
<1>1. th \in [Threads -> ThreadStates] /\ th[t] \in ThreadStates
  BY DEF ThreadsOK, SoundThreads
<1>2. CASE Returns(t)
  <2>1. th'[t].at = "idle" /\ \A u \in Threads \ {t} : th'[u] = th[u]
    BY <1>2, ReturnsStep, IdleSound
  <2>2. th[t].at \notin InModule
    BY DEF AtCard, Probe, Refused, Check, LoginVerify, LoginVerified, Checkout, SignVerify, Settle, Pso,
           Deliver, Unanswered, ChangePin, InModule
  <2> QED
    BY <2>1, <2>2
<1>3. CASE Probe(t) /\ ~Returns(t)
  <2>1. th[t].call \in {"login", "sign", "set_pin"} /\ th[t].at = "probe"
    BY <1>3 DEF Probe, ThreadsOK, SoundThreads, SoundThread
  <2>2. AfterProbe(th[t].call) \in {"check", "checkout", "present"}
    BY <2>1 DEF AfterProbe
  <2>3. \E point \in {"check", "checkout", "present", "refused"} : \E status :
          th' = [th EXCEPT ![t].link = reader, ![t].serial = reader, ![t].status = status, ![t].at = point]
    BY <1>3, <2>2 DEF Probe
  <2>4. PICK point \in {"check", "checkout", "present", "refused"} : \E status :
          th' = [th EXCEPT ![t].link = reader, ![t].serial = reader, ![t].status = status, ![t].at = point]
    BY <2>3
  <2>5. PICK status :
          th' = [th EXCEPT ![t].link = reader, ![t].serial = reader, ![t].status = status, ![t].at = point]
    BY <2>4
  <2>6. th'[t].at = point /\ \A u \in Threads \ {t} : th'[u] = th[u]
    BY <1>1, <2>5 DEF ThreadStates
  <2> QED
    BY <2>1, <2>6 DEF InModule
<1>4. CASE Check(t) /\ ~Returns(t)
  <2>1. th' = [th EXCEPT ![t].at = "verify"] /\ th[t].at = "check" /\ CacheFree
    BY <1>4 DEF Check, Goes
  <2> QED
    BY <1>1, <2>1 DEF ThreadStates, InModule
<1>5. CASE Pso(t) /\ ~Returns(t)
  <2>1. th' = [th EXCEPT ![t].at = "deliver"] /\ th[t].at = "pso"
    BY <1>5 DEF Pso, Goes
  <2> QED
    BY <1>1, <2>1 DEF ThreadStates, InModule
<1>6. CASE Checkout(t) /\ ~Returns(t)
  <2>1. th' = [th EXCEPT ![t].at = "present", ![t].entry = held] /\ th[t].at = "checkout"
    BY <1>6 DEF Checkout
  <2> QED
    BY <1>1, <2>1 DEF ThreadStates, InModule
<1>7. CASE (SignVerify(t) \/ Unanswered(t)) /\ ~Returns(t)
  <2>1. PICK heard : th' = [th EXCEPT ![t].at = "settle", ![t].heard = heard]
    BY <1>7 DEF SignVerify, Unanswered
  <2>2. th[t].at \in {"present", "verify"}
    BY <1>7 DEF SignVerify, Unanswered
  <2> QED
    BY <1>1, <2>1, <2>2 DEF ThreadStates, InModule
<1>8. CASE Settle(t) /\ ~Returns(t)
  <2>1. th' = [th EXCEPT ![t].at = "pso", ![t].entry = {}] /\ th[t].at = "settle"
    BY <1>8 DEF Settle
  <2> QED
    BY <1>1, <2>1 DEF ThreadStates, InModule
<1> QED
  BY <1>2, <1>3, <1>4, <1>5, <1>6, <1>7, <1>8 DEF AtCard, Refused, LoginVerify, LoginVerified, Deliver, ChangePin

\* Every step keeps the mutexes' holders.
LEMMA LocksStep ==
  ASSUME ModuleInv, LocksOK, [Next]_vars
  PROVE  LocksOK'
<1>1. ThreadsOK /\ mutex \subseteq Threads /\ th \in [Threads -> ThreadStates]
  BY DEF ModuleInv, ModuleOK, ThreadsOK, SoundThreads
<1>2. CASE UNCHANGED vars
  BY <1>1, <1>2, LocksSame DEF vars, moduleVars
<1>3. CASE Environment
  <2>1. ASSUME NEW to, Moves(to) PROVE LocksOK'
    <3>1. \A t \in Threads : th[t] \in ThreadStates
      BY <1>1
    <3>2. \A t \in Threads : th'[t].at = th[t].at
      BY <2>1, <3>1 DEF Moves, ThreadStates
    <3> QED
      BY <1>1, <2>1, <3>2, LocksSame DEF Moves, moduleVars
  <2>2. ASSUME NEW p \in Pins, OtherPresents(p) \/ OtherChanges(p) PROVE LocksOK'
    BY <1>1, <2>2, LocksSame DEF OtherPresents, OtherChanges, moduleVars
  <2> QED
    BY <1>3, <2>1, <2>2 DEF Environment, Insert, Remove, Unplug, Plug
<1>4. ASSUME NEW t \in Threads, Begins(t) PROVE LocksOK'
  <2>1. CASE UNCHANGED <<mutex, th>>
    BY <1>1, <2>1, LocksSame
  <2>2. ASSUME Entered(t), NEW point \in InModule, NEW call, NEW h, NEW p, Waits(t, point, call, h, p)
        PROVE  LocksOK'
    BY <1>1, <2>2, LocksTaken
  <2>3. ASSUME NEW h \in sessions, Sign(t, h) PROVE LocksOK'
    <3> DEFINE r == [Idle EXCEPT !.at = "probe", !.call = "sign", !.session = h]
    <3>1. r.at = "probe"
      BY DEF Idle
    <3>2. th' = [th EXCEPT ![t] = r] /\ mutex' = mutex /\ th[t].at = "idle"
      BY <2>3 DEF Sign, Entered
    <3> HIDE DEF r
    <3>3. th'[t] = r /\ \A u \in Threads \ {t} : th'[u] = th[u]
      BY <1>1, <3>2
    <3> QED
      BY <1>1, <3>1, <3>2, <3>3, LocksStay DEF InModule
  <2>4. ASSUME NEW seen \in BOOLEAN, Initialize(t, seen) \/ Refresh(t, seen) PROVE LocksOK'
    BY <2>1, <2>2, <2>4 DEF Initialize, Refresh, InModule
  <2>5. CASE Finalize(t) \/ EnsureToken(t) \/ OpenSession(t)
    BY <2>1, <2>5 DEF Finalize, EnsureToken, OpenSession
  <2>6. CASE RefreshFails(t) \/ CloseAllSessions(t)
    BY <2>1, <2>2, <2>6 DEF RefreshFails, CloseAllSessions, SessionsClosed, InModule
  <2>7. ASSUME NEW h \in sessions, CloseSession(t, h) \/ SignInit(t, h) \/ Logout(t, h) PROVE LocksOK'
    BY <2>1, <2>2, <2>7 DEF CloseSession, SessionsClosed, SignInit, Logout, InModule
  <2>8. ASSUME NEW h \in sessions, NEW p \in Pins, Login(t, h, p) \/ SetPin(t, h, p) PROVE LocksOK'
    BY <2>2, <2>8 DEF Login, SetPin, InModule
  <2> QED
    BY <1>4, <2>3, <2>4, <2>5, <2>6, <2>7, <2>8 DEF Begins
<1>5. ASSUME NEW t \in Threads, Enter(t) \/ Clear(t) PROVE LocksOK'
  <2>1. th[t].at \in InModule /\ mutex' = {}
    BY <1>5 DEF Enter, Clear, InModule
  <2>2. Returns(t) \/ Goes(t, "probe")
    BY <1>5 DEF Enter, Clear
  <2>3. th'[t].at \in {"idle", "probe"} /\ \A u \in Threads \ {t} : th'[u] = th[u]
    <3>1. CASE Returns(t)
      BY <1>1, <3>1, ReturnsStep, IdleSound
    <3>2. CASE Goes(t, "probe")
      BY <1>1, <3>2 DEF Goes, ThreadStates
    <3> QED
      BY <2>2, <3>1, <3>2
  <2> QED
    BY <2>1, <2>3 DEF LocksOK, InModule
<1>6. ASSUME NEW t \in Threads, AtCard(t) PROVE LocksOK'
  <2>1. mutex' = mutex
    BY <1>6 DEF AtCard, Probe, Refused, Check, LoginVerify, LoginVerified, Checkout, SignVerify, Settle, Pso,
           Deliver, Unanswered, ChangePin, moduleVars
  <2>2. /\ \A u \in Threads \ {t} : th'[u] = th[u]
        /\ th'[t].at \in {"idle", "refused", "check", "checkout", "present", "verify", "settle", "pso", "deliver"}
        /\ th'[t].at = "verify" => CacheFree
        /\ th[t].at \notin InModule
    BY <1>1, <1>6, PointStep
  <2>3. th'[t].at \notin InModule
    BY <2>2 DEF InModule
  <2> QED
    BY <1>1, <2>1, <2>2, <2>3, LocksStay
<1> QED
  BY <1>2, <1>3, <1>4, <1>5, <1>6 DEF Next, Continues

\* The mutexes are never waited for in a circle: while calls are under way one
\* of them has every mutex it wants, since MODULE is kept only by a call that
\* waits for the cache, and the cache only by a login that waits for no mutex.
THEOREM NoCircle == Spec => []SomeCallFree
<1>1. Init => LocksOK
  BY IdleSound DEF Init, LocksOK, InModule
<1>2. ModuleInv /\ LocksOK /\ [Next]_vars => LocksOK'
  BY LocksStep
<1>3. ModuleInv /\ LocksOK => SomeCallFree
  <2> SUFFICES ASSUME ModuleInv, LocksOK, NEW t \in Threads, th[t].at # "idle" PROVE SomeCallFree
    BY DEF SomeCallFree
  <2>1. CASE ~CacheFree
    BY <2>1 DEF SomeCallFree, CacheFree, WantsCache
  <2>2. CASE CacheFree /\ (th[t].at # "deliver" \/ ModuleFree)
    BY <2>2 DEF SomeCallFree
  <2>3. CASE CacheFree /\ th[t].at = "deliver" /\ ~ModuleFree
    <3>1. PICK u \in mutex : TRUE
      BY <2>3 DEF ModuleFree
    <3>2. u \in Threads /\ th[u].at \in InModule
      BY DEF LocksOK, ModuleInv, ModuleOK
    <3> QED
      BY <2>3, <3>2 DEF SomeCallFree, InModule
  <2> QED
    BY <2>1, <2>2, <2>3
<1> QED
  BY <1>1, <1>2, <1>3, InvHolds, PTL DEF Spec

-----------------------------------------------------------------------------
(* The retry floor and the rejection memory, while nobody disturbs a call.   *)

\* What a call that is about to present a PIN relies on: three tries or more on
\* the card it is connected to, and a value the card has not rejected.
Clean(t) ==
  /\ th[t].at \in {"check", "verify", "checkout", "present"} /\ th[t].link # NoCard =>
       card[th[t].link].tries["pin1"] >= 3
  /\ th[t].at = "verify" => <<th[t].serial, th[t].pin>> \notin rejected
  /\ th[t].at = "present" /\ th[t].call = "sign" =>
       \A e \in th[t].entry : <<e.card, e.pin>> \notin rejected

SpansClean == \A t \in Threads : Clean(t)

SameTries == \A c \in Cards : card'[c].tries = card[c].tries

\* A call that has nothing to present.
LEMMA NothingToPresent ==
  ASSUME NEW t \in Threads, th'[t].at \notin {"check", "verify", "checkout", "present"}
  PROVE  Clean(t)'
BY DEF Clean

\* A call that is where it was, and perhaps cut off from its card.
LEMMA LeftAlone ==
  ASSUME ModuleInv, NEW t \in Threads, Clean(t), SameTries, rejected' = rejected,
         \/ th'[t] = th[t]
         \/ th'[t] = [th[t] EXCEPT !.link = NoCard]
  PROVE  Clean(t)'
<1>1. th[t] \in ThreadStates /\ (th[t].link # NoCard => th[t].link \in Cards)
  BY ThreadFinds
<1>2. /\ th'[t].at = th[t].at /\ th'[t].call = th[t].call /\ th'[t].entry = th[t].entry
      /\ th'[t].serial = th[t].serial /\ th'[t].pin = th[t].pin /\ th'[t].link \in {th[t].link, NoCard}
  BY <1>1 DEF ThreadStates
<1> QED
  BY <1>1, <1>2 DEF Clean, SameTries

\* SELECT and the loss of power spend nothing.
LEMMA SelectedSpendsNothing ==
  ASSUME CardsOK, SelectedHere \/ card' = card
  PROVE  SameTries
BY SelectedSound DEF CardsOK, SelectedHere, SameTries

\* What the application calls, up to the card: no command presents a PIN, and
\* nothing is rejected.
LEMMA BeforeCard ==
  ASSUME ModuleInv, NEW t \in Threads, Begins(t) \/ Enter(t) \/ Clear(t)
  PROVE  /\ SameTries /\ rejected' = rejected /\ counts'["other"] = counts["other"]
         /\ \A u \in Threads \ {t} : th'[u] = th[u]
         /\ th'[t].at \notin {"check", "verify", "checkout", "present"}
<1> DEFINE Goal == /\ SameTries /\ rejected' = rejected /\ counts'["other"] = counts["other"]
                   /\ \A u \in Threads \ {t} : th'[u] = th[u]
                   /\ th'[t].at \notin {"check", "verify", "checkout", "present"}
<1> SUFFICES Goal
  OBVIOUS
<1>1. CardsOK /\ ThreadsOK /\ th \in [Threads -> ThreadStates] /\ counts \in [Bounds -> Nat]
  BY DEF ModuleInv, ThreadsOK, SoundThreads, CountsOK
<1>2. \A b \in {"calls", "ends", "inits"} : \A n : Counted(b, n) => counts'["other"] = counts["other"]
  BY <1>1 DEF Counted, Bounds
<1>3. LoginEnds => rejected' = rejected
  BY DEF LoginEnds
<1>4. ASSUME NEW point \in {"enter", "clear"}, NEW call, NEW h, NEW p, Waits(t, point, call, h, p)
      PROVE  th'[t].at = point /\ \A u \in Threads \ {t} : th'[u] = th[u]
  <2> DEFINE r == [Idle EXCEPT !.at = point, !.call = call, !.session = h, !.pin = p]
  <2>1. r.at = point
    BY DEF Idle
  <2>2. th' = [th EXCEPT ![t] = r]
    BY <1>4 DEF Waits
  <2> HIDE DEF r
  <2> QED
    BY <1>1, <2>1, <2>2
<1>5. ASSUME th[t].at = "idle", th' = th
      PROVE  th'[t].at \notin {"check", "verify", "checkout", "present"} /\ \A u \in Threads \ {t} : th'[u] = th[u]
  BY <1>5
<1>6. ASSUME NEW seen \in BOOLEAN, Initialize(t, seen) \/ Refresh(t, seen) PROVE Goal
  <2>1. SameTries /\ rejected' = rejected
    BY <1>1, <1>6, SelectedSpendsNothing DEF Initialize, Refresh, cacheVars
  <2>2. counts'["other"] = counts["other"]
    BY <1>2, <1>6 DEF Initialize, Refresh
  <2>3. th[t].at = "idle" /\ (th' = th \/ Waits(t, "clear", "other", 0, AnyPin))
    BY <1>6 DEF Initialize, Refresh, Entered
  <2> QED
    BY <1>4, <1>5, <2>1, <2>2, <2>3
<1>7. CASE Finalize(t) \/ EnsureToken(t) \/ OpenSession(t)
  <2>1. SameTries /\ rejected' = rejected
    BY <1>1, <1>3, <1>7, SelectedSpendsNothing DEF Finalize, EnsureToken, OpenSession, TokenBuilt, cacheVars
  <2>2. counts' = counts /\ th[t].at = "idle" /\ th' = th
    BY <1>7 DEF Finalize, EnsureToken, OpenSession, Entered
  <2> QED
    BY <1>5, <2>1, <2>2
<1>8. ASSUME NEW gone, Entered(t), RefreshFails(t) \/ SessionsClosed(t, gone) PROVE Goal
  <2>1. SameTries /\ rejected' = rejected /\ counts'["other"] = counts["other"]
    BY <1>1, <1>2, <1>8, SelectedSpendsNothing DEF RefreshFails, SessionsClosed, cacheVars
  <2>2. th[t].at = "idle" /\ (th' = th \/ Waits(t, "clear", "other", 0, AnyPin))
    BY <1>8 DEF RefreshFails, SessionsClosed, Entered
  <2> QED
    BY <1>4, <1>5, <2>1, <2>2
<1>9. ASSUME NEW h \in sessions, SignInit(t, h) PROVE Goal
  <2>1. SameTries /\ rejected' = rejected
    BY <1>1, <1>9, SelectedSpendsNothing DEF SignInit, TokenBuilt, cacheVars
  <2>2. counts' = counts /\ th[t].at = "idle" /\ th' = th
    BY <1>9 DEF SignInit, Entered
  <2> QED
    BY <1>5, <2>1, <2>2
<1>10. ASSUME NEW h \in sessions, NEW p \in Pins, Logout(t, h) \/ Login(t, h, p) \/ SetPin(t, h, p) PROVE Goal
  <2>1. SameTries /\ rejected' = rejected /\ counts'["other"] = counts["other"]
    BY <1>1, <1>2, <1>10, SelectedSpendsNothing DEF Logout, Login, SetPin, cacheVars
  <2>2. \E call, q : Waits(t, "enter", call, h, q)
    BY <1>10 DEF Logout, Login, SetPin
  <2> QED
    BY <1>4, <2>1, <2>2
<1>11. ASSUME NEW h \in sessions, Sign(t, h) PROVE Goal
  <2> DEFINE r == [Idle EXCEPT !.at = "probe", !.call = "sign", !.session = h]
  <2>1. r.at = "probe"
    BY DEF Idle
  <2>2. th' = [th EXCEPT ![t] = r] /\ SameTries /\ rejected' = rejected /\ counts'["other"] = counts["other"]
    BY <1>1, <1>2, <1>11, SelectedSpendsNothing DEF Sign, cacheVars
  <2> HIDE DEF r
  <2>3. th'[t] = r /\ \A u \in Threads \ {t} : th'[u] = th[u]
    BY <1>1, <2>2
  <2> QED
    BY <2>1, <2>2, <2>3
<1>12. CASE Enter(t) \/ Clear(t)
  <2>1. SameTries /\ rejected' = rejected /\ counts' = counts
    BY <1>1, <1>3, <1>12, SelectedSpendsNothing DEF Enter, Clear, cacheVars
  <2>2. Returns(t) \/ Goes(t, "probe")
    BY <1>12 DEF Enter, Clear
  <2>3. th'[t].at \in {"idle", "probe"} /\ \A u \in Threads \ {t} : th'[u] = th[u]
    <3>1. CASE Returns(t)
      BY <1>1, <3>1, ReturnsStep, IdleSound
    <3>2. CASE Goes(t, "probe")
      BY <1>1, <3>2 DEF Goes, ThreadStates
    <3> QED
      BY <2>2, <3>1, <3>2
  <2> QED
    BY <2>1, <2>3
<1>13. ASSUME NEW h \in sessions, CloseSession(t, h) PROVE Goal
  BY <1>8, <1>13 DEF CloseSession
<1>14. CASE RefreshFails(t) \/ CloseAllSessions(t)
  BY <1>8, <1>14 DEF RefreshFails, CloseAllSessions
<1> HIDE DEF Goal
<1>15. CASE Begins(t)
  <2>1. ASSUME NEW h \in sessions, NEW p \in Pins, Logout(t, h) PROVE Goal
    BY <2>1, <1>10
  <2>2. ASSUME NEW h \in sessions, Logout(t, h) PROVE Goal
    BY <2>1, <2>2, AnyPinTyped
  <2> QED
    BY <1>6, <1>7, <1>9, <1>10, <1>11, <1>13, <1>14, <1>15, <2>2 DEF Begins
<1> QED
  BY <1>12, <1>15

\* The steps at the card that send no PIN there.
Reads(t) == Probe(t) \/ Refused(t) \/ Check(t) \/ Checkout(t) \/ Pso(t) \/ Deliver(t)

\* They spend nothing and reject nothing.
LEMMA ReadsSpendNothing ==
  ASSUME ModuleInv, NEW t \in Threads, Reads(t)
  PROVE  SameTries /\ rejected' = rejected /\ counts' = counts
<1>1. CardsOK
  BY DEF ModuleInv
<1>2. SelectedHere \/ card' = card
  BY DEF Reads, Probe, Refused, Check, Checkout, Pso, Deliver
<1>3. rejected' = rejected /\ counts' = counts
  BY DEF Reads, Probe, Refused, Check, Checkout, Pso, Deliver, cacheVars
<1> QED
  BY <1>1, <1>2, <1>3, SelectedSpendsNothing

\* The probe lets a call on only from three tries up.
LEMMA ProbeClean ==
  ASSUME ModuleInv, NEW t \in Threads, Probe(t)
  PROVE  Clean(t)'
<1>1. CardsOK /\ ThreadsOK /\ th \in [Threads -> ThreadStates] /\ th[t] \in ThreadStates
  BY DEF ModuleInv, ThreadsOK, SoundThreads
<1>2. CASE reader \notin Cards
  BY <1>1, <1>2, ReturnsStep, IdleSound, NothingToPresent DEF Probe
<1>3. CASE reader \in Cards
  <2> DEFINE status == PinStatus(card'[reader], "pin1")
             point == IF ServedByFloor("pin1", status) THEN AfterProbe(th[t].call) ELSE "refused"
  <2>1. card'[reader] \in SoundChips /\ "pin1" \in PinSlots
    BY <1>1, <1>3, SelectedSound DEF Probe, SelectedHere, CardsOK, PinSlots
  <2>2. ServedByFloor("pin1", status) => card'[reader].tries["pin1"] >= 3
    BY <2>1, FlooredPin
  <2>3. th' = [th EXCEPT ![t].link = reader, ![t].serial = reader, ![t].status = status, ![t].at = point]
    BY <1>3 DEF Probe
  <2>4. th[t].call \in {"login", "sign", "set_pin"}
    BY <1>1 DEF Probe, ThreadsOK, SoundThreads, SoundThread
  <2>5. point \in {"check", "checkout", "present", "refused"} /\ (point = "present" => th[t].call = "set_pin")
    BY <2>4 DEF AfterProbe
  <2>6. point # "refused" => card'[reader].tries["pin1"] >= 3
    BY <2>2
  <2> HIDE DEF point, status
  <2>7. th'[t].link = reader /\ th'[t].at = point /\ th'[t].call = th[t].call
    BY <1>1, <2>3 DEF ThreadStates
  <2> QED
    BY <2>5, <2>6, <2>7 DEF Clean
<1> QED
  BY <1>2, <1>3

\* The rejection memory and the cache let a call on only with a value that has
\* not been rejected.
LEMMA ReadsClean ==
  ASSUME ModuleInv, NEW t \in Threads, Clean(t), Reads(t)
  PROVE  Clean(t)'
<1>1. th \in [Threads -> ThreadStates] /\ th[t] \in ThreadStates /\ ThreadsOK
  BY DEF ModuleInv, ThreadsOK, SoundThreads
<1>2. SameTries /\ rejected' = rejected
  BY ReadsSpendNothing
<1>3. CASE Returns(t)
  BY <1>1, <1>3, ReturnsStep, IdleSound, NothingToPresent
<1>4. CASE Check(t) /\ ~Returns(t)
  <2>1. th' = [th EXCEPT ![t].at = "verify"] /\ th[t].at = "check" /\ <<th[t].serial, th[t].pin>> \notin rejected
    BY <1>4 DEF Check, Goes
  <2>2. /\ th'[t].at = "verify" /\ th'[t].link = th[t].link
        /\ th'[t].serial = th[t].serial /\ th'[t].pin = th[t].pin
    BY <1>1, <2>1 DEF ThreadStates
  <2>3. th[t].link # NoCard => th[t].link \in Cards
    BY ThreadFinds
  <2> QED
    BY <1>2, <2>1, <2>2, <2>3 DEF Clean, SameTries
<1>5. CASE Checkout(t) /\ ~Returns(t)
  <2>1. th' = [th EXCEPT ![t].at = "present", ![t].entry = held] /\ th[t].at = "checkout"
    BY <1>5 DEF Checkout
  <2>2. th'[t].at = "present" /\ th'[t].link = th[t].link /\ th'[t].entry = held
    BY <1>1, <2>1 DEF ThreadStates
  <2>3. th[t].link # NoCard => th[t].link \in Cards
    BY ThreadFinds
  <2>4. \A e \in held : <<e.card, e.pin>> \notin rejected
    BY DEF ModuleInv, CacheOK, RejectedNeverHeld
  <2> QED
    BY <1>2, <2>1, <2>2, <2>3, <2>4 DEF Clean, SameTries
<1>6. CASE Pso(t) /\ ~Returns(t)
  <2>1. th' = [th EXCEPT ![t].at = "deliver"]
    BY <1>6 DEF Pso, Goes
  <2>2. th'[t].at = "deliver"
    BY <1>1, <2>1 DEF ThreadStates
  <2> QED
    BY <2>2, NothingToPresent
<1> QED
  BY <1>3, <1>4, <1>5, <1>6, ProbeClean DEF Reads, Refused, Deliver

\* The steps that send a PIN to the card, and what its answer leaves.
Sends(t) ==
  LoginVerify(t) \/ SignVerify(t) \/ Settle(t) \/ Unanswered(t) \/ \E new \in Pins : ChangePin(t, new)

\* They are steps of a call in its span, which has nothing more to present.
LEMMA SendsEnds ==
  ASSUME ModuleInv, NEW t \in Threads, Sends(t)
  PROVE  InSpan(t) /\ Clean(t)'
<1>1. th \in [Threads -> ThreadStates] /\ th[t] \in ThreadStates /\ ThreadsOK
  BY DEF ModuleInv, ThreadsOK, SoundThreads
<1>2. InSpan(t)
  BY DEF Sends, LoginVerify, LoginVerified, SignVerify, Settle, Unanswered, ChangePin, InSpan
<1>3. CASE Returns(t)
  BY <1>1, <1>2, <1>3, ReturnsStep, IdleSound, NothingToPresent
<1>4. CASE (SignVerify(t) \/ Unanswered(t)) /\ ~Returns(t)
  <2>1. PICK heard : th' = [th EXCEPT ![t].at = "settle", ![t].heard = heard]
    BY <1>4 DEF SignVerify, Unanswered
  <2>2. th'[t].at = "settle"
    BY <1>1, <2>1 DEF ThreadStates
  <2> QED
    BY <1>2, <2>2, NothingToPresent
<1>5. CASE Settle(t) /\ ~Returns(t)
  <2>1. th' = [th EXCEPT ![t].at = "pso", ![t].entry = {}]
    BY <1>5 DEF Settle
  <2>2. th'[t].at = "pso"
    BY <1>1, <2>1 DEF ThreadStates
  <2> QED
    BY <1>2, <2>2, NothingToPresent
<1> QED
  BY <1>3, <1>4, <1>5 DEF Sends, LoginVerify, LoginVerified, ChangePin

\* Every step that nobody disturbs keeps what the calls rely on.
LEMMA SpansStayClean ==
  ASSUME ModuleInv, SpansClean, [Next /\ Exclusive]_vars
  PROVE  SpansClean'
<1>1. ThreadsOK /\ CardsOK /\ counts \in [Bounds -> Nat] /\ \A t \in Threads : th[t] \in ThreadStates
  BY DEF ModuleInv, ThreadsOK, SoundThreads, CountsOK
<1>2. CASE UNCHANGED vars
  <2>1. SameTries /\ rejected' = rejected /\ th' = th
    BY <1>2 DEF vars, cacheVars, SameTries
  <2> QED
    BY <2>1, LeftAlone DEF SpansClean
<1>3. CASE Environment /\ Exclusive
  <2>1. ASSUME NEW to, Moves(to) PROVE SpansClean'
    <3>1. SameTries /\ rejected' = rejected
      BY <1>1, <2>1, SelectedSound DEF Moves, CardsOK, SameTries, cacheVars
    <3>2. \A t \in Threads : th'[t] = th[t] \/ th'[t] = [th[t] EXCEPT !.link = NoCard]
      BY <2>1 DEF Moves
    <3> QED
      BY <3>1, <3>2, LeftAlone DEF SpansClean
  <2>2. ASSUME NEW p \in Pins, OtherPresents(p) \/ OtherChanges(p) PROVE SpansClean'
    <3>1. counts'["other"] # counts["other"] /\ th' = th
      BY <1>1, <2>2 DEF OtherPresents, OtherChanges, Counted, Bounds
    <3>2. \A t \in Threads : ~InSpan(t)
      BY <1>3, <3>1 DEF Exclusive
    <3> QED
      BY <3>1, <3>2, NothingToPresent DEF SpansClean, InSpan
  <2> QED
    BY <1>3, <2>1, <2>2 DEF Environment, Insert, Remove, Unplug, Plug
<1>4. ASSUME NEW t \in Threads, Begins(t) \/ Enter(t) \/ Clear(t) PROVE SpansClean'
  <2>1. /\ SameTries /\ rejected' = rejected
        /\ \A u \in Threads \ {t} : th'[u] = th[u]
        /\ th'[t].at \notin {"check", "verify", "checkout", "present"}
    BY <1>4, BeforeCard
  <2> QED
    BY <2>1, LeftAlone, NothingToPresent DEF SpansClean
<1>5. ASSUME NEW t \in Threads, Reads(t) PROVE SpansClean'
  <2>1. SameTries /\ rejected' = rejected
    BY <1>5, ReadsSpendNothing
  <2>2. \A u \in Threads \ {t} : th'[u] = th[u]
    BY <1>1, <1>5, PointStep DEF Reads, AtCard
  <2>3. Clean(t)'
    BY <1>5, ReadsClean DEF SpansClean
  <2> QED
    BY <2>1, <2>2, <2>3, LeftAlone DEF SpansClean
<1>6. ASSUME NEW t \in Threads, Sends(t), Exclusive PROVE SpansClean'
  <2>1. InSpan(t) /\ Clean(t)'
    BY <1>6, SendsEnds
  <2>2. \A u \in Threads \ {t} : ~InSpan(u)'
    BY <1>6, <2>1 DEF Exclusive
  <2>3. \A u \in Threads \ {t} : th'[u].at \notin {"check", "verify", "checkout", "present"}
    BY <2>2 DEF InSpan
  <2> QED
    BY <2>1, <2>3, NothingToPresent DEF SpansClean
<1> QED
  BY <1>2, <1>3, <1>4, <1>5, <1>6 DEF Next, Continues, AtCard, Reads, Sends

\* A behaviour that nobody disturbs is one of the module's.
LEMMA ExclusiveIsSpec == ExclusiveSpec => Spec
<1>1. [Next /\ Exclusive]_vars => [Next]_vars
  OBVIOUS
<1> QED
  BY <1>1, PTL DEF ExclusiveSpec, Spec

\* There every call keeps what it relies on.
LEMMA SpansHold == ExclusiveSpec => [](ModuleInv /\ SpansClean)
<1>1. Init => SpansClean
  BY IdleSound, NothingToPresent DEF Init, SpansClean, Clean
<1>2. ModuleInv /\ SpansClean /\ [Next /\ Exclusive]_vars => SpansClean'
  BY SpansStayClean
<1> QED
  BY <1>1, <1>2, InvHolds, ExclusiveIsSpec, PTL DEF ExclusiveSpec

\* While nobody disturbs a call, no login and no signature presents a value that
\* its card has rejected, from any number of threads.
THEOREM RejectedNotPresented == ExclusiveSpec => RefusedThereafter
<1> DEFINE Kept(t) == Presents(t) /\ th[t].link # NoCard =>
             <<th[t].link, IF th[t].call = "sign" THEN Entry(t).pin ELSE th[t].pin>> \notin rejected
<1>1. ModuleInv /\ SpansClean => \A t \in Threads : Kept(t)
  <2> SUFFICES ASSUME ModuleInv, SpansClean, NEW t \in Threads, Presents(t), th[t].link # NoCard
               PROVE  <<th[t].link, IF th[t].call = "sign" THEN Entry(t).pin ELSE th[t].pin>> \notin rejected
    OBVIOUS
  <2>1. Clean(t) /\ SoundThread(th[t]) /\ th[t].link = th[t].serial
    BY ThreadFinds DEF SpansClean, SoundThread
  <2>2. CASE th[t].at = "verify"
    BY <2>1, <2>2 DEF Clean, SoundThread
  <2>3. CASE th[t].at = "present" /\ th[t].call = "sign"
    <3>1. Entry(t) \in th[t].entry /\ Entry(t).card = th[t].serial
      BY <2>1, <2>3, ThreadFinds DEF SoundThread
    <3> QED
      BY <2>1, <2>3, <3>1 DEF Clean
  <2> QED
    BY <2>2, <2>3 DEF Presents
<1>2. ModuleInv /\ SpansClean => [\A t \in Threads : Kept(t)]_vars
  BY <1>1
<1> QED
  BY <1>2, SpansHold, PTL DEF RefusedThereafter

-----------------------------------------------------------------------------
(* The counters of the cards, as CardTries promises them.                    *)

\* The instance has the module's names.
LEMMA TriesNames ==
  /\ Tries!FlooredCredentials = FlooredCredentials /\ Tries!PinSlots = PinSlots
  /\ Tries!RetriesPristine = RetriesPristine
BY DEF Tries!FlooredCredentials, FlooredCredentials, Tries!PinSlots, PinSlots,
       Tries!RetriesPristine, RetriesPristine

\* A step that spends and restores nothing is none of CardTries.
LEMMA TriesStutter ==
  ASSUME SameTries, counts'["other"] = counts["other"]
  PROVE  UNCHANGED Tries!vars
BY DEF Tries!vars, SameTries

\* One card changes, and its counters with it.
LEMMA TriesOf ==
  ASSUME CardsOK, NEW c \in Cards, NEW chip \in SoundChips, card' = [card EXCEPT ![c] = chip]
  PROVE  [d \in Cards |-> card'[d].tries] = [[d \in Cards |-> card[d].tries] EXCEPT ![c] = chip.tries]
BY DEF CardsOK

\* PIN 1 is presented from three tries up: by VERIFY or by CHANGE REFERENCE
\* DATA, and with either value.
LEMMA PresentedPromised ==
  ASSUME CardsOK, NEW c \in Cards, NEW chip, NEW right \in BOOLEAN, card[c].tries["pin1"] >= 3,
         Comparison(card[c], chip, "pin1", right), card' = [card EXCEPT ![c] = chip],
         counts'["other"] = counts["other"]
  PROVE  [Tries!Next]_(Tries!vars)
<1> DEFINE tries == [d \in Cards |-> card[d].tries]
           after == [d \in Cards |-> card'[d].tries]
<1>1. /\ card[c] \in SoundChips /\ chip \in SoundChips /\ "pin1" \in FlooredCredentials
      /\ card[c].tries \in [FlooredCredentials -> 0..RetriesPristine]
      /\ chip.tries \in [FlooredCredentials -> 0..RetriesPristine]
  BY DEF CardsOK, Comparison, SoundChips, Chips, FlooredCredentials, PinSlots
<1>2. after = [tries EXCEPT ![c] = chip.tries] /\ tries[c] = card[c].tries
  BY <1>1, TriesOf
<1>3. CASE Answer(card[c], "pin1", right) = "wrong"
  <2>1. chip.tries = [card[c].tries EXCEPT !["pin1"] = @ - 1]
    BY <1>1, <1>3 DEF Comparison
  <2>2. after = [tries EXCEPT ![c]["pin1"] = @ - 1]
    BY <1>2, <2>1
  <2>3. Tries!Refused(c, "pin1")
    BY <1>2, <2>2 DEF Tries!Refused, Tries!AboveLastTwo
  <2> QED
    BY <1>1, <2>3, TriesNames DEF Tries!Next
<1>4. CASE Answer(card[c], "pin1", right) = "ok"
  <2>1. chip.tries = [card[c].tries EXCEPT !["pin1"] = RetriesPristine]
    BY <1>1, <1>4 DEF Comparison
  <2>2. after = [tries EXCEPT ![c]["pin1"] = RetriesPristine]
    BY <1>2, <2>1
  <2>3. Tries!Accepted(c, "pin1")
    BY <1>2, <2>2, TriesNames DEF Tries!Accepted, Tries!AboveLastTwo
  <2> QED
    BY <1>1, <2>3, TriesNames DEF Tries!Next
<1>5. Answer(card[c], "pin1", right) \in {"ok", "wrong"}
  BY <1>1 DEF Answer
<1> QED
  BY <1>3, <1>4, <1>5

\* What a call sends.
LEMMA SendsPromised ==
  ASSUME ModuleInv, NEW t \in Threads, Clean(t), Sends(t)
  PROVE  [Tries!Next]_(Tries!vars)
<1>1. CardsOK /\ counts \in [Bounds -> Nat] /\ (th[t].link # NoCard => th[t].link \in Cards)
  BY ThreadFinds DEF ModuleInv, CountsOK
<1>2. CASE card' = card
  <2>1. counts'["other"] = counts["other"]
    BY <1>1 DEF Sends, LoginVerify, LoginVerified, SignVerify, Settle, Unanswered, ChangePin, Counted, Bounds
  <2> QED
    BY <1>2, <2>1, TriesStutter DEF SameTries
<1>3. ASSUME NEW c \in Cards, c = th[t].link, th[t].at \in {"verify", "present"}, NEW right \in BOOLEAN,
             \/ card' = [card EXCEPT ![c] = Verified(card[c], "pin1", right)]
             \/ card' = [card EXCEPT ![c] = PinChanged(card[c], "pin1", right)],
             counts'["other"] = counts["other"]
      PROVE  [Tries!Next]_(Tries!vars)
  <2>1. card[c].tries["pin1"] >= 3
    BY <1>3, Pkcs11Assumption DEF Clean
  <2>2. card[c] \in SoundChips /\ "pin1" \in PinSlots /\ "pin1" \in FlooredCredentials
    BY <1>1 DEF CardsOK, PinSlots, FlooredCredentials
  <2>3. /\ Comparison(card[c], Verified(card[c], "pin1", right), "pin1", right)
        /\ Comparison(card[c], PinChanged(card[c], "pin1", right), "pin1", right)
    BY <2>2, VerifiedSound, PinChangedSound
  <2> QED
    BY <1>1, <1>3, <2>1, <2>3, PresentedPromised
<1>4. CASE LoginVerify(t) \/ SignVerify(t) \/ Unanswered(t)
  <2>1. CASE th[t].link = NoCard
    BY <1>2, <1>4, <2>1 DEF LoginVerify, LoginVerified, SignVerify, Unanswered
  <2>2. CASE th[t].link # NoCard
    <3>1. PICK c \in Cards : c = th[t].link
      BY <1>1, <2>2
    <3>2. th[t].at \in {"verify", "present"}
      BY <1>4 DEF LoginVerify, LoginVerified, SignVerify, Unanswered
    <3>3. counts'["other"] = counts["other"]
      BY <1>1, <1>4, <2>2 DEF LoginVerify, LoginVerified, SignVerify, Unanswered, Counted, Bounds
    <3>4. \E p : card' = [card EXCEPT ![c] = Verified(card[c], "pin1", Right(t, p))]
      BY <1>4, <2>2, <3>1 DEF LoginVerify, LoginVerified, SignVerify, Unanswered
    <3>5. PICK p : card' = [card EXCEPT ![c] = Verified(card[c], "pin1", Right(t, p))]
      BY <3>4
    <3>6. Right(t, p) \in BOOLEAN
      BY DEF Right
    <3> QED
      BY <1>3, <3>1, <3>2, <3>3, <3>5, <3>6
  <2> QED
    BY <2>1, <2>2
<1>5. ASSUME NEW new \in Pins, ChangePin(t, new)
      PROVE  [Tries!Next]_(Tries!vars)
  <2>1. th[t].link # NoCard /\ th[t].at = "present" /\ counts' = counts
    BY <1>5 DEF ChangePin
  <2>2. PICK c \in Cards : c = th[t].link
    BY <1>1, <2>1
  <2>3. card' = [card EXCEPT ![c] = PinChanged(card[c], "pin1", Right(t, th[t].pin))]
    BY <1>5, <2>2 DEF ChangePin
  <2>4. Right(t, th[t].pin) \in BOOLEAN
    BY DEF Right
  <2> QED
    BY <1>3, <2>1, <2>2, <2>3, <2>4
<1>6. CASE Settle(t)
  BY <1>2, <1>6 DEF Settle
<1> QED
  BY <1>4, <1>5, <1>6 DEF Sends

\* What the world does: other programs leave any counters, a card that comes or
\* goes keeps its own.
LEMMA WorldPromised ==
  ASSUME ModuleInv, Environment
  PROVE  [Tries!Next]_(Tries!vars)
<1>1. CardsOK /\ counts \in [Bounds -> Nat]
  BY DEF ModuleInv, CountsOK
<1>2. ASSUME NEW to, Moves(to) PROVE UNCHANGED Tries!vars
  <2>1. SameTries /\ counts'["other"] = counts["other"]
    BY <1>1, <1>2, SelectedSound DEF Moves, CardsOK, SameTries, Counted, Bounds
  <2> QED
    BY <2>1, TriesStutter
<1>3. ASSUME NEW p \in Pins, OtherPresents(p) \/ OtherChanges(p) PROVE Tries!Next
  <2>1. counts'["other"] = counts["other"] + 1 /\ reader \in Cards
    BY <1>1, <1>3 DEF OtherPresents, OtherChanges, Counted, Bounds
  <2>2. PICK c \in Cards : c = reader
    BY <2>1
  <2>3. PICK chip \in SoundChips : card' = [card EXCEPT ![c] = chip]
    <3>1. card[c] \in SoundChips /\ "pin1" \in PinSlots /\ "pin1" \in FlooredCredentials
      BY <1>1 DEF CardsOK, PinSlots, FlooredCredentials
    <3>2. Verified(card[c], "pin1", p = pinOf[c]) \in SoundChips /\ PinSet(card[c], "pin1") \in SoundChips
      BY <3>1, VerifiedSound, PinSetSound DEF Comparison
    <3> QED
      BY <1>3, <2>2, <3>2 DEF OtherPresents, OtherChanges
  <2>4. [d \in Cards |-> card'[d].tries] = [[d \in Cards |-> card[d].tries] EXCEPT ![c] = chip.tries]
    BY <1>1, <2>3, TriesOf
  <2>5. chip.tries \in [FlooredCredentials -> 0..RetriesPristine]
    BY DEF SoundChips, Chips
  <2>6. Tries!Foreign(c)
    BY <2>1, <2>4, <2>5, TriesNames DEF Tries!Foreign
  <2> QED
    BY <2>6 DEF Tries!Next
<1> QED
  BY <1>2, <1>3 DEF Environment, Insert, Remove, Unplug, Plug

\* While nobody disturbs a call, C_Login, C_Sign and C_SetPIN move the counters
\* only as CardTries promises, from any number of threads: the module presents
\* PIN 1 only from three tries up, so it never blocks a card.
THEOREM ModuleKeepsTries == ExclusiveSpec => KeepsTries
<1>1. ModuleInv => Tries!Init
  <2>1. ModuleInv => /\ [c \in Cards |-> card[c].tries] \in [Cards -> [FlooredCredentials -> 0..RetriesPristine]]
                     /\ counts["other"] \in Nat
    BY DEF ModuleInv, CardsOK, CountsOK, SoundChips, Chips, Bounds
  <2> QED
    BY <2>1, TriesNames DEF Tries!Init
<1>2. ModuleInv /\ SpansClean /\ [Next]_vars => [Tries!Next]_(Tries!vars)
  <2> SUFFICES ASSUME ModuleInv, SpansClean, [Next]_vars PROVE [Tries!Next]_(Tries!vars)
    OBVIOUS
  <2>1. CASE UNCHANGED vars
    BY <2>1, TriesStutter DEF vars, SameTries
  <2>2. ASSUME NEW t \in Threads, Begins(t) \/ Enter(t) \/ Clear(t) PROVE UNCHANGED Tries!vars
    BY <2>2, BeforeCard, TriesStutter
  <2>3. ASSUME NEW t \in Threads, Reads(t) PROVE UNCHANGED Tries!vars
    BY <2>3, ReadsSpendNothing, TriesStutter
  <2>4. ASSUME NEW t \in Threads, Sends(t) PROVE [Tries!Next]_(Tries!vars)
    BY <2>4, SendsPromised DEF SpansClean
  <2> QED
    BY <2>1, <2>2, <2>3, <2>4, WorldPromised DEF Next, Continues, AtCard, Reads, Sends
<1> QED
  BY <1>1, <1>2, InitInv, SpansHold, ExclusiveIsSpec, PTL DEF Spec, KeepsTries, Tries!Spec

=============================================================================
