------------------------------- MODULE Agent -------------------------------
(* The agent of crates/refineid-agent: a pipe thread that takes one provider  *)
(* at a time, a session thread that owns the phone's session and the offer to *)
(* browsers, and the quit handler, over the pipe of                           *)
(* crates/refineid-agent-pipe.                                                *)
(*                                                                            *)
(* The session thread's actions run from one wait to the next, and stop where *)
(* another actor may be seen in between; at names the place.  A store change  *)
(* is one action here: PairingStore has its interleavings.  The engine is     *)
(* what its caller sees of it: RequesterSession has its frames.  Time is left *)
(* to the actions' choice: a deadline may pass whenever its wait goes on.     *)
EXTENDS Naturals, Sequences

CONSTANTS
  Clients,      \* key storage providers, each with one request
  Strangers,    \* the clients of another user or Windows session
  MaxPair,      \* pairings are numbered in the order they are stored
  Cards,        \* cards the phone may hold, with one certificate each
  Faults,       \* which of "unread", "install", "removal" may happen
  AppWatches    \* whether the app's offering watch runs beside the agent

ASSUME AgentAssumption ==
  /\ MaxPair \in Nat \ {0} /\ Strangers \subseteq Clients
  /\ Faults \subseteq {"unread", "install", "removal"} /\ AppWatches \in BOOLEAN
  /\ Cards \cap {"none", "unsaid", "absent"} = {}

Pairs == 1..MaxPair

\* The pairing a provider's key names; 0 is one no longer stored.
Named == Pairs \cup {0}

VARIABLES
  client, asks,            \* each client, or its answer; the pairing it asks of
  pipe, conn,              \* the pipe thread, and the client connected
  inbox, pending, window,  \* jobs for the session thread; the one it waits with
  reply,                   \* each job's reply channel
  phase,                   \* the process, its withdrawal and the offer's gate
  at, then, job,           \* the session thread, where it goes next, what it signs
  pair, sess, heard, checked,   \* its pairing, session, card status, card followed
  file, held,              \* the stored records, and the copy the agent holds
  cert, sighting,          \* each record's certificate and its standing sighting
  browser, offered, want,  \* certificates in the user's store; the agent's offer
  appOffered,              \* the app's offer
  signed                   \* history: the jobs the phone signed

clients == <<client, asks>>
jobs    == <<inbox, pending, window>>
thread  == <<at, then, job>>
session == <<pair, sess, heard, checked>>
store   == <<file, held, cert, sighting>>
offer   == <<browser, offered, want>>
vars == <<clients, pipe, conn, jobs, reply, phase, thread, session, store, offer,
          appOffered, signed>>

\* SignAnswer.
Answers == {"signature", "denied", "busy", "rejected", "cancelled", "lost", "no_phone", "failed"}

\* A pairing's record: not stored yet, its PairingState, or removed.
States == {"new", "serving", "forgotten", "revoked", "none"}
Stored(state) == state \notin {"new", "none"}
Offers == Pairs \X Cards

\* An Option is the set of what it holds.
Option(S) == {{}} \cup {{x} : x \in S}

\* Where the session thread is: serve_phone's purge and loop, load_pairing,
\* the search and what follows a failed one, await_card_report, follow_card,
\* hold_session, and one operation.
Places == {"start", "loop", "sweep", "notices", "choose", "unpaired", "no_pairing",
           "install", "search", "pause", "report", "follow", "read", "resync",
           "hold", "sign", "signing", "checks", "idle", "over", "ended"}

ClientsTypeOK ==
  /\ client \in [Clients -> {"idle", "connected", "left"} \cup Answers]
  /\ asks \in [Clients -> Named]

PipeTypeOK ==
  /\ pipe \in {"listening", "waiting"} /\ conn \in Option(Clients)
  /\ inbox \in Seq(Clients) /\ pending \in Option(Clients) /\ window \in {"open", "over"}
  /\ reply \in [Clients -> Answers \cup {"none", "dropped"}]

ThreadTypeOK ==
  /\ phase \in {"down", "up", "withdrawn", "closed"}
  /\ at \in Places /\ then \in {"search", "read", "hold", "checks"} /\ job \in Option(Clients)
  /\ pair \in Pairs \cup {0} /\ sess \in {"none", "open", "lost", "at_once", "local"}
  /\ heard \in Cards \cup {"unsaid", "absent"} /\ checked \in Cards \cup {"none"}

StoreTypeOK ==
  /\ file \in [Pairs -> States] /\ held \in [Pairs -> States]
  /\ cert \in [Pairs -> Cards \cup {"none"}] /\ sighting \in [Pairs -> Cards \cup {"none"}]

OfferTypeOK ==
  /\ browser \subseteq Offers /\ appOffered \subseteq Offers
  /\ offered \in Option(Offers) /\ want \in Option(Offers)

TypeOK ==
  /\ ClientsTypeOK /\ PipeTypeOK /\ ThreadTypeOK /\ StoreTypeOK /\ OfferTypeOK
  /\ signed \subseteq Clients

Init ==
  /\ client = [c \in Clients |-> "idle"] /\ asks = [c \in Clients |-> 1]
  /\ pipe = "listening" /\ conn = {} /\ inbox = <<>> /\ pending = {} /\ window = "over"
  /\ reply = [c \in Clients |-> "none"]
  /\ phase = "down" /\ at = "start" /\ then = "hold" /\ job = {}
  /\ pair = 0 /\ sess = "none" /\ heard = "unsaid" /\ checked = "none"
  /\ file \in {[p \in Pairs |-> "new"], [p \in Pairs |-> IF p = 1 THEN "serving" ELSE "new"]}
  /\ held = [p \in Pairs |-> "new"]
  /\ cert = [p \in Pairs |-> "none"] /\ sighting = [p \in Pairs |-> "none"]
  /\ browser = {} /\ offered = {} /\ want = {} /\ appOffered = {}
  /\ signed = {}

Raised == phase \in {"withdrawn", "closed"}
GateOpen == phase \in {"up", "withdrawn"}
Fault(kind) == kind \in Faults

Goes(place) == at' = place /\ UNCHANGED <<then, job>>

-----------------------------------------------------------------------------
(* The offer and its gate.                                                   *)

\* Mutant: the gate lets a change through after the quit closed it.
GateIgnored(new) == browser' = new

\* OfferGate::change: the change runs unless the gate is closed.
Gate(new) == browser' = IF GateOpen THEN new ELSE browser

\* remove_browser_certificates stops at the first certificate Windows keeps.
RemovalFails == Fault("removal") /\ GateOpen /\ browser' \in SUBSET browser

\* withdraw_certificates: the offer is forgotten whether or not Windows
\* removed the certificates.
Withdraw ==
  /\ Gate({}) \/ RemovalFails
  /\ offered' = {} /\ UNCHANGED want

WithdrawIf(condition) ==
  \/ condition /\ offered # {} /\ Withdraw
  \/ ~(condition /\ offered # {}) /\ UNCHANGED offer

\* Mutant: any standing sighting counts, not the cached card's alone.
OfferedCertificateStale(p) ==
  IF held[p] = "serving" /\ cert[p] # "none" /\ sighting[p] # "none"
  THEN {<<p, cert[p]>>} ELSE {}

\* offered_certificate, on the copy the agent holds.
OfferedCertificate(p) ==
  IF held[p] = "serving" /\ cert[p] # "none" /\ sighting[p] = cert[p]
  THEN {<<p, cert[p]>>} ELSE {}

\* sync_offer up to its install; a withdrawal of another card's offer comes
\* first.
SyncOffer(next) ==
  LET wanted == OfferedCertificate(pair) IN
  \/ /\ (Raised \/ wanted = offered)
     /\ UNCHANGED offer /\ Goes(next)
  \/ /\ ~Raised /\ wanted # offered /\ wanted = {}
     /\ Withdraw /\ Goes(next)
  \/ /\ ~Raised /\ wanted # offered /\ wanted # {}
     /\ IF offered # {} THEN Gate({}) \/ RemovalFails
                        ELSE UNCHANGED browser
     /\ offered' = {} /\ want' = wanted
     /\ at' = "install" /\ then' = next /\ UNCHANGED job

\* install_browser_certificate: the same certificate is replaced, with the
\* pairing its key names; any other stays beside it.
Installed(offers) == {b \in browser : \A o \in offers : b[2] # o[2]} \cup offers

\* Mutant: what was installed is not recorded.
InstallUnrecorded ==
  /\ at = "install" /\ at' = then /\ then' = "hold" /\ UNCHANGED job
  /\ want' = {} /\ Gate(Installed(want)) /\ UNCHANGED offered
  /\ UNCHANGED <<pending, inbox, window, reply, session, store, signed>>

\* The install runs through the gate; one that fails leaves nothing offered.
Install ==
  /\ at = "install" /\ at' = then /\ then' = "hold" /\ UNCHANGED job
  /\ want' = {}
  /\ \/ Gate(Installed(want)) /\ offered' = IF GateOpen THEN want ELSE offered
     \/ GateOpen /\ Fault("install") /\ UNCHANGED <<browser, offered>>
  /\ UNCHANGED <<pending, inbox, window, reply, session, store, signed>>

-----------------------------------------------------------------------------
(* The replies.  A job's answer goes to its own channel, if the pipe thread  *)
(* still waits on it.                                                        *)

\* The job's client is still served by the pipe thread.
Awaited(c) == pipe = "waiting" /\ conn = {c}

AnswerAll(S, answer) ==
  reply' = [c \in Clients |-> IF c \in S /\ Awaited(c) THEN answer ELSE reply[c]]

Answer(c, answer) == AnswerAll({c}, answer)

NonePending == pending' = {} /\ window' = "over"

Queued == {inbox[i] : i \in 1..Len(inbox)}

-----------------------------------------------------------------------------
(* What the engine does to the store and the session in one receive.         *)

\* apply_peer_close and the end of the session; every end records the
\* session, which re-reads the set.
PeerCloses(reason) ==
  /\ file' = IF reason = "pairing_revoked" /\ Stored(file[pair])
               THEN [file EXCEPT ![pair] = "revoked"] ELSE file
  /\ held' = file'
  /\ sighting' = IF reason \in {"service_withdrawn", "card_unavailable"}
                   THEN [sighting EXCEPT ![pair] = "none"] ELSE sighting
  /\ sess' = IF reason = "user_disconnect" THEN "lost" ELSE "at_once"
  /\ UNCHANGED <<cert, pair, heard, checked>>

Reasons == {"pairing_revoked", "service_withdrawn", "card_unavailable", "user_disconnect"}

\* The engine's own close, unless the peer's crosses it.
ClosesHere ==
  \/ /\ sess' = "local" /\ held' = file
     /\ UNCHANGED <<file, cert, sighting, pair, heard, checked>>
  \/ \E reason \in Reasons : PeerCloses(reason)

\* Mutant: a report of no card is recorded as a sighting too.
HearsAny(status) ==
  /\ heard' = status
  /\ sighting' = [sighting EXCEPT ![pair] = status]
  /\ UNCHANGED <<file, held, cert, pair, sess, checked>>

\* record_sighting: the card a session hears present.
Hears(status) ==
  /\ heard' = status
  /\ sighting' = IF status \in Cards THEN [sighting EXCEPT ![pair] = status] ELSE sighting
  /\ UNCHANGED <<file, held, cert, pair, sess, checked>>

\* One receive while the session is open: the withdrawal first, then silence,
\* a failed link, a violation, a close or a card status.
SessionEnds ==
  \/ Raised /\ ClosesHere
  \/ ~Raised /\ \E reason \in Reasons : PeerCloses(reason)

Receives ==
  /\ sess = "open"
  /\ \/ SessionEnds
     \/ ~Raised /\ \E status \in Cards \cup {"absent"} : Hears(status)
     \/ ~Raised /\ UNCHANGED <<session, store>>

-----------------------------------------------------------------------------
(* serve_phone and load_pairing.  Steps of the session thread leave what the  *)
(* pipe thread, the clients and the app own alone (ThreadStep).               *)

\* Mutant: what an earlier run left is not removed.
PurgeSkipped ==
  /\ at = "start" /\ UNCHANGED offer /\ Goes("loop")
  /\ UNCHANGED <<jobs, reply, session, store, signed>>

\* Certificates of an earlier run are removed first.
Purge ==
  /\ at = "start" /\ Withdraw /\ Goes("loop")
  /\ UNCHANGED <<jobs, reply, session, store, signed>>

\* The loop ends once the agent withdrew; its jobs are dropped with the inbox.
ThreadEnds ==
  /\ at' = "ended" /\ NonePending /\ inbox' = <<>> /\ UNCHANGED <<then, job>>
  /\ AnswerAll(pending \cup Queued, "dropped")
  /\ UNCHANGED <<session, store, offer, signed>>

LoopEnds == at = "loop" /\ Raised /\ ThreadEnds

Load ==
  /\ at = "loop" /\ ~Raised
  /\ \/ held' = file /\ Goes("sweep")
     \/ Fault("unread") /\ held' = held /\ Goes("unpaired")
  /\ UNCHANGED <<file, cert, sighting, jobs, reply, session, offer, signed>>

\* check_idle_expiry: the pairings that expired lose their keys, and their
\* offer goes.
Expire(expired) ==
  /\ \A p \in expired : file[p] = "serving"
  /\ file' = [p \in Pairs |-> IF p \in expired THEN "revoked" ELSE file[p]]
  /\ held' = file' /\ UNCHANGED <<cert, sighting>>
  /\ WithdrawIf(\E o \in offered : o[1] \in expired)

Sweep ==
  /\ at = "sweep" /\ Goes("notices")
  /\ \E expired \in SUBSET Pairs : Expire(expired)
  /\ UNCHANGED <<jobs, reply, session, signed>>

\* deliver_revocation_notices: a phone that is told, or whose attempt's bound
\* passed, loses its keys here.  A withdrawn agent dials none.
Notices ==
  /\ at = "notices" /\ Goes("choose")
  /\ \E told \in SUBSET {p \in Pairs : held[p] = "forgotten"} :
       /\ file' = [p \in Pairs |-> IF p \in told /\ Stored(file[p]) THEN "revoked" ELSE file[p]]
       /\ held' = IF told = {} THEN held ELSE file'
  /\ UNCHANGED <<cert, sighting, jobs, reply, session, offer, signed>>

Usable(records) == {p \in Pairs : records[p] = "serving"}

\* usable_pairing: the most recently stored of those that serve.
UsablePairing(p) == p \in Usable(held) /\ \A q \in Usable(held) : q <= p

Choose ==
  /\ at = "choose" /\ \E p \in Pairs : UsablePairing(p) /\ pair' = p
  /\ Goes("resync") /\ UNCHANGED <<sess, heard, checked>>
  /\ UNCHANGED <<jobs, reply, store, offer, signed>>

ChooseNone ==
  /\ at = "choose" /\ Usable(held) = {}
  /\ Goes("unpaired")
  /\ UNCHANGED <<jobs, reply, session, store, offer, signed>>

\* Mutant: the request that waits stays without an answer.
UnpairedKeeps ==
  /\ at = "unpaired" /\ Goes("no_pairing")
  /\ WithdrawIf(TRUE)
  /\ UNCHANGED <<jobs, reply, session, store, signed>>

\* No usable pairing: nothing stays offered and a waiting request fails.
Unpaired ==
  /\ at = "unpaired" /\ Goes("no_pairing")
  /\ WithdrawIf(TRUE)
  /\ AnswerAll(pending, "failed") /\ NonePending /\ UNCHANGED inbox
  /\ UNCHANGED <<session, store, signed>>

\* The pause without a pairing: a request fails at once.
NoPairing ==
  /\ at = "no_pairing" /\ Goes("loop")
  /\ IF inbox = <<>> THEN UNCHANGED <<inbox, reply>>
     ELSE Answer(Head(inbox), "failed") /\ inbox' = Tail(inbox)
  /\ UNCHANGED <<pending, window, session, store, offer, signed>>

-----------------------------------------------------------------------------
(* The search for the phone.                                                 *)

\* connect succeeds on the copy's record and records the session, which
\* re-reads the set.
Opens ==
  /\ at = "search" /\ ~Raised /\ held[pair] = "serving"
  /\ sess' = "open" /\ heard' = "unsaid" /\ checked' = "none" /\ UNCHANGED pair
  /\ held' = file /\ Goes("report")
  /\ UNCHANGED <<file, cert, sighting, jobs, reply, offer, signed>>

\* An attempt of the search that opens no session and does not end it: the
\* phone closes with a reason that drops its identity, or the link fails after
\* its new name was stored.
Attempt ==
  /\ at = "search" /\ ~Raised /\ held[pair] = "serving"
  /\ \/ sighting' = [sighting EXCEPT ![pair] = "none"] /\ UNCHANGED held
     \/ held' = file /\ UNCHANGED sighting
  /\ UNCHANGED <<file, cert, jobs, reply, thread, session, offer, signed>>

\* A job waiting for the phone is answered with all that queued behind it,
\* unless its window is open and the search may go on.
AfterFailedSearch(searchOver) ==
  LET fresh   == pending = {} /\ inbox # <<>>
      waiting == IF fresh THEN {Head(inbox)} ELSE pending
      again   == waiting # {} /\ ~searchOver /\ (fresh \/ window = "open")
  IN
  /\ pair' = 0 /\ UNCHANGED <<sess, heard, checked>>
  /\ \/ /\ again
        /\ pending' = waiting /\ inbox' = IF fresh THEN Tail(inbox) ELSE inbox
        /\ window' = "open" /\ UNCHANGED reply /\ Goes("loop")
     \/ /\ ~again
        /\ IF waiting = {} THEN UNCHANGED <<reply, inbox>>
           ELSE AnswerAll(waiting \cup Queued, "no_phone") /\ inbox' = <<>>
        /\ NonePending /\ Goes("pause")
  /\ UNCHANGED <<cert, sighting, signed>>

\* The window closes; the scan cannot run, or the pairing no longer serves
\* here; or the phone says it forgot the pairing, and the offer goes at once.
SearchFails ==
  /\ at = "search" /\ ~Raised
  /\ \/ AfterFailedSearch(FALSE) /\ UNCHANGED <<file, held, offer>>
     \/ AfterFailedSearch(TRUE) /\ UNCHANGED <<file, held, offer>>
     \/ /\ held[pair] = "serving" /\ AfterFailedSearch(TRUE)
        /\ file' = IF Stored(file[pair]) THEN [file EXCEPT ![pair] = "revoked"] ELSE file
        /\ held' = file' /\ Withdraw

SearchWithdrawn == at = "search" /\ Raised /\ ThreadEnds

\* The wait between two searches ends with a request or with time.
Pause ==
  /\ at = "pause" /\ Goes("loop")
  /\ IF inbox = <<>> THEN UNCHANGED jobs
     ELSE pending' = {Head(inbox)} /\ inbox' = Tail(inbox) /\ window' = "open"
  /\ UNCHANGED <<reply, session, store, offer, signed>>

\* REACH_WINDOW passes for the waiting request.
WindowPasses ==
  /\ pending # {} /\ window = "open" /\ window' = "over"
  /\ UNCHANGED <<clients, pipe, conn, inbox, pending, reply, phase, thread, session, store,
                 offer, appOffered, signed>>

-----------------------------------------------------------------------------
(* The open session.                                                         *)

AwaitReport ==
  /\ at = "report" /\ heard = "unsaid"
  /\ Receives
  /\ UNCHANGED <<jobs, reply, thread, offer, signed>>

\* The report came, the session ended, or FIRST_CARD_REPORT_WAIT passed.
ReportOver ==
  /\ at = "report" /\ Goes("follow")
  /\ UNCHANGED <<jobs, reply, session, store, offer, signed>>

\* A card present that was not followed yet.
Unfollowed == heard \in Cards /\ checked # heard

Known == IF Stored(held[pair]) THEN cert[pair] ELSE "none"

FollowCard ==
  /\ at = "follow"
  /\ checked' = IF Unfollowed THEN heard ELSE checked
  /\ SyncOffer(IF Unfollowed /\ Known # heard THEN "read" ELSE "hold")
  /\ UNCHANGED <<jobs, reply, pair, sess, heard, store, signed>>

Resync ==
  /\ at = "resync" /\ SyncOffer(IF sess = "none" THEN "search" ELSE "hold")
  /\ UNCHANGED <<jobs, reply, session, store, signed>>

\* learn_certificate: what the phone's card answers is stored, whichever card
\* that is by now; the update re-reads the set.
ReadCertificate ==
  /\ at = "read" /\ sess = "open" /\ ~Raised /\ Goes("resync")
  /\ \E card \in Cards : cert' = [cert EXCEPT ![pair] = IF Stored(file[pair]) THEN card ELSE @]
  /\ held' = file
  /\ UNCHANGED <<session, file, sighting, jobs, reply, offer, signed>>

\* The read goes on, or ends without a certificate.
Reading ==
  /\ at = "read" /\ Receives
  /\ UNCHANGED <<jobs, reply, thread, offer, signed>>

ReadFailed ==
  /\ at = "read" /\ Goes("resync")
  /\ UNCHANGED <<jobs, reply, session, store, offer, signed>>

\* The request that waited for the session.
ServePending ==
  /\ at = "hold" /\ pending # {} /\ NonePending
  /\ IF sess = "open"
       THEN at' = "sign" /\ then' = "hold" /\ job' = pending /\ UNCHANGED reply
       ELSE AnswerAll(pending, "no_phone") /\ UNCHANGED thread
  /\ UNCHANGED <<inbox, session, store, offer, signed>>

\* Mutant: the copy is not read again before it is looked at.
CloseIfHeldForgotten ==
  \/ held[pair] = "serving" /\ UNCHANGED <<store, session, offer>>
  \/ held[pair] # "serving" /\ ClosesHere /\ Withdraw

\* close_if_forgotten: the phone of a forgotten pairing is told and the keys
\* go, or the close is not delivered and the pairing stays forgotten; one
\* revoked or removed is closed.
CloseIfForgotten ==
  \/ /\ file[pair] = "serving" /\ held' = file
     /\ UNCHANGED <<file, cert, sighting, session, offer>>
  \/ /\ file[pair] = "forgotten" /\ Withdraw
     /\ sess' = IF sess = "open" THEN "local" ELSE sess
     /\ \E left \in {"revoked", "forgotten"} : file' = [file EXCEPT ![pair] = left]
     /\ held' = file' /\ UNCHANGED <<cert, sighting, pair, heard, checked>>
  \/ /\ file[pair] \notin {"serving", "forgotten"} /\ Withdraw
     /\ IF sess = "open" THEN ClosesHere
        ELSE held' = file /\ UNCHANGED <<file, cert, sighting, session>>
  \/ Fault("unread") /\ UNCHANGED <<store, session, offer>>

\* A request that arrived: the store is read first, and a pairing forgotten
\* meanwhile signs nothing.
TakeJob ==
  /\ at = "hold" /\ pending = {} /\ sess = "open" /\ inbox # <<>>
  /\ inbox' = Tail(inbox) /\ UNCHANGED <<pending, window, signed>>
  /\ CloseIfForgotten
  /\ IF sess' = "open"
       THEN at' = "sign" /\ then' = "checks" /\ job' = {Head(inbox)} /\ UNCHANGED reply
       ELSE Answer(Head(inbox), "failed") /\ Goes("checks")

KeepAlive ==
  /\ at = "hold" /\ pending = {} /\ inbox = <<>>
  /\ Receives /\ Goes("checks")
  /\ UNCHANGED <<jobs, reply, offer, signed>>

\* sign up to the request: refused for another pairing, not admitted on an
\* ended or withdrawn session, or sent.
BeginSign ==
  /\ at = "sign"
  /\ \E c \in job :
       \/ /\ asks[c] # pair /\ Answer(c, "failed")
          /\ at' = then /\ then' = "hold" /\ job' = {} /\ UNCHANGED <<session, store>>
       \/ /\ asks[c] = pair /\ Raised /\ Answer(c, "failed")
          /\ at' = then /\ then' = "hold" /\ job' = {}
          /\ IF sess = "open" THEN ClosesHere ELSE UNCHANGED <<session, store>>
       \/ /\ asks[c] = pair /\ ~Raised /\ Goes("signing")
          /\ UNCHANGED <<reply, session, store>>
  /\ UNCHANGED <<jobs, offer, signed>>

\* Mutant: an ended operation is answered with a signature, whatever its result.
SignAnswerAny(c, answer) == Answer(c, "signature")

\* The answer of an operation to its job.
SignAnswer(c, answer) == Answer(c, answer)

\* The operation goes on, or ends with its result (answer_for), or with the
\* session, signed or not.
Signing ==
  /\ at = "signing" /\ sess = "open"
  /\ Receives
  /\ UNCHANGED <<jobs, reply, thread, offer, signed>>

SignResult ==
  /\ at = "signing" /\ sess = "open" /\ at' = then /\ then' = "hold" /\ job' = {}
  /\ \E c \in job, answer \in Answers \ {"lost", "no_phone"} :
       /\ SignAnswer(c, answer)
       /\ signed' = IF answer = "signature" THEN signed \cup {c} ELSE signed
  /\ UNCHANGED <<jobs, session, store, offer>>

SignLost ==
  /\ at = "signing" /\ sess # "open" /\ at' = then /\ then' = "hold" /\ job' = {}
  /\ \E c \in job : SignAnswer(c, "lost") /\ signed' \in {signed, signed \cup {c}}
  /\ UNCHANGED <<jobs, session, store, offer>>

\* STORE_CHECK_INTERVAL passed since the last look at the store, or not yet.
CheckStore ==
  /\ at = "checks" /\ CloseIfForgotten /\ Goes("idle")
  /\ UNCHANGED <<jobs, reply, signed>>

SkipStore ==
  /\ at = "checks" /\ Goes("idle")
  /\ UNCHANGED <<jobs, reply, session, store, offer, signed>>

\* The daily check, the held pairing counting as in session.
CheckIdle ==
  /\ at = "idle" /\ sess = "open" /\ Goes("follow")
  /\ \E expired \in SUBSET (Pairs \ {pair}) : Expire(expired)
  /\ UNCHANGED <<jobs, reply, session, signed>>

SkipIdle ==
  /\ at = "idle" /\ Goes("follow")
  /\ UNCHANGED <<jobs, reply, session, store, offer, signed>>

HoldOver ==
  /\ at = "hold" /\ pending = {} /\ sess # "open" /\ Goes("over")
  /\ UNCHANGED <<jobs, reply, session, store, offer, signed>>

\* An end that withdraws the identity at once takes the offer with it.
Over ==
  /\ at = "over" /\ Goes("loop")
  /\ IF sess = "at_once" THEN Withdraw ELSE UNCHANGED offer
  /\ pair' = 0 /\ sess' = "none" /\ heard' = "unsaid" /\ checked' = "none"
  /\ UNCHANGED <<jobs, reply, store, signed>>

Search == Opens \/ Attempt \/ SearchFails \/ SearchWithdrawn

InSession ==
  \/ AwaitReport \/ ReportOver \/ FollowCard \/ Resync
  \/ ReadCertificate \/ Reading \/ ReadFailed
  \/ ServePending \/ TakeJob \/ KeepAlive
  \/ BeginSign \/ Signing \/ SignResult \/ SignLost
  \/ CheckStore \/ SkipStore \/ CheckIdle \/ SkipIdle \/ HoldOver \/ Over

BetweenSessions ==
  \/ Purge \/ LoopEnds \/ Load \/ Sweep \/ Notices \/ Choose \/ ChooseNone
  \/ Unpaired \/ NoPairing \/ Pause \/ Search \/ Install

ServePhone ==
  /\ phase # "down"
  /\ BetweenSessions \/ InSession
  /\ UNCHANGED <<clients, pipe, conn, phase, appOffered>>

-----------------------------------------------------------------------------
(* The pipe and its clients.                                                 *)

pipeOnly == <<jobs, phase, thread, session, store, offer, appOffered, signed>>

\* requested_signature: the one instance is free, and the request is written.
Open(c, p) ==
  /\ phase # "down" /\ client[c] = "idle" /\ pipe = "listening" /\ conn = {}
  /\ client' = [client EXCEPT ![c] = "connected"] /\ asks' = [asks EXCEPT ![c] = p]
  /\ conn' = {c}
  /\ UNCHANGED <<pipe, reply, pipeOnly>>

\* The client's deadline passes, while it waits for the pipe or on it, or no
\* agent serves the pipe.
GiveUp(c) ==
  /\ client[c] \in {"idle", "connected"}
  /\ client' = [client EXCEPT ![c] = "left"]
  /\ UNCHANGED <<asks, pipe, conn, reply, pipeOnly>>

\* Client::answer and the disconnect that follows it: a client that left gets
\* nothing.
Answered(c, answer) ==
  /\ client' = IF client[c] = "connected" THEN [client EXCEPT ![c] = answer] ELSE client
  /\ pipe' = "listening" /\ conn' = {} /\ UNCHANGED asks

\* A client of another user or session is disconnected unread.
RefuseStranger(c) ==
  /\ phase # "down" /\ pipe = "listening" /\ conn = {c} /\ c \in Strangers
  /\ client' = [client EXCEPT ![c] = "left"] /\ conn' = {}
  /\ UNCHANGED <<asks, pipe, reply, pipeOnly>>

\* The request becomes a job, unless the session thread is gone.
ReadRequest(c) ==
  /\ phase # "down" /\ pipe = "listening" /\ conn = {c} /\ c \notin Strangers
  /\ at # "ended" /\ inbox' = Append(inbox, c) /\ pipe' = "waiting"
  /\ UNCHANGED <<clients, conn, reply, pending, window, phase, thread, session, store, offer,
                 appOffered, signed>>

\* The session thread is gone, or the client left before it was read.
ReadFails(c) ==
  /\ phase # "down" /\ pipe = "listening" /\ conn = {c} /\ c \notin Strangers
  /\ at = "ended" \/ client[c] = "left"
  /\ Answered(c, "failed") /\ UNCHANGED <<reply, pipeOnly>>

GiveAnswer(c) ==
  /\ phase # "down" /\ pipe = "waiting" /\ conn = {c} /\ reply[c] # "none"
  /\ Answered(c, IF reply[c] = "dropped" THEN "failed" ELSE reply[c])
  /\ reply' = [reply EXCEPT ![c] = "none"] /\ UNCHANGED pipeOnly

\* SIGNATURE_DEADLINE passes; the job is left behind.
Timeout(c) ==
  /\ phase # "down" /\ pipe = "waiting" /\ conn = {c} /\ reply[c] = "none"
  /\ Answered(c, "cancelled")
  /\ UNCHANGED <<reply, pipeOnly>>

PipeThread(c) == RefuseStranger(c) \/ ReadRequest(c) \/ ReadFails(c) \/ GiveAnswer(c)

-----------------------------------------------------------------------------
(* The process: its start, its quit and its death.                           *)

Start ==
  /\ phase = "down" /\ phase' = "up"
  /\ UNCHANGED <<clients, pipe, conn, jobs, reply, thread, session, store, offer, appOffered,
                 signed>>

\* The console handler withdraws; then, once the sessions ended or the bound
\* passed, closes the gate and removes the offer while it holds it.
Quit ==
  /\ phase = "up" /\ phase' = "withdrawn"
  /\ UNCHANGED <<clients, pipe, conn, jobs, reply, thread, session, store, offer, appOffered,
                 signed>>

CloseGate ==
  /\ phase = "withdrawn" /\ phase' = "closed"
  /\ browser' = {} \/ RemovalFails
  /\ UNCHANGED <<clients, pipe, conn, jobs, reply, thread, session, store, offered, want,
                 appOffered, signed>>

\* The process ends, and all but what Windows and the store keep is gone.
Ends ==
  /\ phase' = "down"
  /\ client' = [c \in Clients |-> IF client[c] = "connected" THEN "left" ELSE client[c]]
  /\ pipe' = "listening" /\ conn' = {} /\ inbox' = <<>> /\ pending' = {} /\ window' = "over"
  /\ at' = "start" /\ then' = "hold" /\ job' = {}
  /\ pair' = 0 /\ sess' = "none" /\ heard' = "unsaid" /\ checked' = "none"
  /\ reply' = [c \in Clients |-> "none"]
  /\ held' = [p \in Pairs |-> "new"] /\ offered' = {} /\ want' = {}
  /\ UNCHANGED <<asks, file, cert, sighting, browser, appOffered, signed>>

Exit == phase = "closed" /\ Ends

Dies == phase # "down" /\ Ends

-----------------------------------------------------------------------------
(* The other processes of the user, and the wall clock.                      *)

agentOwn == <<clients, pipe, conn, jobs, reply, phase, thread, session, held, cert, sighting,
              offered, want, signed>>

\* A forget without the certificates: the Win32 application and the CLI.
Forget(p) ==
  /\ file[p] = "serving" /\ file' = [file EXCEPT ![p] = "forgotten"]
  /\ UNCHANGED <<browser, appOffered, agentOwn>>

\* refineid_rapp_forget_pairings: the certificates first, then every pairing;
\* the app's watch is not told.
ForgetEvery ==
  /\ browser' = {}
  /\ file' = [p \in Pairs |-> IF file[p] = "serving" THEN "forgotten" ELSE file[p]]
  /\ UNCHANGED <<appOffered, agentOwn>>

\* The attempt of a forgotten pairing ends, or a revoked record is cleared; the
\* sighting removed with it offers nothing without its record.
Clear(p) ==
  /\ file[p] \in {"forgotten", "revoked"}
  /\ file' = [file EXCEPT ![p] = IF file[p] = "forgotten" THEN "revoked" ELSE "none"]
  /\ UNCHANGED <<browser, appOffered, agentOwn>>

\* The app's finish_pairing: the new pairing replaces what was stored before.
Pair(p) ==
  /\ \A q \in Pairs : q >= p <=> file[q] = "new"
  /\ file' = [q \in Pairs |-> IF q = p THEN "serving"
                              ELSE IF file[q] = "serving" THEN "forgotten" ELSE file[q]]
  /\ browser' = IF \E q \in Pairs : Stored(file[q]) THEN {} ELSE browser
  /\ UNCHANGED <<appOffered, agentOwn>>

\* The app's offering watch: its sync_offer and withdraw_offer.
AppOffers(p) ==
  /\ AppWatches /\ appOffered = {} /\ file[p] = "serving"
  /\ cert[p] # "none" /\ sighting[p] = cert[p]
  /\ appOffered' = {<<p, cert[p]>>} /\ browser' = Installed(appOffered')
  /\ UNCHANGED <<file, agentOwn>>

AppWithdraws ==
  /\ appOffered # {} /\ appOffered' = {} /\ browser' = {}
  /\ UNCHANGED <<file, agentOwn>>

\* No session heard the card for the grace; an open one refreshes it.
Lapse(p) ==
  /\ sighting[p] # "none" /\ ~(sess = "open" /\ pair = p /\ heard \in Cards)
  /\ sighting' = [sighting EXCEPT ![p] = "none"]
  /\ UNCHANGED <<clients, pipe, conn, jobs, reply, phase, thread, session, file, held, cert,
                 offer, appOffered, signed>>

Others ==
  \/ ForgetEvery \/ AppWithdraws
  \/ \E p \in Pairs : Forget(p) \/ Clear(p) \/ Pair(p) \/ AppOffers(p) \/ Lapse(p)

Process == Start \/ Quit \/ CloseGate \/ Exit \/ Dies

PipeSide ==
  \E c \in Clients : PipeThread(c) \/ Timeout(c) \/ GiveUp(c) \/ \E p \in Named : Open(c, p)

Next == ServePhone \/ WindowPasses \/ PipeSide \/ Process \/ Others

Spec == Init /\ [][Next]_vars

\* The session thread goes on, and every wait of it ends: the search and the
\* first card report by their bounds, an operation by its lifetime on the phone
\* or with the session.  A session that lasts looks at the store again and
\* again.  The pipe thread and the quit go on.
Moves == ServePhone /\ at' # at
ChecksStore == ServePhone /\ CheckStore
QuitGoesOn == CloseGate \/ Exit

LiveSpec ==
  /\ Spec /\ WF_vars(ServePhone) /\ WF_vars(Moves) /\ SF_vars(ChecksStore)
  /\ WF_vars(WindowPasses) /\ WF_vars(QuitGoesOn)
  /\ \A c \in Clients : WF_vars(PipeThread(c))

-----------------------------------------------------------------------------
(* Properties.                                                               *)

\* Once the quit has closed the gate no certificate is offered to browsers,
\* whatever install or removal the session thread had under way (offer_gate.rs,
\* session.rs::quit).
NothingAfterQuit == phase = "closed" => browser = {}

\* After the purge of the agent's start every certificate in the user's store
\* is one the agent or the app knows it offers, and so will withdraw, through
\* crashes, failed installs, card changes and each other's removals
\* (session.rs::withdraw_certificates, sync_offer).
NothingUntracked ==
  phase # "down" /\ at # "start" => browser \subseteq offered \cup appOffered

\* "A waiting request runs only once ... the offer follows" the phone's card:
\* when it is put to the phone nothing is offered but the held pairing's
\* certificate of the card the session last reported; another card's offer, or
\* another pairing's, went before (session.rs::serve_phone, follow_card).
OfferFollows == heard \in Cards /\ ~Raised => offered \subseteq {<<pair, heard>>}
WaitingFollowsCard ==
  (at = "hold" /\ pending # {}) \/ (at = "sign" /\ then = "hold") => OfferFollows

\* A provider is given a signature only if the phone signed its own request,
\* although a job may outlive its client and be answered while the pipe serves
\* the next one (session.rs::run, Job).
OwnSignature == \A c \in Clients : client[c] = "signature" => c \in signed

\* A request the session thread has taken is answered without help from
\* SIGNATURE_DEADLINE: none is kept by a search that goes on, by a session that
\* ends before it runs, by a pairing that goes or by a quit
\* (session.rs::serve_phone, after_failed_search, sign).
TakenIsAnswered == \A c \in Clients : (Awaited(c) /\ c \notin Queued) ~> ~Awaited(c)

\* A pairing that no longer serves is not offered by the agent for ever, whoever
\* ended it and whether or not the agent has its session open (session.rs::
\* close_if_forgotten, load_pairing, check_idle_expiry).
Outlived == \E o \in browser \ appOffered : file[o[1]] # "serving"
EndedIsWithdrawn == Outlived ~> (~Outlived \/ phase = "down")

\* "A pairing the user forgot meanwhile signs nothing": the agent asks for no
\* signature on a pairing its own copy of the store has as ended
\* (session.rs::hold_session, serve_phone).
EndedSignsNothing == at = "sign" => held[pair] = "serving"

\* "A waiting request runs only once the phone has said which card it holds and
\* the offer follows it" (session.rs::await_card_report, serve_phone).
CardSaidFirst == at = "sign" => heard # "unsaid"

\* The offer "goes at once when ... a session hears another card": also when
\* the session hears it during a signature (session.rs::sync_offer, sign).
GoesAtOnce == at = "signing" => OfferFollows

\* "Each queued request keeps its own deadline" (W-R-6): no request is put to
\* the phone's holder for a provider whose deadline passed (session.rs::sign).
DeadlineKept == at = "sign" => \A c \in job : client[c] = "connected"

\* "The offer stands before and between sessions" (session.rs::sync_offer): what
\* the agent offers does not stay removed from the user's store.
OfferStands == []<>(offered \subseteq browser)
====
