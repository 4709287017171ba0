# RefineID for Windows: a TLA+ verification project

RefineID for Windows lets a computer use a smart card that is in its own reader
or in a paired phone. For a phone the computer is the *requester* and the phone
the *custodian*; they speak RAPP over Bluetooth LE or a local network stream.
For a card in the reader the program has a card manager (PIN change, unblocking
and activation), a PKCS #11 module, a card module (minidriver) and a document
signing service. This project models the parts that keep state across failures,
between processes and between threads: the requester engine, its view of the
custodian, the pairing set that every process of a user shares, the agent, the
PIN operations of the card manager and of the two drivers, and one document
signing from the request to the written file.

Every definition is translated from the code under `src/`; `PROJECT.json`
(`map`) gives the lines. What lies outside the repository (the `refineid-rapp`
protocol crate, the operating system, the phone) is modelled from how the code
uses it and marked external.

## Inventory

| Component | State it keeps | Operations | Interacts with | Hard parts |
|---|---|---|---|---|
| Custodian view (`rapp-core/view.rs`) | per custodian and process: idle, connecting with or without an open redial window, connected, withdrawn; what is in sight | look, withdrawn record, dial admitted, dial failed, session opened, closed here, ended, pairing left | told by the engine and the dialling code, read before every dial | process-wide, told by whoever ends a session; redial window on a continuous clock |
| Requester engine (`rapp-core/engine.rs`) | the session, its live operation, the card's status, the count of open sessions, the withdrawal | connect, run an operation, receive, disconnect, forget in session, revocation notice, raise and wait | transport, store, view; a quitting thread | crossing closes, silent links, late results, a quit during a handshake, refused store writes |
| Pairing (`engine.rs::complete_pairing`, `offer.rs`) | the ceremony's position, an unconfirmed record | search by code, PAKE, handshake, grant, storage confirmation | store, transport, the user | a crash or a lost confirmation between the two sides' stores |
| Pairing store (`rapp-core/store.rs`, `windows-credential-store/pairing.rs`) | the protected file, each instance's copy, the card sightings | load, insert, update, remove, sweep, forget, revoke, delete | every process of the user: agent, minidriver, PKCS#11, desktop, CLI | no lock between the read and the rename; stale copies; unreadable sets |
| Presence and offer (`presence.rs`, `store.rs::offered_certificate`) | the last card heard present | record, drop, offer through a grace | sessions, the browser's certificate store | a withdrawn custodian's card must not be offered |
| Stream and BLE transports (`stream.rs`, `rapp-ble`) | discovery caches, link segmentation | browse, dial, send, receive | engine, view | which advertiser is tried, what a partial frame means |
| Agent and its pipe (`refineid-agent`, `refineid-agent-pipe`) | the held session, jobs of the drivers, the offer | hold, sign for a driver, quit | engine, pipe clients | two threads and a quit handler |
| Desktop bridge (`refineid-rapp-ffi`) | handles, a watch thread, the offer | pair, read, watch, forget all | engine, store | sessions dropped on errors; two sessions on one view |
| Card manager (`card-manager-core`, called by `settings-ffi` and `gui-win32`) | the card shown, the operation under way and its connection | inspect, change a PIN, unblock it, activate the card | the card over PC/SC, other programs on the same card | the card exchanged between what the user saw and what is opened; two PINs set by two commands; tries read by one command and spent by the next |
| Card protocol library (`lib-core`) | nothing but the PIN cache; the state is the card's | the PIN commands and the classes of their answers, retry floor, activation judgement, checkout of a held PIN, secure messaging | every local component | counters at their limit, a command whose answer is lost, the counter of a secure channel |
| PKCS #11 module (`pkcs11`) | slots, sessions, logins, the PIN cache of each reader | C_Initialize to C_Finalize, C_Login, C_Logout, C_Sign, C_SetPIN | the card, the agent | threads, two mutexes, a PIN in use while the login that gave it ends, cards exchanged |
| Minidriver and KSP (`minidriver`) | contexts with their authentication, one PIN cache for the process | the card module's entry points | the Base CSP, the card, the agent | handles that change under a context, a PIN held for all contexts, resets between calls |
| Document signing (`doc-sign`) | one signature in progress, its timestamps and evidence | prepare, present the PIN, sign, time-stamp, follow certificate paths, collect evidence, archive, write | timestamp authorities, OCSP and CRL services, the card | every answer of the network may be anything; certificates change between two answers; formats and cryptography |
| Settings, installer, desktop applications, diagnostics | registry and user interface | | | not protocol logic |

What makes them correct, in a line each: the view agrees with the sessions and
never dials or offers a withdrawn custodian; the count of open sessions is
exact, so a quit waits for each and only for those; a revocation received is
kept; an operation is reported done only if the card did it; every wait ends;
a pairing serves only when both sides stored it, stays until it is ended, and
never comes back; a driver gets only its own signature, and every certificate
offered to browsers is one that somebody will withdraw. At the card: this
software never spends one of the last two tries of a credential and never sends
a value it has seen refused; codes reach the card they were typed for; a PIN the
holder uses is not overwritten by an activation; an ended login stays ended; a
qualified signature has an entry of PIN 2 of its own; a written document has the
evidence its level promises.

## Modules

| Module | Models | Source |
|---|---|---|
| `CustodianView` | the view's operations as operators on one view | `view.rs` |
| `RequesterSession` | one process's engine thread with its caller, the quitting thread, the shared store, the link, the custodian and the clock | `engine.rs`, `stream.rs::dialled_session`, `mock_proxy.rs` for the custodian |
| `RequesterSession_proofs` | type correctness, the count of open sessions, the view, the offer, the revocation, the withdrawal and the outcomes | |
| `PairingStore` | the file, any number of store instances, the pairing ceremony's storage phase, the loops of `forget_every_pairing` | `pairing.rs`, `store.rs`, `rapp-ffi/lib.rs` |
| `PairingStore_proofs` | type correctness, confirmed, ended and reported pairings, the refinement of the lifecycle | |
| `Agent` | the agent's pipe thread, session thread and quit handler, the providers on its pipe, the user's certificate store, the app beside it | `refineid-agent`, `refineid-agent-pipe`, `certstore.rs`, `rapp-ffi/lib.rs` for the app's offer |
| `MCAgent` | `Agent` with the symmetry of its runs | |
| `Agent_proofs` | type correctness, the offer with its quit, the signatures, the offer at a waiting request | |
| `PairingLifecycle` | what the pairing store promises: the abstract specification `PairingStore` implements | `store.rs`, `engine.rs`, `rapp-ffi/lib.rs` |
| `RetryFloor` | which status of a credential still admits a presentation | `lib-core/pin_retry_risk.rs` |
| `CardChip` | the card: tries, verified PINs, PINs not yet set, and what each PIN command does and answers | `lib-core/auth.rs`, `activation.rs` |
| `CardTries` | what a program promises of the counters on a card: the abstract specification the four modules over cards implement | `lib-core/pin_retry_risk.rs`, `auth.rs` |
| `CardChip_proofs` | lemmas on what the commands do to a card, for the four modules over cards | |
| `CardManager`, `MCCardManager` | the PIN operations of the settings application and the window | `card-manager-core`, `settings-ffi`, `gui-win32/pin.rs` |
| `CardManager_proofs` | type correctness, the shown card, one try per operation, the retry floor, the holder's PIN, the refinement of `CardTries` | |
| `PinCache` | the held PIN and the conditions of its checkout | `lib-core/pin_cache.rs` |
| `Pkcs11`, `MCPkcs11` | the PKCS #11 module in one application with several threads | `pkcs11` |
| `Pkcs11_proofs` | type correctness, rejected values, ended logins, the right card, the two mutexes, the refinement of `CardTries` | |
| `Minidriver`, `MCMinidriver` | the card module's contexts in one process | `minidriver` |
| `Minidriver_proofs` | type correctness, the held PIN, the qualified signatures, the retry floor, the rejected values, the refinement of `CardTries` | |
| `CertPath` | certificate paths over a given set of certificates: candidates for an issuer, validity, anchors | `doc-sign/material.rs` |
| `DocumentSigning`, `MCDocumentSigning` | one signing from the request to the written document | `doc-sign/service.rs`, `document.rs`, `material.rs`, `asic.rs`, `cades.rs`, `timestamp.rs` |
| `DocumentSigning_proofs` | type correctness, the shown card's signature and tries, the promised evidence, the refinement of `CardTries` | |

The modules compose by what each leaves to another: `RequesterSession` applies
`CustodianView`'s operators; `Agent` takes a session and a store change as one
step each, whose frames are in `RequesterSession` and whose interleavings are in
`PairingStore`. `CardChip` extends `RetryFloor`, and `CardManager`, `Pkcs11`,
`Minidriver` (both over `PinCache`) and `DocumentSigning` (with `CertPath`) all
talk to that one card, so that a change of what the card answers, or of the
floor, is seen by every run over a card. Each of the four instantiates
`CardTries` with the counters of its cards (`KeepsTries`): one promise, and four
components shown to keep it.

### RequesterSession

`pc` is the wait the engine thread is in: with its caller (`idle`), in the
handshake (`kk`), waiting for `session.ready` (`ready`), between counting the
session and returning it (`opening`), with a healthy session (`held`), waiting
for the echo of a close it sent (`closing`, `violating`, `early`,
`forgetting`), in the revocation notice (`notice_kk`, `notice`), or gone with
its process. An action is the code between two waits, with everything it calls:
the store change, the view's transition, the place given back. `op` is the live
operation and `outcome` what each was reported as; `executed` is what the
custodian's card did. `pairing` and `sighting` are the store's record and card
sighting as this process sees them; `revokeHeard` is history.

The link is a queue in each direction and a flag; a send on a failed link may
seem to succeed, and what is under way when the link fails arrives or is lost.
The custodian may close for any reason at any time, misbehave, lose the link,
and answer or not. `AppCaller` chooses the caller: the agent, which ends each
session through the engine, or the desktop bridge, which drops a session on an
operation's failure and looks at withdrawn records.

### PairingStore

An instance reads the file and applies one change in one action (`Begin`),
then replaces the whole file in another (`Renamed`) or fails to
(`WriteRefused`): the code holds no lock between them. A load collects the
unconfirmed records and the expired notices and changes each in turn, then
writes its copy once more. A ceremony stores its record unconfirmed, waits for
the phone and confirms or removes it. A process may die at any step. `ended`,
`paired` and `peerStored` are history: which ends were written, which pairings
were reported, and which the phone stored.

`Lifecycle` instantiates `PairingLifecycle` with the file as the record, the
phones' stores, the pairings reported to a caller and the ends written:
`ImplementsLifecycle` says that with one instance every read, write, refused
write, crash and clean-up is a step of a pairing's life, or none. A pairing
waits, is stored by its phone, serves, is given to its caller, ends once and is
cleared; a record that waits may be abandoned; a served one goes only by its end.

### Agent

`at` is the place of the session thread: the purge of its start, the loop with
`load_pairing`'s parts, the search and what follows a failed one,
`await_card_report`, `follow_card`, `hold_session`, one operation. An action
runs to the next place where another actor can be seen: before a store change,
between the look at the withdrawal and the install that passes the gate, before
and after every wait. `then` is where a called function returns to. An `Option`
of the code is a set of at most one element (`pending`, `job`, `conn`,
`offered`).

`phase` is the process with its withdrawal and its gate: not running, serving,
withdrawn, gate closed. The pipe has one instance (`conn`); a provider may give
up at any time, while it waits for the pipe or on it, and its job stays in the
agent (`inbox`, `pending`, `job`), whose answer goes to that job's own channel.
`file` is the stored set and `held` the agent's copy of it, re-read where the
code re-reads it. `browser` is what the user's store offers, each certificate
with the pairing its key names.

Deadlines have no clock here: a wait with a bound may end whenever it goes on.
What a session receives is `Receives`: a close for any reason, a card status, or
nothing the agent sees. Other processes forget, clear and pair at any time.

### CardChip and RetryFloor

A card is a record: its profile (citizen or organizational numbering, how it was
personalized, which states it reports and which it is silent about, which
verifications survive a selection), the PINs not yet set, the verified ones and
the tries left of PIN 1, PIN 2 and the PUK. `Verified`, `PinChanged`, `PinReset`
give the card after a command and `Answer` the class of what it answers;
`PinStatus` and `PukStatus` are what the status commands make of it, unknown
included. `ServedByFloor` decides on such a status, as the code does, not on the
counter. `AwaitsActivation` is the code's guess from the same statuses.

`CardTries` has nothing of this but the counters: a wrong code costs one try and
a right one fills its counter, both only from three tries up; a right PUK also
fills a PIN's counter; nothing else moves one, except another program. Every
other step of a component must leave all counters alone: a probe, a selection, a
reset of the reader, a blocked PUK that is asked and answers without spending.
`others` counts what other programs did, so that a component cannot pass off a
try of its own as theirs.

### CardManager

A tool shows a card and runs one operation at a time. `op[t].at` is the next
command or group of commands: the second inspection of the window's forms
(`inspect`), the binding (`bind`), the connection of the operation itself
(`open`), the judgement of the card's state (`judge`), the read of the tries
(`floor`), the command that presents the code (`present`), and the second
command of an organizational card's reset (`reset`). `typed` is the card shown
while the codes were typed and `expected` the serial the operation is called
with: the settings application passes the one shown, the window the one it
inspects again. Between any two points the card may be exchanged; a live
connection dies with it. `AnswerLost` is a command carried out whose answer
does not come. `Interleaved` lets another program's command fall between two of
an operation.

### Pkcs11

`th[t].at` is where a call is: `enter` before its look under MODULE, `clear`
before it empties the cache, `probe` before it reads serial and status,
`check`, `verify`, `checkout`, `present`, `settle` around the cache and the
VERIFY, `pso` before the signature, `deliver` before the answer. `mutex` is who
holds MODULE while waiting for the cache; C_Login keeps the cache during its
VERIFY, which the guards of the other points express. `held` is the entry,
`current` the threads whose checkout no invalidation has outdated (the code's
generation number, of which only equality is asked). `slot` and `objects` are
refreshed only by the calls that refresh them. `user` is history.

### Minidriver

The Base CSP wraps an entry point in a PC/SC transaction, so a call is one step.
`handle` and `reach` are the Base CSP's: a reconnection gives a handle that was
never used before. `ctx[x].tx` is the handle the context's transport uses, which
only authentication and signing bring up to date (`Synced`); `channel` is plain,
or the secure channel of a contactless reader. A reset ends the channel, and so
does a lost answer: the counter is stepped when a command is wrapped and again
when its answer is unwrapped (`AfterCommand`). What comes of a lost answer
follows the branch of each call: the re-verification puts the held PIN back, an
entry leaves nothing held, the use of a key forgets what was authenticated.
`entered` and `unentered` are history.

### CertPath and DocumentSigning

`CertPath` is over constants: the certificates with issuer, key and validity,
and what is published. An issuer is looked for among the certificates at hand
(`KnownIssuers`) and, if none fits, at the addresses the certificate names
(`FetchedIssuers`), each in the code's order; the first fit is taken and there is
no way back from it. `FindIssuer` is the set of what may be found, since an
address may fail to answer. `DocumentSigning` runs one request:
open, bind, present, sign, then one step for each answer from the network: a
timestamp asked for, an issuer found, a certificate's status obtained. Each
status answer is chosen freely among what the code tells apart. `walk` is the
path being followed and for whom; `material` is the evidence merged so far;
`output` is the document as written, with what its archive timestamp was
computed over.

The path of an archive timestamp's certificate is followed twice
(`authenticate_archive_timestamp`): once to require it inside the store the
timestamp covers, and once to obtain its evidence, which is an acceptance test
and is not kept. The two walks give one path only while the addresses answer the
same. `LevelKept` therefore asks of an LTA document that the path with the
evidence is valid and not revoked, and that the covered store holds some valid
path of that certificate; it does not ask that the two are equal.

## Runs

| Run | Expect | Shows |
|---|---|---|
| `Session_agent` | pass | with the agent as the caller, its quit, two sessions and a redial window: the view follows the session, revocations are heeded, a withdrawn custodian is not offered nor dialled, and a raised withdrawal ends every session |
| `Session_app` | pass | with the desktop bridge as the caller, two operations, two frames under way and a refused write: the count of sessions and the outcomes are exact, and no wait of the engine outlasts its bound |
| `Store_one` | pass | one instance, two pairings, with refused writes, an unreadable set and crashes; every step is one of the abstract lifecycle |
| `Store_resurrected` | violation | an ended pairing comes back with another instance's older set |
| `Agent_offer` | pass | two cards, failed installs, unreadable sets, crashes and quits: nothing is offered after a quit, nothing unknown while the agent runs, and a request that waited runs with the offer of the card its session reported |
| `Agent_answered` | pass | a request taken by the session thread is answered without the pipe's deadline, and with a signature only if it was signed |
| `Agent_ended` | pass | an ended pairing is not offered for ever, beside the app's own offer; a stranger on the pipe |
| `Card_manager` | pass | change, unblocking and activation with cards exchanged and pulled, lost answers and other programs: the retry floor, the shown card, one try per operation, no PIN in use overwritten |
| `Pkcs11_pins` | pass | two threads over one reader, with cards and the reader coming and going: rejected values, ended logins, the right card, and no circular wait of the mutexes |
| `Minidriver_pins` | pass | two contexts, a card over contacts and a contactless one, with resets, reconnections, lost answers and other programs: the held PIN, the qualified signatures, the counters as `CardTries` promises, and the rejected values |
| `Doc_signing` | pass | every format and level, cards exchanged, authorities that fail or change their certificate, any answer about a certificate: the promised evidence, the shown card's signature, no try spent elsewhere, and the job returns |
| `Doc_archive` | violation | the archive manifest of an ASiC container with CAdES does not hold the digest of the signature that the container stores |

Each violation is listed under `findings` with the line of documentation it
contradicts.

**Further disagreements.** These properties are stated in the modules too and
are refuted in the same way: put the name in the place of the property of the
configuration given, with the constants given.

| Property | Configuration | The documentation and the code |
|---|---|---|
| `ViewFollowsSession` | `Session_app` | `view.rs:43`, connected is "A session is healthy."; a failed card read of the bridge drops its session and tells no view (`rapp-ffi/lib.rs:714`) |
| `WithdrawnOffersNothing` | `Session_app` | `view.rs:45`, a withdrawn custodian has "no dial and no offer"; a card read that sees the withdrawn record leaves the sighting |
| `RevocationHeeded` | `Session_agent` with `MaxRefusedWrites = 1` | `engine.rs:1687`, a `pairing_revoked` close "revokes the pairing here"; `apply_peer_close` discards a refused write, and nothing retries it |
| `QuitLeavesNoSession` | `Session_agent` | `engine.rs:1241`, a session ready as the engine withdraws "gets the `service_withdrawn` close"; one in its handshake is counted after `raise_and_wait` returned, and the process exits |
| `PairedIsKept` | `Store_resurrected` | `pairing.rs:80` and `:112`: a load in one process removes the record another is confirming, after the pairing was reported complete |
| `NeverWrittenUnread` | `Store_one` | `pairing.rs:37`, "a change is never written over a set that could not be read"; `load_from` persists although the refresh before it failed |
| `EndedSignsNothing` | `Agent_answered` with `Spec`, `Cards = {k1}`, `Faults = {}` | `session.rs:568`, "A pairing the user forgot meanwhile signs nothing"; a request that waited runs right after the reach (`session.rs:425`), on a pairing the agent's own copy has as forgotten |
| `CardSaidFirst` | the same | `session.rs:416`, a waiting request "runs only once the phone has said which card it holds"; `FIRST_CARD_REPORT_WAIT` may pass first |
| `DeadlineKept` | the same | `doc/stpa-windows-ble-requester.md:151`, "each queued request keeps its own deadline"; a job has none, and is put to the phone after its provider gave up |
| `GoesAtOnce` | the same with `Cards = {k1, k2}` | `session.rs:291`, the offer "goes at once when ... a session hears another card"; during a signature it stays until the signature ends |
| `OfferStands` | `Agent_ended` with `Faults = {}` | `session.rs:290`, "The offer stands before and between sessions"; the app's withdrawal removes it and the agent, whose record still equals what it wants, does not install it again |
| `FloorKept` | `Card_manager` with `Interleaved = TRUE`, `MaxOther = 2`, `Initially <- MCActivated` | `pkcs11/token.rs:1133`, "one held PC/SC transaction, so no concurrent card consumer can interleave"; the connection is shared and only a single command is a transaction, so the tries may fall between their read and the code |
| `EveryCallerBinds` | `Card_manager` | `service.rs:400`, "on the card currently shown by the UI"; the window inspects again when the user confirms, and passes the serial it finds then (`gui-win32/pin.rs:407`) |
| `RefusalLeavesPuk` | `Card_manager` with `Initially <- MCPreset` | `pin_retry_risk.rs:252`, a PIN refused near its end is left to the PUK; `require_activated` refuses the unblocking of a card that reports no PIN set (`card_pin.rs:585`) |
| `RefusedThereafter` | `Pkcs11_pins` | `pin_cache.rs:27`, a rejected value is "remembered until process exit and refused locally thereafter, so software cannot burn another card retry with the same value"; a signature that checked the value out before another thread's refusal still presents it |

Smaller ones were read in the code and are not stated as properties: an
activation that set one PIN of two is reported as having set both
(`settings-ffi/lib.rs:1061`); an unblocking by the card module may set a value
that the rejection memory holds; a failed PACE run in `sync_transport_handle`
leaves the new handle, so that PACE is not tried again; the held PIN 1 of the
PKCS #11 module outlives the last session when that closes during C_Login
(`state.rs:24`); the token objects of a slot stay those of the previous card
until the next refresh; a certificate that cannot be saved beside a signed
document is reported as a failure although the document was written
(`doc-sign/service.rs:862`); a single failing authority is asked without end
with the card session open.

**Beyond the runs.** Three more configurations check what is proved of the other
components over cards; each passes in about two minutes or less.

| Configuration | Module | Shows |
|---|---|---|
| `Card_tries` | `MCCardManager` | `KeepsTries`: two tools on one card, other programs and a lost answer, but nothing inside an operation |
| `Pkcs11_tries` | `MCPkcs11` | `KeepsTries` and `RefusedThereafter`: two threads, other programs and a lost answer, but nothing between a call's reading and its code |
| `Doc_tries` | `MCDocumentSigning` | `KeepsTries`: two cards with any counters, exchanged at any step of a signing |

`Card_tries` and `Pkcs11_tries` start one wrong code above the floor
(`MCSpent`), so that a refusal of one tool or thread decides what the next may do;
two of each, one card, and two operations or three calls let one act on what
another left. They run under `ExclusiveSpec`: other programs, tools and threads
act anywhere but inside the commands of one operation, from its connection (in
`CardManager`) or from the status that admits a PIN (in `Pkcs11`) to the code.
That is what one held transaction would give; the code's connection is shared and
gives it for a single command only. With `Spec` in its place TLC refutes all
three properties. `Minidriver_pins` needs no such hypothesis, a call there being
one transaction of the Base CSP. `Doc_tries` takes plain signatures only, since
nothing after the PIN touches a counter; no other program is modelled beside a
signing.

**Bounds.** `MaxOps`, `MaxInFlight`, `MaxUserActs`, `MaxTime` and the counts of
refused writes, unreadable sets and crashes are constants of the modules. Two
operations (`Session_app`) are enough for a late result to meet the next
operation; two frames under way let a close stand behind another frame; two
sessions and one tick (`Session_agent`) let a redial window open and pass. The
safety properties of both runs are proved for every value of these constants. A
refused write, an unreadable set and a crash at any step meet every step of the
load and the ceremony. Two instances and one pairing are enough for every lost
update, since the whole set is replaced; that any number of instances never
serve an unconfirmed pairing is proved.

In `Agent`, `Clients`, `Cards` and `MaxPair` are the bounds: a second card is
needed for a change of the offer. That an answer which comes while the pipe
serves another provider stays with its job needs two providers: it is proved for
any number (`SignaturesOwn`), and `Agent_answered` checks it with one whose job
outlives it. One pairing is stored at a time; a key may also name one that
is gone (`Named`), and what a second pairing means for the offer is proved for
any number (`EveryOfferTracked`). `Faults` says which operations may fail.
Cards are interchangeable, so `Agent_offer`, which checks invariants only and has
no strangers, uses their permutations as symmetry.

The runs over cards start from counters just above the floor, where the next
wrong code meets it, and from cards new, half activated or blocked
(`MCInitially`); two cards are enough for an exchange, one act of another
program and one lost answer for each to fall anywhere. `Card_manager` takes two
operations, so that the second finds what the first left. `Pkcs11_pins` takes
three calls on two threads: a login, a signature in flight and the call that
ends the login or rejects the PIN; its threads are symmetric and its properties
invariants. `Minidriver_pins` takes three calls with two faults (a removal and a
reconnection, or a lost answer and a reset) and one act of another program: a
held PIN made stale by another program, presented with its answer lost, then
presented again. Its contexts start on one card; symmetry permutes them.

`Doc_signing` is one job: cards are moved only until the signature, since no
later step reads the reader, and other programs' commands are left to
`CardManager`. A path has three certificates for the code's eight and a clock of
two ticks with a skew of one; the certificates give every authority an old and a
new issuer, an intermediate that expires, one no path leads to an anchor, and one
whose issuer is published at two addresses, so that two paths of it differ.

**Fairness.** The two session runs assume weak fairness of `WaitEnds`, the actions
that leave one of the engine's waits. Each of those waits has a deadline in the
code (`CLOSE_ECHO_WAIT`, the silence limit, the handshake's deadline), so the
thread, once scheduled, leaves it whatever the custodian does. Nothing is
assumed of the custodian, the link, the clock or the caller.

The live runs of `Agent` assume its own threads and clocks. The session thread
goes on (`ServePhone`) and does not stay in a wait for ever (`Moves`): the
search ends with `REACH_WINDOW`, the report with `FIRST_CARD_REPORT_WAIT`, a
receive with its tick, and an operation with its result or its session, which
the phone's own limit on an operation (`OPERATION_LIFETIME`, sent with the
request) or the silence limit ends; the last is an assumption about the phone.
`ChecksStore` is strongly fair, as a held session that loops often enough meets
`STORE_CHECK_INTERVAL` again and again although single rounds skip it.
`WindowPasses` is the clock of a waiting request, `QuitGoesOn` the handler's
thread, `PipeThread` the pipe's. `Timeout` is not fair, so `TakenIsAnswered`
cannot hold by the pipe's deadline; nothing is assumed of providers, the phone's
answers, the app or the user.

`Doc_signing` assumes weak fairness of the job's own steps, each of which the
code ends by a timeout of its HTTP request or of its transaction with the card;
nothing is assumed of the authorities, the cards or the clock.

## Proofs

All proofs are for every value of the constants that satisfies the modules'
assumptions. Those are typings, with three that say more. A card starts with a
full counter for each PIN it has verified (`VerifiedIsFull`): that is how a
verification leaves a counter, and a card never goes back on it. The drivers have
at least one PIN value (`Pins # {}`), a typed PIN being one. A request for a raw
signature has none of the fields that only a document's request has: level B, no
authorities, one file, no card shown.

*RequesterSession.* `TypeCorrect` and `OpenSessionsCounted` rest on
`CountedInv`: the type invariant with the exact count, which is inductive as it
stands because each action that enters or leaves a healthy wait counts or gives
back. `ViewCorrect` and `WithdrawnOffersNone` (for the agent) need `OfferInv`:
the view's state in each wait, and that a withdrawn view has no sighting.
`RevocationsHeeded` needs that no write is refused. `CompletedPerformed` needs
that every result under way was performed (`ResultsPerformed`), in addition to
those already delivered. `WithdrawalHolds` is an action property and follows
from what each operation of the view returns and `DialledInv`.

*PairingStore.* `OnlyConfirmedServe` holds for any instances because the fact
is carried by every copy and every set about to be written (`Backed`), not by
the file alone, and peers' confirmations are never taken back. `EndsLast` is for
any number of instances of which no two are between the read of a change, or of a
load, and its rename (`Locked`). The invariant is about the sets that may become
the file only (`EndedOver`): any older copy may lie in memory, as the next change
reads the file again. So overlapping changes are the one way in which an ended
pairing comes back, and `Store_resurrected` shows that they do: the code holds no
lock there. `EndsLastAlone` is the case of one instance, which is always `Locked`.

`GivenIsKept` and `FollowsLifecycle` are for one instance. A lock would not be
enough for them: the bridge deletes the set when the copy it holds is empty
(`rapp-ffi/lib.rs:318`), and that decision is older than any lock it could take
for the deletion; TLC refutes `PairedIsKept` with two instances under `Locked`
too.

`FollowsLifecycle` is the refinement, `Init` to `Init` and each action to a step
of `PairingLifecycle` or none. It needs `LifeInv`, which ties an instance's copy
and the set it writes to the file. `WriteOK`: a pending write differs from the
file in one record at most, in a way its task may change that record (`Allowed`).
`CopyOK`: the copy too differs from the file in one record at most, one whose
write was refused. `CeremonyOK`: a ceremony is about one pairing,
whose record waits in the file. `LoadOK`: what a load has still to remove or
expire is as it was read. So one rename is one step of one pairing's life, even
where the code writes the whole set after a refused write.

*Agent.* `TypeCorrect` needs that the session thread has chosen a pairing in
every place that uses one (`TypeInv`). `EveryOfferTracked` and `QuitWithdraws`
rest on `OfferInv`: besides the property itself, that nothing is recorded as
offered between a withdrawal and the install that follows it, that the purge has
not run in a process that is not running, and that behind a closed gate only the
app's certificates are left. Both need that Windows refuses no removal, since
the code forgets an offer whose removal failed; `QuitWithdraws` also needs that
no app offers beside the agent, whose gate the app does not know.
`SignaturesOwn` needs that every signature on a reply channel was made for that
channel's job (`SignedInv`), for any number of providers. `OfferFollowsCard`
needs no hypothesis on the faults, but `FollowInv`: a card heard is the one the
pairing's sighting names (`SeenOK`), and what an install under way is to offer is
of that card or the session has heard of none (`PlaceOK`).

*CardChip.* The lemmas of `CardChip_proofs` say what each command does to a card:
it stays a card with full counters for its verified PINs, one command spends one
try of one credential at most, and what the floor lets through has three tries or
more, or is a blocked PUK, which the card refuses without spending. `SoundChips` is the strengthening they carry; it is what
makes the status "verified", which shows no counter, safe to act on. For the
refinement of `CardTries`, `Promised` says of one command that its effect on the
counters is an abstract step of that card or none, given that the credential it
presents has three tries or more, or is blocked; a component then has only to show
that no step presents anything else, and that all its other steps leave the
counters alone.

*CardManager.* `TypeCorrect`, `CodesReachShownCard` and `SpendsOneTry` hold for
any number of tools with other programs' commands anywhere: `ToolInv` says that a
live connection is to the card the operation expects, that the settings
application expects the card shown, and that an operation under way has spent
nothing. `LastTriesKept`, `HolderPinKept` and `ToolsKeepTries` are for any number
of tools and other programs that take turns (`ExclusiveSpec`), since all three
rely on a status read by an earlier command: `ReadingsHold` carries that reading
up to the command that acts on it. `AloneKeeps` is the case of one tool without
other programs, where the restriction follows from the constants. With
`Interleaved` the floor is refuted (the table above).

*Pkcs11.* The four invariants rest on `ModuleInv`. `RejectedNeverHeld` is not inductive: a
signature that checked a PIN out gives it back, so the value it has must not be
rejected either while its checkout is current (`CheckoutsGood`). In the same way
`EndedLoginStaysEnded` needs that a current checkout comes from a live login
(`LoginLives`), and that before the cache is looked up there is nothing for the
end of a login to miss (`AttachedFirst`). `OwnCardOnly` needs that a checkout is
of the serial the call read, and the connection of that serial or dead
(`SoundThread`). `NoCircle` is the part of `NoCircularWait` that is about the
mutexes: from `LocksOK`, that MODULE is kept only by a call that waits for the
cache and the cache only by a login at the card, some call under way has every
mutex it wants.

`RejectedNotPresented` and `ModuleKeepsTries` are under `ExclusiveSpec`, for any
number of threads. They need `SpansClean` besides `ModuleInv`: a call between its
reading and its code has three tries or more on its card and a value the card has
not rejected. The mutexes alone do not give it. The cache is not held between a
signature's checkout and its VERIFY, so a login of another thread may have the
same value rejected there; and the tries are read before the cache is asked.

*Minidriver.* `PinsInv` joins the type invariant to what the calls rely on. A
context that takes PIN 2 for authenticated at its present handle has an unused
entry on the card that handle reaches (`EntryStands`); handles only grow, so a
context with an older one notices (`HandlesInOrder`). `CallsKeepFloor` and
`RejectedCostsOnce` are action properties, and `CallsKeepTries` is the refinement
of `CardTries`, call by call. No hypothesis excludes other programs: a call is one
transaction, whose commands the Base CSP's transaction keeps together.

*DocumentSigning.* `CardInv` follows the request to the card: the plan is built
around the session's certificate, and from the signature on around its signer's.
It gives `TypeCorrect`, `ShownCardSigns` and the action property `ShownCardPays`,
and, with the floor read in the step that presents PIN 2, `SigningKeepsTries`.
`LevelReached` needs `EvidenceInv`: every token kept has its path, its evidence
in `material` and no revoked answer (`TokensOK`); what is being asked and walked
fits the stage (`AskOK`, `WalkOK`): the path so far is valid but for its end, and
the part already answered for has its evidence; and each stage is entered only
when the one before is complete (`StagesOK`). Certificates, anchors, addresses
and answers are any.

Left to TLC. Liveness: `WithdrawalEndsSessions`, `WaitsAreBounded`,
`TakenIsAnswered`, `EndedIsWithdrawn` and `JobReturns`. `NoCircularWait`, which
uses `ENABLED`: beyond `NoCircle` it says that a call with its mutexes has a step
in every state of the card.

## Plan

Done: the custodian view, the requester session, the pairing store with the
lifecycle it implements, the agent with its pipe, the card manager, the PKCS #11
module, the card module, and document signing.

Left to model, in this order:

1. A timed module of the agent's waits before an answer, against
   `SIGNATURE_DEADLINE`.
2. BLE reach: which advertiser is tried and what its refusal does to the view;
   the link's segmentation.
3. The pairing ceremony: the search by code, the attempts, the grant.
4. Document validation (`doc-sign`'s reading side), against the levels
   `DocumentSigning` writes.
5. The key storage provider's handles and the card module's remote contexts.
6. Secure messaging as a component of its own: PACE and the counters.

Every invariant and every action property of the passing runs is stated by a
theorem, except `NoCircularWait` and the liveness properties. Left to prove: the
theorems of the modules still to be written.

## Not modelled

The map covers about a tenth of the repository's 119,000 lines of implementation.
Those lines include the tests inside the source files, and the larger part of the
rest has no state to model: byte formats and parsers (`x509.rs`, `identity.rs`,
`emrtd.rs`, `pades.rs`, `cms.rs`, `asic.rs`), cryptography, tables of status
words and texts, the two user interfaces, the installer and the diagnostics.
They are pure functions over bytes, or calls to Windows, and a model of them
would repeat the code without a property to ask.

Inside the modelled parts: records the codec refuses, DPAPI, the grace of a
sighting, two sessions of one process, and renames and card reads within a
session. Of the agent: the messages' encoding on the pipe, the label of the
calling program, the identity of a client beyond stranger or not, and the time a
deadline takes. Of the card manager: contactless priming and the wording of
reports. Of the PKCS #11 module: object searches, digests and verification,
slots of paired phones, and more than one reader, each of which has a cache of
its own. Of the card module: files and containers, remote cards, and the key
storage provider. Of document signing: the encodings, signatures a PDF already
has, the certificate saved beside the document, and validation.
