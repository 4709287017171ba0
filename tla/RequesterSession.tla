-------------------------- MODULE RequesterSession --------------------------
(* One requester process, one pairing, and the custodian (the phone) at the   *)
(* other end of one link: the session engine of                              *)
(* crates/refineid-rapp-core/src/engine.rs over the view of view.rs.          *)
(*                                                                            *)
(* The engine thread runs without a break between two waits on the link, so   *)
(* one action is one handler from the frame (or timeout) that wakes it to its *)
(* next wait; pc names the wait.  Two other actors interleave with it: the    *)
(* thread that quits (Withdrawal) and another process that forgets the        *)
(* pairing in the shared store.  Frames are sealed and in order, a link may   *)
(* fail at any time, and the custodian is modelled from how the engine and    *)
(* the mock custodian of refineid-rapp-cli use the shared runtime.            *)
EXTENDS CustodianView, Sequences

CONSTANTS
  MaxOps,           \* bound: operations begun in a behaviour
  MaxTime,          \* bound: ticks of the continuous clock
  MaxInFlight,      \* bound: frames the custodian has under way
  MaxRefusedWrites, \* bound: store writes that are refused
  MaxUserActs,      \* bound: dials and local closes
  AppCaller         \* TRUE: rapp-ffi's callers (stream transport); FALSE: the agent

ASSUME SessionAssumption ==
  /\ MaxOps \in Nat /\ MaxTime \in Nat /\ MaxInFlight \in Nat
  /\ MaxRefusedWrites \in Nat /\ MaxUserActs \in Nat /\ AppCaller \in BOOLEAN

VARIABLES
  pc,           \* where the engine thread waits
  op,           \* the live operation of the session, 0 for none
  nextOp,       \* the next operation identifier
  outcome,      \* how each operation ended
  card,         \* Session::card: the last card.status
  view,         \* the view of the custodian
  now,          \* the continuous clock
  pairing,      \* the stored pairing's state
  sighting,     \* whether a card sighting is stored for the pairing
  refused,      \* store writes refused so far
  acts,         \* dials and local closes so far
  toPhone, toPc, wire,                      \* the link
  phone, phonePaired, phoneOp, executed,    \* the custodian
  raised, openSessions, quit,               \* the Withdrawal and who raised it
  revokeHeard   \* history: a pairing_revoked close was received

engine  == <<pc, op, nextOp, outcome, card>>
store   == <<pairing, sighting, refused>>
link    == <<toPhone, toPc, wire>>
peer    == <<phone, phonePaired, phoneOp, executed>>
quitter == <<raised, quit>>
vars == <<engine, view, now, store, acts, link, peer, quitter, openSessions, revokeHeard>>

OpIds == 1..MaxOps

\* CloseReason; user_disconnect stands for every reason without an effect.
Reasons == {"pairing_revoked", "service_withdrawn", "card_unavailable",
            "protocol_violation", "user_disconnect"}

NoReason == "none"

Kinds == {"kk1", "kk2", "ready", "hello", "status", "request", "result",
          "close", "echo", "violating", "garbled"}

Frames == [kind : Kinds, reason : Reasons \cup {NoReason}, op : 0..MaxOps, good : BOOLEAN]

Plain(kind)       == [kind |-> kind, reason |-> NoReason, op |-> 0, good |-> TRUE]
Close(reason)     == [kind |-> "close", reason |-> reason, op |-> 0, good |-> TRUE]
Echo(reason)      == [kind |-> "echo", reason |-> reason, op |-> 0, good |-> TRUE]
Request(n)        == [kind |-> "request", reason |-> NoReason, op |-> n, good |-> TRUE]
Result(n, done)   == [kind |-> "result", reason |-> NoReason, op |-> n, good |-> done]
Status(present)   == [kind |-> "status", reason |-> NoReason, op |-> 0, good |-> present]

Waits == {"idle", "kk", "ready", "opening", "held", "closing", "violating",
          "early", "forgetting", "notice_kk", "notice", "gone"}

\* The engine waits with a Session whose end is None.
HealthyWaits == {"opening", "held", "closing", "violating", "forgetting"}
Healthy == pc \in HealthyWaits

EngineTypeOK ==
  /\ pc \in Waits
  /\ op \in 0..MaxOps /\ nextOp \in 1..(MaxOps + 1)
  /\ outcome \in [OpIds -> {"none", "completed", "declined", "lost"}]
  /\ card \in {"unknown", "absent", "present"}
  /\ openSessions \in 0..1

StoreTypeOK ==
  /\ pairing \in {"serving", "forgotten", "revoked"}
  /\ sighting \in BOOLEAN /\ refused \in 0..MaxRefusedWrites
  /\ revokeHeard \in BOOLEAN

LinkTypeOK == toPhone \in Seq(Frames) /\ toPc \in Seq(Frames) /\ wire \in {"up", "down"}

PeerTypeOK ==
  /\ phone \in {"listening", "shaken", "serving", "closing"}
  /\ phonePaired \in BOOLEAN
  /\ phoneOp \in 0..MaxOps /\ executed \in SUBSET OpIds

\* The view, the clock and the threads that call the engine.
CallerTypeOK ==
  /\ view \in Views /\ now \in 0..MaxTime /\ acts \in 0..MaxUserActs
  /\ raised \in BOOLEAN /\ quit \in {"running", "waiting", "returned", "timed_out"}

TypeOK == EngineTypeOK /\ StoreTypeOK /\ LinkTypeOK /\ PeerTypeOK /\ CallerTypeOK

Init ==
  /\ pc = "idle" /\ op = 0 /\ nextOp = 1
  /\ outcome = [n \in OpIds |-> "none"]
  /\ card = "unknown"
  /\ view = NewView /\ now = 0
  /\ pairing = "serving" /\ sighting = FALSE /\ refused = 0 /\ acts = 0
  /\ toPhone = <<>> /\ toPc = <<>> /\ wire = "down"
  /\ phone = "listening" /\ phonePaired = TRUE /\ phoneOp = 0 /\ executed = {}
  /\ raised = FALSE /\ openSessions = 0 /\ quit = "running"
  /\ revokeHeard = FALSE

-----------------------------------------------------------------------------
(* The link as the engine uses it.  A send over a failed link may still seem  *)
(* to succeed; nothing sent so arrives.                                       *)

up == wire = "up"

SendFails == ~up

Written(frames) == IF up THEN toPhone \o frames ELSE toPhone

Arrives(kind) == toPc # <<>> /\ Head(toPc).kind = kind

\* A wait that ends with nothing usable: its deadline passes, the link is down
\* and read out, or a frame does not open.
NothingUsable == toPc = <<>> \/ Arrives("garbled")

-----------------------------------------------------------------------------
(* The store as the engine uses it.  A write may be refused, which            *)
(* apply_peer_close, the revocation notice and the forget ignore or report.   *)

CanRefuse == refused < MaxRefusedWrites

\* revoke_pairing: the keys are destroyed, unless the write is refused.
RevokePairing ==
  \/ pairing' = "revoked" /\ refused' = refused
  \/ CanRefuse /\ pairing' = pairing /\ refused' = refused + 1

\* Mutant: card_unavailable is taken for a close without an effect.
ApplyPeerCloseKeepsCard(reason) ==
  /\ IF reason = "pairing_revoked" THEN RevokePairing ELSE UNCHANGED <<pairing, refused>>
  /\ sighting' = (sighting /\ reason # "service_withdrawn")

ApplyPeerClose(reason) ==
  /\ IF reason = "pairing_revoked" THEN RevokePairing ELSE UNCHANGED <<pairing, refused>>
  /\ sighting' = (sighting /\ reason \notin {"service_withdrawn", "card_unavailable"})

\* History: the close this endpoint received.
Heard(reason) == revokeHeard' = (revokeHeard \/ reason = "pairing_revoked")

NoPeerClose == UNCHANGED <<store, revokeHeard>>

-----------------------------------------------------------------------------
(* How a session ends.                                                        *)

\* SessionEnd::treatment of a received close; RequesterSessionEnd is external.
CloseTreatment(reason) ==
  CASE reason = "pairing_revoked" -> "revoked"
    [] reason \in {"service_withdrawn", "card_unavailable"} -> "withdrawn"
    [] reason = "protocol_violation" -> "violation"
    [] OTHER -> "loss"

\* The engine thread is back with its caller, which drops the transport.
BackToCaller == pc' = "idle" /\ wire' = "down" /\ toPc' = <<>>

\* Mutant: the place of an ended session is kept.
KeepPlace == openSessions' = openSessions

\* Drop for OpenSession.
GiveBackPlace == openSessions' = SatSub(openSessions, 1)

\* Session::finish: the operation under way is over with the session, the
\* open place is given back and the view told.
Finish(endedView) ==
  /\ BackToCaller
  /\ op' = 0 /\ card' = "unknown"
  /\ outcome' = IF op = 0 THEN outcome ELSE [outcome EXCEPT ![op] = "lost"]
  /\ GiveBackPlace
  /\ view' = endedView
  /\ UNCHANGED nextOp

\* Mutant: the view is not told of a close made here.
FinishLocalUntold == Finish(view)

FinishLocal == Finish(SessionClosedHere(view))

FinishLoss == Finish(SessionEnded(view, "loss", now))

FinishViolation == Finish(SessionEnded(view, "violation", now))

FinishPeer(reason) == Finish(SessionEnded(view, CloseTreatment(reason), now))

\* Mutant: a crossing close is taken for the echo.
TakeCrossingForEcho(reason) == UNCHANGED store /\ FinishLocal

\* A close that crossed this endpoint's own is acted on as one received.
ActOnCrossing(reason) == ApplyPeerClose(reason) /\ FinishPeer(reason)

\* A dial that ends before session.ready with the view told.
DialEnds(endedView) ==
  /\ BackToCaller
  /\ view' = endedView
  /\ UNCHANGED <<op, nextOp, outcome, card, openSessions>>

-----------------------------------------------------------------------------
(* Dialling: dialled_session (stream) or reach (BLE), then open_session up to *)
(* its first wait.                                                            *)

\* One look at discovery; only the stream transport publishes withdrawn records.
Looked(seen, withdrawnRecord) ==
  LET looked == Look(view, seen)
  IN  IF withdrawnRecord /\ ~Appeared(view, seen)
      THEN WithdrawnRecordMatched(looked) ELSE looked

CanAct == pc = "idle" /\ acts < MaxUserActs

\* The look admits no dial.  rapp-ffi's watch drops the sighting of a withdrawn
\* custodian; its card read, a consumer, leaves it.
DialNotAdmitted(seen, withdrawnRecord, consumer) ==
  /\ CanAct /\ acts' = acts + 1
  /\ withdrawnRecord => AppCaller
  /\ LET looked == Looked(seen, withdrawnRecord)
     IN  /\ ~DialAdmitted(looked, now, consumer)
         /\ view' = AfterDialAdmitted(looked, now, consumer)
         /\ sighting' = (sighting /\ ~(AppCaller /\ ~consumer /\ looked.state = "withdrawn"))
  /\ UNCHANGED <<engine, now, pairing, refused, link, peer, quitter, openSessions, revokeHeard>>

\* No service accepts the connection.
DialUnreachable(seen, consumer) ==
  /\ CanAct /\ acts' = acts + 1
  /\ LET looked == Looked(seen, FALSE)
     IN  /\ DialAdmitted(looked, now, consumer)
         /\ view' = DialFailed(AfterDialAdmitted(looked, now, consumer), now)
  /\ UNCHANGED <<engine, now, store, link, peer, quitter, openSessions, revokeHeard>>

\* A link opens to the custodian: open_session refuses after the withdrawal or
\* for a pairing that does not serve, and otherwise sends the first handshake
\* message.
Dial(seen, consumer) ==
  /\ CanAct /\ acts' = acts + 1
  /\ phone = "listening" /\ toPhone = <<>>
  /\ LET looked == Looked(seen, FALSE)
     IN  /\ DialAdmitted(looked, now, consumer)
         /\ view' = AfterDialAdmitted(looked, now, consumer)
  /\ IF raised \/ pairing # "serving"
     THEN UNCHANGED <<pc, link>>
     ELSE pc' = "kk" /\ wire' = "up" /\ toPhone' = <<Plain("kk1")>> /\ toPc' = <<>>
  /\ UNCHANGED <<op, nextOp, outcome, card, now, store, peer, quitter, openSessions, revokeHeard>>

\* authenticate: the second handshake message, or a dial that failed.
ReceiveKK ==
  /\ pc = "kk" /\ acts' = acts
  /\ \/ /\ Arrives("kk2")
        /\ pc' = "ready" /\ toPc' = Tail(toPc)
        /\ UNCHANGED <<op, nextOp, outcome, card, view, wire, openSessions>>
     \/ NothingUsable /\ DialEnds(DialFailed(view, now))
  /\ NoPeerClose
  /\ UNCHANGED <<now, toPhone, peer, quitter>>

\* session.ready verified: the hello goes out, the session is counted open and
\* its time is recorded in the store before the withdrawal is looked at again.
ReceiveReady ==
  /\ pc = "ready" /\ Arrives("ready")
  /\ \/ /\ pc' = "opening" /\ toPc' = Tail(toPc) /\ toPhone' = Written(<<Plain("hello")>>)
        /\ view' = SessionOpened(view) /\ openSessions' = openSessions + 1
        /\ UNCHANGED <<op, nextOp, outcome, card, wire>>
     \/ /\ SendFails
        /\ DialEnds(SessionEnded(view, "loss", now))
        /\ UNCHANGED toPhone
  /\ NoPeerClose
  /\ UNCHANGED <<now, acts, peer, quitter>>

\* The custodian closed in place of session.ready; it is echoed and acted on.
ReceiveCloseForReady ==
  /\ pc = "ready" /\ Arrives("close")
  /\ LET reason == Head(toPc).reason
     IN  /\ toPhone' = Written(<<Echo(reason)>>)
         /\ Heard(reason) /\ ApplyPeerClose(reason)
         /\ DialEnds(SessionEnded(view, CloseTreatment(reason), now))
  /\ UNCHANGED <<now, acts, peer, quitter>>

\* The custodian's first message violates the protocol (close_before_ready).
ReceiveViolationForReady ==
  /\ pc = "ready" /\ toPc # <<>>
  /\ Head(toPc).kind \notin {"ready", "close", "garbled"}
  /\ \/ /\ pc' = "early" /\ toPc' = Tail(toPc)
        /\ toPhone' = Written(<<Close("protocol_violation")>>)
        /\ UNCHANGED <<op, nextOp, outcome, card, view, wire, openSessions>>
     \/ /\ SendFails
        /\ DialEnds(SessionEnded(view, "violation", now))
        /\ UNCHANGED toPhone
  /\ NoPeerClose
  /\ UNCHANGED <<now, acts, peer, quitter>>

\* No first message within the silence limit, or one that fails to open.
ReadyFails ==
  /\ pc = "ready" /\ NothingUsable
  /\ DialEnds(DialFailed(view, now))
  /\ NoPeerClose
  /\ UNCHANGED <<now, acts, toPhone, peer, quitter>>

\* A frame that is neither the echo nor a close is ignored while closing.
Ignored == toPc # <<>> /\ Head(toPc).kind \notin {"echo", "close", "garbled"}

IgnoreWhileClosing ==
  /\ pc \in {"closing", "violating", "forgetting", "early", "notice"}
  /\ Ignored /\ toPc' = Tail(toPc)
  /\ UNCHANGED <<engine, view, now, store, acts, toPhone, wire, peer, quitter, openSessions, revokeHeard>>

\* A close that crossed this endpoint's own ends the wait as the peer's close.
\* Without one the wait ends with the echo, a failed link, a frame that does not
\* open, or at CLOSE_ECHO_WAIT, with anything still unread: at any time.
Crossing == Arrives("close")

EndEarlyViolation ==
  /\ pc = "early"
  /\ \/ /\ Crossing /\ Heard(Head(toPc).reason) /\ ApplyPeerClose(Head(toPc).reason)
        /\ DialEnds(SessionEnded(view, CloseTreatment(Head(toPc).reason), now))
     \/ NoPeerClose /\ DialEnds(SessionEnded(view, "violation", now))
  /\ UNCHANGED <<now, acts, toPhone, peer, quitter>>

-----------------------------------------------------------------------------
(* A healthy session.                                                         *)

\* disconnect: the close is written and its echo awaited, or the session ends.
Disconnect(reason) ==
  \/ /\ pc' = "closing" /\ toPhone' = Written(<<Close(reason)>>)
     /\ UNCHANGED <<op, nextOp, outcome, card, view, toPc, wire, openSessions>>
  \/ SendFails /\ FinishLocal /\ UNCHANGED toPhone

\* The rest of open_session: a withdrawal raised meanwhile closes the session.
OpeningDone ==
  /\ pc = "opening"
  /\ IF raised THEN Disconnect("service_withdrawn")
     ELSE pc' = "held" /\ UNCHANGED <<op, nextOp, outcome, card, view, link, openSessions>>
  /\ NoPeerClose
  /\ UNCHANGED <<now, acts, peer, quitter>>

\* Mutant: an idle session is not closed.
CloseOperationIfWithdrawn ==
  /\ pc = "held" /\ raised /\ op # 0
  /\ Disconnect("service_withdrawn")
  /\ NoPeerClose
  /\ UNCHANGED <<now, acts, peer, quitter>>

\* close_if_withdrawn, first in every receive and every operation.
CloseIfWithdrawn ==
  /\ pc = "held" /\ raised
  /\ Disconnect("service_withdrawn")
  /\ NoPeerClose
  /\ UNCHANGED <<now, acts, peer, quitter>>

\* The caller closes deliberately.
CallerDisconnects ==
  /\ pc = "held" /\ op = 0 /\ acts < MaxUserActs /\ acts' = acts + 1
  /\ Disconnect("user_disconnect")
  /\ NoPeerClose
  /\ UNCHANGED <<now, peer, quitter>>

\* rapp-ffi returns an operation's failure, or ends its watch, and drops the
\* Session with it: the place is given back and the transport closed, no close
\* is written and the view is not told.
CallerDropsSession ==
  /\ AppCaller /\ pc = "held" /\ op = 0 /\ acts < MaxUserActs /\ acts' = acts + 1
  /\ BackToCaller /\ card' = "unknown"
  /\ GiveBackPlace
  /\ NoPeerClose
  /\ UNCHANGED <<op, nextOp, outcome, view, now, toPhone, peer, quitter>>

\* close_if_forgotten: the store says the pairing no longer serves.  A forgotten
\* one gets the pairing_revoked close; one already revoked is just closed.
CloseIfForgotten ==
  /\ pc = "held" /\ op = 0
  /\ \/ /\ pairing = "forgotten"
        /\ \/ /\ pc' = "forgetting" /\ toPhone' = Written(<<Close("pairing_revoked")>>)
              /\ UNCHANGED <<op, nextOp, outcome, card, view, toPc, wire, openSessions>>
           \/ SendFails /\ Finish(PairingLeft(view)) /\ UNCHANGED toPhone
     \/ pairing = "revoked" /\ Disconnect("user_disconnect")
  /\ NoPeerClose
  /\ UNCHANGED <<now, acts, peer, quitter>>

\* run_operation: the request is sent and its outcome awaited.
Execute ==
  /\ pc = "held" /\ ~raised /\ op = 0 /\ nextOp <= MaxOps
  /\ nextOp' = nextOp + 1
  /\ \/ /\ op' = nextOp /\ toPhone' = Written(<<Request(nextOp)>>)
        /\ UNCHANGED <<pc, outcome, card, view, toPc, wire, openSessions>>
     \/ /\ SendFails
        /\ BackToCaller /\ op' = 0 /\ card' = "unknown"
        /\ outcome' = [outcome EXCEPT ![nextOp] = "lost"]
        /\ GiveBackPlace
        /\ view' = SessionEnded(view, "loss", now)
        /\ UNCHANGED toPhone
  /\ NoPeerClose
  /\ UNCHANGED <<now, acts, peer, quitter>>

HeldReceives(kind) == pc = "held" /\ ~raised /\ Arrives(kind)

\* card.status; a card heard present is recorded as a sighting at once.
ReceiveStatus ==
  /\ HeldReceives("status")
  /\ card' = IF Head(toPc).good THEN "present" ELSE "absent"
  /\ sighting' = (sighting \/ Head(toPc).good)
  /\ toPc' = Tail(toPc)
  /\ UNCHANGED <<pc, op, nextOp, outcome, view, now, pairing, refused, acts, toPhone, wire,
                 peer, quitter, openSessions, revokeHeard>>

\* Mutant: an ended operation is taken for a completed one.
EndedIsCompleted(frame) == "completed"

\* OperationOutcome of the frame that ends the operation.
OutcomeOf(frame) == IF frame.good THEN "completed" ELSE "declined"

\* operation.result or error for the live operation; another is passed over.
ReceiveResult ==
  /\ HeldReceives("result")
  /\ IF Head(toPc).op = op /\ op # 0
     THEN /\ op' = 0
          /\ outcome' = [outcome EXCEPT ![op] = OutcomeOf(Head(toPc))]
     ELSE UNCHANGED <<op, outcome>>
  /\ toPc' = Tail(toPc)
  /\ UNCHANGED <<pc, nextOp, card, view, now, store, acts, toPhone, wire,
                 peer, quitter, openSessions, revokeHeard>>

ReceivePeerClose ==
  /\ HeldReceives("close")
  /\ LET reason == Head(toPc).reason
     IN  /\ toPhone' = Written(<<Echo(reason)>>)
         /\ Heard(reason) /\ ApplyPeerClose(reason)
         /\ FinishPeer(reason)
  /\ UNCHANGED <<now, acts, peer, quitter>>

\* A frame that violates the protocol (close_for_violation).
ReceiveViolation ==
  /\ pc = "held" /\ ~raised /\ toPc # <<>>
  /\ Head(toPc).kind \notin {"status", "result", "close", "garbled"}
  /\ \/ /\ pc' = "violating" /\ toPc' = Tail(toPc)
        /\ toPhone' = Written(<<Close("protocol_violation")>>)
        /\ UNCHANGED <<op, nextOp, outcome, card, view, wire, openSessions>>
     \/ SendFails /\ FinishViolation /\ UNCHANGED toPhone
  /\ NoPeerClose
  /\ UNCHANGED <<now, acts, peer, quitter>>

\* A transport error, a frame that does not open, or 30 seconds of silence.
SessionLost ==
  /\ pc = "held" /\ ~raised
  /\ NothingUsable
  /\ FinishLoss
  /\ NoPeerClose
  /\ UNCHANGED <<now, acts, toPhone, peer, quitter>>

\* Mutant: the wait for the echo has no bound.
EndClosingOnAnswer ==
  /\ pc = "closing"
  /\ \/ Crossing /\ Heard(Head(toPc).reason) /\ ActOnCrossing(Head(toPc).reason)
     \/ Arrives("echo") /\ NoPeerClose /\ FinishLocal
  /\ UNCHANGED <<now, acts, toPhone, peer, quitter>>

EndClosing ==
  /\ pc = "closing"
  /\ \/ Crossing /\ Heard(Head(toPc).reason) /\ ActOnCrossing(Head(toPc).reason)
     \/ NoPeerClose /\ FinishLocal
  /\ UNCHANGED <<now, acts, toPhone, peer, quitter>>

EndViolating ==
  /\ pc = "violating"
  /\ \/ Crossing /\ Heard(Head(toPc).reason) /\ ActOnCrossing(Head(toPc).reason)
     \/ NoPeerClose /\ FinishViolation
  /\ UNCHANGED <<now, acts, toPhone, peer, quitter>>

\* forget_pairing_in_session after its wait, whatever ended it.
EndForgetting ==
  /\ pc = "forgetting"
  /\ Finish(PairingLeft(view))
  /\ RevokePairing
  /\ UNCHANGED <<now, sighting, acts, toPhone, peer, quitter, revokeHeard>>

-----------------------------------------------------------------------------
(* Forgetting without a session and the one bounded attempt to tell it.       *)

\* Another process forgets the pairing in the shared store.
UserForgets ==
  /\ pairing = "serving" /\ pc # "gone"
  /\ pairing' = "forgotten"
  /\ UNCHANGED <<engine, view, now, sighting, refused, acts, link, peer, quitter, openSessions, revokeHeard>>

\* The attempt's bound passed: the keys go untold (expire_revocation_notices).
NoticeExpires ==
  /\ pairing = "forgotten" /\ pc # "gone"
  /\ pairing' = "revoked"
  /\ UNCHANGED <<engine, view, now, sighting, refused, acts, link, peer, quitter, openSessions, revokeHeard>>

\* revocation_notice, dialled past the view.
DialNotice ==
  /\ CanAct /\ acts' = acts + 1
  /\ pairing = "forgotten" /\ ~raised
  /\ phone = "listening" /\ toPhone = <<>>
  /\ pc' = "notice_kk" /\ wire' = "up" /\ toPhone' = <<Plain("kk1")>> /\ toPc' = <<>>
  /\ UNCHANGED <<op, nextOp, outcome, card, view, now, store, peer, quitter, openSessions, revokeHeard>>

SendNotice ==
  /\ pc = "notice_kk"
  /\ \/ /\ Arrives("kk2")
        /\ \/ /\ pc' = "notice" /\ toPc' = Tail(toPc) /\ wire' = wire
              /\ toPhone' = Written(<<Close("pairing_revoked")>>)
           \/ SendFails /\ BackToCaller /\ UNCHANGED toPhone
     \/ NothingUsable /\ BackToCaller /\ UNCHANGED toPhone
  /\ UNCHANGED <<op, nextOp, outcome, card, view, now, store, acts, peer, quitter, openSessions, revokeHeard>>

EndNotice ==
  /\ pc = "notice"
  /\ BackToCaller /\ RevokePairing
  /\ UNCHANGED <<op, nextOp, outcome, card, view, now, sighting, acts, toPhone, peer, quitter,
                 openSessions, revokeHeard>>

-----------------------------------------------------------------------------
(* The thread that quits: raise_and_wait, then the process exits.             *)

QuitRaises ==
  /\ ~AppCaller /\ quit = "running" /\ quit' = "waiting" /\ raised' = TRUE
  /\ UNCHANGED <<engine, view, now, store, acts, link, peer, openSessions, revokeHeard>>

QuitReturns ==
  /\ quit = "waiting"
  /\ quit' = IF openSessions = 0 THEN "returned" ELSE "timed_out"
  /\ UNCHANGED <<engine, view, now, store, acts, link, peer, raised, openSessions, revokeHeard>>

Exit ==
  /\ quit \in {"returned", "timed_out"} /\ pc # "gone"
  /\ pc' = "gone" /\ wire' = "down" /\ toPc' = <<>>
  /\ UNCHANGED <<op, nextOp, outcome, card, view, now, store, acts, toPhone, peer, quitter,
                 openSessions, revokeHeard>>

-----------------------------------------------------------------------------
(* The custodian, the link and the clock.                                     *)

PhoneSends(frame) ==
  toPc' = IF up THEN Append(toPc, frame) ELSE toPc

PhoneMaySend == Len(toPc) < MaxInFlight

PhoneReads(kind) == toPhone # <<>> /\ Head(toPhone).kind = kind /\ toPhone' = Tail(toPhone)

NotTheEngine == UNCHANGED <<engine, view, now, store, acts, quitter, openSessions, revokeHeard>>

\* The handshake; a custodian without the pairing drops the connection.
PhoneShakes ==
  /\ phone = "listening" /\ PhoneReads("kk1")
  /\ IF phonePaired
     THEN phone' = "shaken" /\ PhoneSends(Plain("kk2")) /\ wire' = wire
     ELSE phone' = phone /\ wire' = "down" /\ UNCHANGED toPc
  /\ UNCHANGED <<phonePaired, phoneOp, executed>> /\ NotTheEngine

PhoneReady ==
  /\ phone = "shaken" /\ phone' = "serving"
  /\ PhoneSends(Plain("ready"))
  /\ UNCHANGED <<toPhone, wire, phonePaired, phoneOp, executed>> /\ NotTheEngine

\* The custodian's own close, in place of session.ready or later.
PhoneCloses(reason) ==
  /\ phone \in {"shaken", "serving"} /\ PhoneMaySend
  /\ phone' = "closing"
  /\ PhoneSends(Close(reason))
  /\ phonePaired' = (phonePaired /\ reason # "pairing_revoked")
  /\ phoneOp' = 0
  /\ UNCHANGED <<toPhone, wire, executed>> /\ NotTheEngine

\* A frame that violates the protocol or fails to open at the engine.
PhoneMisbehaves(kind) ==
  /\ phone \in {"shaken", "serving"} /\ PhoneMaySend
  /\ PhoneSends(Plain(kind))
  /\ UNCHANGED <<toPhone, wire, peer>> /\ NotTheEngine

PhoneReports(present) ==
  /\ phone = "serving" /\ PhoneMaySend
  /\ PhoneSends(Status(present))
  /\ UNCHANGED <<toPhone, wire, peer>> /\ NotTheEngine

PhoneAdmits ==
  /\ phone = "serving" /\ phoneOp = 0 /\ PhoneReads("request")
  /\ phoneOp' = Head(toPhone).op
  /\ UNCHANGED <<toPc, wire, phone, phonePaired, executed>> /\ NotTheEngine

PhoneFinishes(done) ==
  /\ phone = "serving" /\ phoneOp # 0 /\ PhoneMaySend
  /\ executed' = IF done THEN executed \cup {phoneOp} ELSE executed
  /\ PhoneSends(Result(phoneOp, done))
  /\ phoneOp' = 0
  /\ UNCHANGED <<toPhone, wire, phone, phonePaired>> /\ NotTheEngine

\* A received close is echoed, unless the custodian's own close crossed it.
PhoneReadsClose ==
  /\ phone # "listening" /\ PhoneReads("close")
  /\ IF phone = "closing" THEN UNCHANGED toPc ELSE PhoneSends(Echo(Head(toPhone).reason))
  /\ phonePaired' = (phonePaired /\ Head(toPhone).reason # "pairing_revoked")
  /\ phone' = "listening" /\ phoneOp' = 0 /\ wire' = "down"
  /\ UNCHANGED executed /\ NotTheEngine

PhoneReadsEcho ==
  /\ phone = "closing" /\ PhoneReads("echo")
  /\ phone' = "listening" /\ wire' = "down"
  /\ UNCHANGED <<toPc, phonePaired, phoneOp, executed>> /\ NotTheEngine

\* Frames that need no answer, or that the custodian is past answering.
PhonePasses ==
  /\ \/ phone # "listening" /\ PhoneReads("hello")
     \/ phone = "closing" /\ PhoneReads("request")
     \/ phone = "listening" /\ \E kind \in Kinds \ {"kk1"} : PhoneReads(kind)
     \/ phone \in {"shaken", "serving"} /\ PhoneReads("echo")
  /\ UNCHANGED <<toPc, wire, peer>> /\ NotTheEngine

\* The link is down and read out: the custodian's session is lost.
PhoneLosesLink ==
  /\ phone # "listening" /\ ~up /\ toPhone = <<>>
  /\ phone' = "listening" /\ phoneOp' = 0
  /\ UNCHANGED <<link, phonePaired, executed>> /\ NotTheEngine

\* The link fails; what was under way in each direction arrives or is lost.
LinkFails ==
  /\ up /\ wire' = "down"
  /\ toPc' \in {toPc, <<>>} /\ toPhone' \in {toPhone, <<>>}
  /\ UNCHANGED peer /\ NotTheEngine

Tick ==
  /\ now < MaxTime /\ now' = now + 1 /\ pc # "gone"
  /\ UNCHANGED <<engine, view, store, acts, link, peer, quitter, openSessions, revokeHeard>>

-----------------------------------------------------------------------------
\* Each leaves one of the engine's bounded waits, or a withdrawn session.
WaitEnds ==
  \/ ReceiveKK \/ ReceiveReady \/ ReceiveCloseForReady \/ ReceiveViolationForReady
  \/ ReadyFails \/ EndEarlyViolation \/ OpeningDone \/ CloseIfWithdrawn
  \/ EndClosing \/ EndViolating \/ EndForgetting \/ SendNotice \/ EndNotice

\* What happens while a session is held or a wait goes on.
SessionSteps ==
  \/ ReceiveStatus \/ ReceiveResult \/ ReceivePeerClose \/ ReceiveViolation
  \/ SessionLost \/ CloseIfForgotten \/ IgnoreWhileClosing

CallerSteps ==
  \/ \E seen \in SUBSET Sights, consumer \in BOOLEAN :
       \/ \E withdrawnRecord \in BOOLEAN : DialNotAdmitted(seen, withdrawnRecord, consumer)
       \/ DialUnreachable(seen, consumer)
       \/ Dial(seen, consumer)
  \/ DialNotice \/ Execute \/ CallerDisconnects \/ CallerDropsSession

PhoneSteps ==
  \/ PhoneShakes \/ PhoneReady
  \/ \E reason \in Reasons : PhoneCloses(reason)
  \/ \E kind \in {"violating", "garbled"} : PhoneMisbehaves(kind)
  \/ \E present \in BOOLEAN : PhoneReports(present)
  \/ PhoneAdmits \/ \E done \in BOOLEAN : PhoneFinishes(done)
  \/ PhoneReadsClose \/ PhoneReadsEcho \/ PhonePasses \/ PhoneLosesLink

Next ==
  \/ WaitEnds \/ SessionSteps \/ CallerSteps \/ PhoneSteps
  \/ UserForgets \/ NoticeExpires
  \/ QuitRaises \/ QuitReturns \/ Exit
  \/ LinkFails \/ Tick

Spec == Init /\ [][Next]_vars

\* The engine thread keeps being scheduled and each of its waits has a deadline
\* on the continuous clock; nothing is assumed of the custodian, the link or
\* the caller.
FairSpec == Spec /\ WF_vars(WaitEnds)

-----------------------------------------------------------------------------
\* The certificate a stored sighting lets a consumer offer (offered_certificate).
Offered == pairing = "serving" /\ sighting

-----------------------------------------------------------------------------
(* Safety *)

\* The process-wide view says "connected" exactly while a session of this
\* process is healthy: every path that opens or ends one, crossing closes, lost
\* links and the forget included, tells the view (Session::finish, open_session).
ViewFollowsSession == pc # "gone" => (view.state = "connected" <=> Healthy)

\* The Withdrawal counts exactly the healthy sessions, so a quit waits for each
\* and for nothing else (Withdrawal::session_opened, Drop for OpenSession).
OpenCountExact == pc # "gone" => openSessions = IF Healthy THEN 1 ELSE 0

\* A pairing_revoked close this endpoint received, in place of session.ready, in
\* the session or crossing its own close, leaves the pairing revoked
\* (apply_peer_close).
RevocationHeeded == revokeHeard => pairing = "revoked"

\* Once the custodian withdrew or said its card is unavailable nothing is
\* offered on its card until it announces itself again (apply_peer_close,
\* ViewState::Withdrawn).
WithdrawnOffersNothing == view.state = "withdrawn" => ~Offered

\* An operation is reported completed only when the custodian's card performed
\* that very operation, whatever results were under way when it was begun.
CompletedWasPerformed == \A n \in OpIds : outcome[n] = "completed" => n \in executed

\* When a quit returned because no session is open, the process that exits leaves
\* no session without its service_withdrawn close (raise_and_wait).
QuitLeavesNoSession ==
  [][pc' = "gone" /\ pc # "gone" /\ quit = "returned" => ~Healthy]_vars

-----------------------------------------------------------------------------
(* What a step may never do *)

\* A withdrawn view is left only when something new is in sight or the pairing
\* ends; no consumer, redial window or timeout lifts it (dial_admitted,
\* dial_failed).
WithdrawnUntilAppearance ==
  [][view.state = "withdrawn" /\ view'.state # "withdrawn"
       => Appeared(view, view'.inSight) \/ view' = NewView]_vars

-----------------------------------------------------------------------------
(* Liveness *)

\* Once the withdrawal is raised the engine ends its session and opens no
\* other: every wait for an echo is bounded (close_if_withdrawn, disconnect).
WithdrawalEndsSessions == raised ~> [](pc = "gone" \/ ~Healthy)

\* No wait of the engine outlasts its bound: the engine is always back with its
\* caller or holding a session again.
WaitsAreBounded ==
  pc \in {"kk", "ready", "opening", "early", "closing", "violating", "forgetting",
          "notice_kk", "notice"} ~> pc \in {"idle", "held", "gone"}
=============================================================================
