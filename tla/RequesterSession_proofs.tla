---------------------- MODULE RequesterSession_proofs ----------------------
(* Proofs about RequesterSession for every value of its constants: the type  *)
(* invariant with the count of open sessions, and from them what the view,   *)
(* the offer and the pairing promise.                                        *)
EXTENDS RequesterSession, TLAPS

-----------------------------------------------------------------------------
(* What the operations of the view return.                                   *)

\* Every operation of view.rs leaves a well-formed view.
LEMMA ViewOpsTyped ==
  ASSUME NEW v \in Views, NEW t \in Nat
  PROVE  /\ NewView \in Views
         /\ \A seen \in SUBSET Sights : Look(v, seen) \in Views
         /\ WithdrawnRecordMatched(v) \in Views
         /\ \A c \in BOOLEAN : AfterDialAdmitted(v, t, c) \in Views
         /\ DialFailed(v, t) \in Views
         /\ SessionOpened(v) \in Views
         /\ SessionClosedHere(v) \in Views
         /\ \A e \in Treatments : SessionEnded(v, e, t) \in Views
         /\ PairingLeft(v) \in Views
<1> USE DEF Views, ViewStates, NoWindow, InState, NewView
<1>1. NewView \in Views
  OBVIOUS
<1>2. \A s \in ViewStates, o \in Nat \cup {NoWindow} : InState(v, s, o) \in Views
  OBVIOUS
<1>3. ASSUME NEW seen \in SUBSET Sights PROVE Look(v, seen) \in Views
  BY DEF Look
<1>4. WithdrawnRecordMatched(v) \in Views
  BY DEF WithdrawnRecordMatched
<1>5. ASSUME NEW c \in BOOLEAN PROVE AfterDialAdmitted(v, t, c) \in Views
  BY DEF AfterDialAdmitted
<1>6. DialFailed(v, t) \in Views
  BY DEF DialFailed
<1>7. SessionOpened(v) \in Views /\ SessionClosedHere(v) \in Views
  BY DEF SessionOpened, SessionClosedHere
<1>8. ASSUME NEW e \in Treatments PROVE SessionEnded(v, e, t) \in Views
  BY DEF SessionEnded, Treatments
<1>9. PairingLeft(v) \in Views
  BY DEF PairingLeft
<1> QED
  BY <1>1, <1>3, <1>4, <1>5, <1>6, <1>7, <1>8, <1>9

\* Discovery, admission and failed dials never make a view connected, nor take
\* one out of connected.
LEMMA DialsKeepConnected ==
  ASSUME NEW v \in Views, NEW t \in Nat
  PROVE  /\ \A seen \in SUBSET Sights :
              Look(v, seen).state = "connected" <=> v.state = "connected"
         /\ WithdrawnRecordMatched(v).state = "connected" <=> v.state = "connected"
         /\ \A c \in BOOLEAN :
              AfterDialAdmitted(v, t, c).state = "connected" <=> v.state = "connected"
         /\ DialFailed(v, t).state = "connected" <=> v.state = "connected"
<1> USE DEF Views, ViewStates, NoWindow, InState
<1>1. ASSUME NEW seen \in SUBSET Sights
      PROVE  Look(v, seen).state = "connected" <=> v.state = "connected"
  BY DEF Look
<1>2. WithdrawnRecordMatched(v).state = "connected" <=> v.state = "connected"
  BY DEF WithdrawnRecordMatched
<1>3. ASSUME NEW c \in BOOLEAN
      PROVE  AfterDialAdmitted(v, t, c).state = "connected" <=> v.state = "connected"
  BY DEF AfterDialAdmitted, DialDue
<1>4. DialFailed(v, t).state = "connected" <=> v.state = "connected"
  BY DEF DialFailed
<1> QED
  BY <1>1, <1>2, <1>3, <1>4

\* A received close is treated in one of the four ways the view knows.
LEMMA CloseTreatmentTyped ==
  ASSUME NEW reason
  PROVE  CloseTreatment(reason) \in Treatments
  BY DEF CloseTreatment, Treatments

-----------------------------------------------------------------------------
(* What crosses the link.                                                    *)

\* Every frame either end builds is a frame.
LEMMA FramesTyped ==
  /\ \A kind \in Kinds : Plain(kind) \in Frames
  /\ \A reason \in Reasons \cup {NoReason} : Close(reason) \in Frames /\ Echo(reason) \in Frames
  /\ \A n \in 0..MaxOps : Request(n) \in Frames
  /\ \A n \in 0..MaxOps, done \in BOOLEAN : Result(n, done) \in Frames
  /\ \A present \in BOOLEAN : Status(present) \in Frames
<1>1. ASSUME NEW k \in Kinds, NEW r \in Reasons \cup {NoReason}, NEW n \in 0..MaxOps, NEW g \in BOOLEAN
      PROVE  [kind |-> k, reason |-> r, op |-> n, good |-> g] \in Frames
  BY DEF Frames
<1>2. 0 \in 0..MaxOps /\ TRUE \in BOOLEAN
  BY SessionAssumption
<1>3. {"close", "echo", "request", "result", "status"} \subseteq Kinds
  BY DEF Kinds
<1>4. ASSUME NEW k \in Kinds PROVE Plain(k) \in Frames
  BY <1>1, <1>2 DEF Plain
<1>5. ASSUME NEW r \in Reasons \cup {NoReason} PROVE Close(r) \in Frames /\ Echo(r) \in Frames
  BY <1>1, <1>2, <1>3 DEF Close, Echo
<1>6. ASSUME NEW n \in 0..MaxOps PROVE Request(n) \in Frames
  BY <1>1, <1>2, <1>3 DEF Request
<1>7. ASSUME NEW n \in 0..MaxOps, NEW done \in BOOLEAN PROVE Result(n, done) \in Frames
  BY <1>1, <1>2, <1>3 DEF Result
<1>8. ASSUME NEW present \in BOOLEAN PROVE Status(present) \in Frames
  BY <1>1, <1>2, <1>3 DEF Status
<1> QED
  BY <1>4, <1>5, <1>6, <1>7, <1>8

\* What a step reads from the link and writes to it stays frames.
LEMMA LinkTyped ==
  ASSUME toPhone \in Seq(Frames), toPc \in Seq(Frames), phoneOp \in 0..MaxOps, nextOp \in Nat
  PROVE  /\ toPc # <<>> => /\ Head(toPc) \in Frames /\ Tail(toPc) \in Seq(Frames)
                           /\ Head(toPc).reason \in Reasons \cup {NoReason}
                           /\ Head(toPc).op \in 0..MaxOps /\ Head(toPc).good \in BOOLEAN
                           /\ Written(<<Echo(Head(toPc).reason)>>) \in Seq(Frames)
         /\ toPhone # <<>> => /\ Tail(toPhone) \in Seq(Frames)
                              /\ Head(toPhone).op \in 0..MaxOps
                              /\ Append(toPc, Echo(Head(toPhone).reason)) \in Seq(Frames)
         /\ \A kind \in Kinds : /\ Written(<<Plain(kind)>>) \in Seq(Frames)
                                /\ <<Plain(kind)>> \in Seq(Frames)
                                /\ Append(toPc, Plain(kind)) \in Seq(Frames)
         /\ \A reason \in Reasons : /\ Written(<<Close(reason)>>) \in Seq(Frames)
                                    /\ Append(toPc, Close(reason)) \in Seq(Frames)
         /\ nextOp <= MaxOps => Written(<<Request(nextOp)>>) \in Seq(Frames)
         /\ \A done \in BOOLEAN : /\ Append(toPc, Result(phoneOp, done)) \in Seq(Frames)
                                  /\ Append(toPc, Status(done)) \in Seq(Frames)
         /\ <<>> \in Seq(Frames)
<1>1. \A f \in Frames : /\ <<f>> \in Seq(Frames) /\ Written(<<f>>) \in Seq(Frames)
                        /\ Append(toPc, f) \in Seq(Frames)
  BY DEF Written
<1>2. toPc # <<>> => Head(toPc) \in Frames /\ Tail(toPc) \in Seq(Frames)
  OBVIOUS
<1>3. toPhone # <<>> => Head(toPhone) \in Frames /\ Tail(toPhone) \in Seq(Frames)
  OBVIOUS
<1>4. \A f \in Frames : f.reason \in Reasons \cup {NoReason} /\ f.op \in 0..MaxOps /\ f.good \in BOOLEAN
  BY DEF Frames
<1>5. nextOp <= MaxOps => nextOp \in 0..MaxOps
  BY SessionAssumption
<1>6. <<>> \in Seq(Frames)
  OBVIOUS
<1> QED
  BY <1>1, <1>2, <1>3, <1>4, <1>5, <1>6, FramesTyped

-----------------------------------------------------------------------------
(* The type invariant holds together with the count of open sessions: the    *)
(* count stays within 0..1 only because each step that gives a place back is *)
(* one of a healthy session, and each that takes one is not.                 *)

CountedInv == TypeOK /\ OpenCountExact

LEMMA CountedInit == Init => CountedInv
<1> SUFFICES ASSUME Init PROVE CountedInv
  OBVIOUS
<1>1. sighting \in BOOLEAN /\ phonePaired \in BOOLEAN /\ raised \in BOOLEAN /\ revokeHeard \in BOOLEAN
  BY Zenon DEF Init
<1>2. view \in Views
  BY DEF Init, Views, ViewStates, NewView, NoWindow
<1>3. toPhone \in Seq(Frames) /\ toPc \in Seq(Frames)
  BY DEF Init
<1>4. /\ op \in 0..MaxOps /\ nextOp \in 1..(MaxOps + 1) /\ now \in 0..MaxTime
      /\ refused \in 0..MaxRefusedWrites /\ acts \in 0..MaxUserActs /\ phoneOp \in 0..MaxOps
  BY SessionAssumption DEF Init
<1>5. /\ pc \in Waits /\ outcome \in [OpIds -> {"none", "completed", "declined", "lost"}]
      /\ executed \in SUBSET OpIds
  BY DEF Init, Waits
<1>6. OpenCountExact
  BY DEF Init, OpenCountExact, Healthy, HealthyWaits
<1> QED
  BY <1>1, <1>2, <1>3, <1>4, <1>5, <1>6
  DEF Init, CountedInv, TypeOK, EngineTypeOK, StoreTypeOK, LinkTypeOK, PeerTypeOK, CallerTypeOK

LEMMA CountedStep == CountedInv /\ [Next]_vars => CountedInv'
<1> SUFFICES ASSUME CountedInv, [Next]_vars PROVE CountedInv'
  OBVIOUS
<1>V. /\ SessionOpened(view) \in Views /\ SessionClosedHere(view) \in Views
      /\ PairingLeft(view) \in Views /\ DialFailed(view, now) \in Views
      /\ SessionEnded(view, "loss", now) \in Views
      /\ SessionEnded(view, "violation", now) \in Views
      /\ SessionEnded(view, CloseTreatment(Head(toPc).reason), now) \in Views
  <2>1. view \in Views /\ now \in Nat
    BY SessionAssumption DEF CountedInv, TypeOK, CallerTypeOK
  <2>2. {"loss", "violation"} \subseteq Treatments
    BY DEF Treatments
  <2>3. CloseTreatment(Head(toPc).reason) \in Treatments
    BY CloseTreatmentTyped
  <2> QED
    BY <2>1, <2>2, <2>3, ViewOpsTyped
<1>D. \A seen \in SUBSET Sights, w, c \in BOOLEAN :
        /\ AfterDialAdmitted(Looked(seen, w), now, c) \in Views
        /\ DialFailed(AfterDialAdmitted(Looked(seen, w), now, c), now) \in Views
  <2> SUFFICES ASSUME NEW seen \in SUBSET Sights, NEW w \in BOOLEAN, NEW c \in BOOLEAN
               PROVE  /\ AfterDialAdmitted(Looked(seen, w), now, c) \in Views
                      /\ DialFailed(AfterDialAdmitted(Looked(seen, w), now, c), now) \in Views
    OBVIOUS
  <2>1. view \in Views /\ now \in Nat
    BY SessionAssumption DEF CountedInv, TypeOK, CallerTypeOK
  <2>2. Look(view, seen) \in Views
    BY <2>1, ViewOpsTyped
  <2>3. Looked(seen, w) \in Views
    BY <2>2, <2>1, ViewOpsTyped DEF Looked
  <2>4. AfterDialAdmitted(Looked(seen, w), now, c) \in Views
    BY <2>3, <2>1, ViewOpsTyped
  <2> QED
    BY <2>4, <2>1, ViewOpsTyped
<1>L. /\ toPc # <<>> => /\ Tail(toPc) \in Seq(Frames)
                        /\ Written(<<Echo(Head(toPc).reason)>>) \in Seq(Frames)
      /\ Written(<<Plain("hello")>>) \in Seq(Frames) /\ <<Plain("kk1")>> \in Seq(Frames)
      /\ Written(<<Close("protocol_violation")>>) \in Seq(Frames)
      /\ Written(<<Close("service_withdrawn")>>) \in Seq(Frames)
      /\ Written(<<Close("user_disconnect")>>) \in Seq(Frames)
      /\ Written(<<Close("pairing_revoked")>>) \in Seq(Frames)
      /\ nextOp <= MaxOps => Written(<<Request(nextOp)>>) \in Seq(Frames)
      /\ <<>> \in Seq(Frames)
  BY LinkTyped, SessionAssumption
  DEF CountedInv, TypeOK, EngineTypeOK, LinkTypeOK, PeerTypeOK, Kinds, Reasons
<1>P. /\ toPhone # <<>> => /\ Tail(toPhone) \in Seq(Frames)
                           /\ Head(toPhone).op \in 0..MaxOps
                           /\ Append(toPc, Echo(Head(toPhone).reason)) \in Seq(Frames)
      /\ \A kind \in Kinds : Append(toPc, Plain(kind)) \in Seq(Frames)
      /\ \A reason \in Reasons : Append(toPc, Close(reason)) \in Seq(Frames)
      /\ \A done \in BOOLEAN : /\ Append(toPc, Result(phoneOp, done)) \in Seq(Frames)
                               /\ Append(toPc, Status(done)) \in Seq(Frames)
  <2>1. /\ toPhone \in Seq(Frames) /\ toPc \in Seq(Frames) /\ phoneOp \in 0..MaxOps
        /\ nextOp \in Nat
    BY SessionAssumption DEF CountedInv, TypeOK, EngineTypeOK, LinkTypeOK, PeerTypeOK
  <2> QED
    BY <2>1, LinkTyped
<1>U. /\ UNCHANGED <<engine, openSessions>> => EngineTypeOK' /\ OpenCountExact'
      /\ UNCHANGED <<store, revokeHeard>> => StoreTypeOK'
      /\ UNCHANGED link => LinkTypeOK'
      /\ UNCHANGED peer => PeerTypeOK'
      /\ UNCHANGED <<view, now, acts, quitter>> => CallerTypeOK'
  BY DEF CountedInv, TypeOK, EngineTypeOK, StoreTypeOK, LinkTypeOK, PeerTypeOK, CallerTypeOK,
         OpenCountExact, Healthy, engine, store, link, peer, quitter
<1>S. /\ NoPeerClose => StoreTypeOK'
      /\ \A reason : Heard(reason) /\ ApplyPeerClose(reason) => StoreTypeOK'
      /\ RevokePairing /\ UNCHANGED <<sighting, revokeHeard>> => StoreTypeOK'
  <2>1. ASSUME RevokePairing PROVE pairing' \in {"serving", "forgotten", "revoked"} /\ refused' \in 0..MaxRefusedWrites
    BY <2>1, SessionAssumption DEF RevokePairing, CanRefuse, CountedInv, TypeOK, StoreTypeOK
  <2>2. NoPeerClose => StoreTypeOK'
    BY <1>U DEF NoPeerClose
  <2>3. ASSUME NEW reason, Heard(reason), ApplyPeerClose(reason) PROVE StoreTypeOK'
    BY <2>1, <2>3, SessionAssumption DEF ApplyPeerClose, Heard, CountedInv, TypeOK, StoreTypeOK
  <2>4. ASSUME RevokePairing, UNCHANGED <<sighting, revokeHeard>> PROVE StoreTypeOK'
    BY <2>1, <2>4 DEF CountedInv, TypeOK, StoreTypeOK
  <2> QED
    BY <2>2, <2>3, <2>4
<1> USE DEF CountedInv, TypeOK, engine, store, link, peer, quitter
<1>1. CASE ReceiveKK
  <2>1. EngineTypeOK' /\ OpenCountExact'
    BY <1>1, SessionAssumption DEF ReceiveKK, NothingUsable, Arrives, DialEnds,
        BackToCaller, NoPeerClose, EngineTypeOK, OpenCountExact, Healthy, HealthyWaits,
        Waits, OpIds
  <2>2. LinkTypeOK'
    BY <1>1, <1>L DEF ReceiveKK, NothingUsable, Arrives, DialEnds, BackToCaller,
        NoPeerClose, LinkTypeOK
  <2>3. CallerTypeOK'
    BY <1>1, <1>V, SessionAssumption DEF ReceiveKK, NothingUsable, Arrives, DialEnds,
        BackToCaller, NoPeerClose, CallerTypeOK
  <2> QED
    BY <1>1, <2>1, <2>2, <2>3, <1>U DEF ReceiveKK, NoPeerClose
<1>2. CASE ReceiveReady
  <2>1. EngineTypeOK' /\ OpenCountExact'
    BY <1>2, SessionAssumption DEF ReceiveReady, Arrives, DialEnds, BackToCaller,
        NoPeerClose, SendFails, up, EngineTypeOK, OpenCountExact, Healthy, HealthyWaits,
        Waits, OpIds
  <2>2. LinkTypeOK'
    BY <1>2, <1>L DEF ReceiveReady, Arrives, DialEnds, BackToCaller, NoPeerClose,
        SendFails, up, LinkTypeOK
  <2>3. CallerTypeOK'
    BY <1>2, <1>V, SessionAssumption DEF ReceiveReady, Arrives, DialEnds, BackToCaller,
        NoPeerClose, SendFails, up, CallerTypeOK
  <2> QED
    BY <1>2, <2>1, <2>2, <2>3, <1>U DEF ReceiveReady, NoPeerClose
<1>3. CASE ReceiveCloseForReady
  <2>1. EngineTypeOK' /\ OpenCountExact'
    BY <1>3, SessionAssumption DEF ReceiveCloseForReady, Arrives, DialEnds, BackToCaller,
        ApplyPeerClose, RevokePairing, CanRefuse, EngineTypeOK, OpenCountExact, Healthy,
        HealthyWaits, Waits, OpIds
  <2>2. StoreTypeOK'
    BY <1>3, <1>S DEF ReceiveCloseForReady, Arrives
  <2>3. LinkTypeOK'
    BY <1>3, <1>L DEF ReceiveCloseForReady, Arrives, DialEnds, BackToCaller, LinkTypeOK
  <2>4. CallerTypeOK'
    BY <1>3, <1>V, SessionAssumption DEF ReceiveCloseForReady, Arrives, DialEnds,
        BackToCaller, CallerTypeOK
  <2> QED
    BY <1>3, <2>1, <2>2, <2>3, <2>4, <1>U DEF ReceiveCloseForReady, Heard
<1>4. CASE ReceiveViolationForReady
  <2>1. EngineTypeOK' /\ OpenCountExact'
    BY <1>4, SessionAssumption DEF ReceiveViolationForReady, DialEnds, BackToCaller,
        NoPeerClose, SendFails, up, EngineTypeOK, OpenCountExact, Healthy, HealthyWaits,
        Waits, OpIds
  <2>2. LinkTypeOK'
    BY <1>4, <1>L DEF ReceiveViolationForReady, DialEnds, BackToCaller, NoPeerClose,
        SendFails, up, LinkTypeOK
  <2>3. CallerTypeOK'
    BY <1>4, <1>V, SessionAssumption DEF ReceiveViolationForReady, DialEnds, BackToCaller,
        NoPeerClose, SendFails, up, CallerTypeOK
  <2> QED
    BY <1>4, <2>1, <2>2, <2>3, <1>U DEF ReceiveViolationForReady, NoPeerClose
<1>5. CASE ReadyFails
  <2>1. EngineTypeOK' /\ OpenCountExact'
    BY <1>5, SessionAssumption DEF ReadyFails, NothingUsable, Arrives, DialEnds,
        BackToCaller, NoPeerClose, EngineTypeOK, OpenCountExact, Healthy, HealthyWaits,
        Waits, OpIds
  <2>2. LinkTypeOK'
    BY <1>5, <1>L DEF ReadyFails, NothingUsable, Arrives, DialEnds, BackToCaller,
        NoPeerClose, LinkTypeOK
  <2>3. CallerTypeOK'
    BY <1>5, <1>V, SessionAssumption DEF ReadyFails, NothingUsable, Arrives, DialEnds,
        BackToCaller, NoPeerClose, CallerTypeOK
  <2> QED
    BY <1>5, <2>1, <2>2, <2>3, <1>U DEF ReadyFails, NoPeerClose
<1>6. CASE EndEarlyViolation
  <2>1. EngineTypeOK' /\ OpenCountExact'
    BY <1>6, SessionAssumption DEF EndEarlyViolation, Crossing, Arrives, DialEnds,
        BackToCaller, NoPeerClose, ApplyPeerClose, RevokePairing, CanRefuse, EngineTypeOK,
        OpenCountExact, Healthy, HealthyWaits, Waits, OpIds
  <2>2. StoreTypeOK'
    BY <1>6, <1>S DEF EndEarlyViolation, Crossing, Arrives
  <2>3. LinkTypeOK'
    BY <1>6, <1>L DEF EndEarlyViolation, Crossing, Arrives, DialEnds, BackToCaller,
        NoPeerClose, LinkTypeOK
  <2>4. CallerTypeOK'
    BY <1>6, <1>V, SessionAssumption DEF EndEarlyViolation, Crossing, Arrives, DialEnds,
        BackToCaller, NoPeerClose, CallerTypeOK
  <2> QED
    BY <1>6, <2>1, <2>2, <2>3, <2>4, <1>U DEF EndEarlyViolation, NoPeerClose, Heard
<1>7. CASE OpeningDone
  <2>1. EngineTypeOK' /\ OpenCountExact'
    BY <1>7, SessionAssumption DEF OpeningDone, Disconnect, SendFails, up, FinishLocal,
        Finish, GiveBackPlace, SatSub, BackToCaller, NoPeerClose, EngineTypeOK,
        OpenCountExact, Healthy, HealthyWaits, Waits, OpIds
  <2>2. LinkTypeOK'
    BY <1>7, <1>L DEF OpeningDone, Disconnect, SendFails, up, FinishLocal, Finish,
        BackToCaller, NoPeerClose, LinkTypeOK
  <2>3. CallerTypeOK'
    BY <1>7, <1>V, SessionAssumption DEF OpeningDone, Disconnect, SendFails, up,
        FinishLocal, Finish, BackToCaller, NoPeerClose, CallerTypeOK
  <2> QED
    BY <1>7, <2>1, <2>2, <2>3, <1>U DEF OpeningDone, NoPeerClose
<1>8. CASE CloseIfWithdrawn
  <2>1. EngineTypeOK' /\ OpenCountExact'
    BY <1>8, SessionAssumption DEF CloseIfWithdrawn, Disconnect, SendFails, up,
        FinishLocal, Finish, GiveBackPlace, SatSub, BackToCaller, NoPeerClose,
        EngineTypeOK, OpenCountExact, Healthy, HealthyWaits, Waits, OpIds
  <2>2. LinkTypeOK'
    BY <1>8, <1>L DEF CloseIfWithdrawn, Disconnect, SendFails, up, FinishLocal, Finish,
        BackToCaller, NoPeerClose, LinkTypeOK
  <2>3. CallerTypeOK'
    BY <1>8, <1>V, SessionAssumption DEF CloseIfWithdrawn, Disconnect, SendFails, up,
        FinishLocal, Finish, BackToCaller, NoPeerClose, CallerTypeOK
  <2> QED
    BY <1>8, <2>1, <2>2, <2>3, <1>U DEF CloseIfWithdrawn, NoPeerClose
<1>9. CASE EndClosing
  <2>1. EngineTypeOK' /\ OpenCountExact'
    BY <1>9, SessionAssumption DEF EndClosing, Crossing, Arrives, ActOnCrossing,
        ApplyPeerClose, RevokePairing, CanRefuse, FinishPeer, FinishLocal, Finish,
        GiveBackPlace, SatSub, BackToCaller, NoPeerClose, EngineTypeOK, OpenCountExact,
        Healthy, HealthyWaits, Waits, OpIds
  <2>2. StoreTypeOK'
    BY <1>9, <1>S DEF EndClosing, Crossing, Arrives, ActOnCrossing
  <2>3. LinkTypeOK'
    BY <1>9, <1>L DEF EndClosing, Crossing, Arrives, ActOnCrossing, FinishPeer,
        FinishLocal, Finish, BackToCaller, NoPeerClose, LinkTypeOK
  <2>4. CallerTypeOK'
    BY <1>9, <1>V, SessionAssumption DEF EndClosing, Crossing, Arrives, ActOnCrossing,
        FinishPeer, FinishLocal, Finish, BackToCaller, NoPeerClose, CallerTypeOK
  <2> QED
    BY <1>9, <2>1, <2>2, <2>3, <2>4, <1>U DEF EndClosing, Heard, NoPeerClose
<1>10. CASE EndViolating
  <2>1. EngineTypeOK' /\ OpenCountExact'
    BY <1>10, SessionAssumption DEF EndViolating, Crossing, Arrives, ActOnCrossing,
        ApplyPeerClose, RevokePairing, CanRefuse, FinishPeer, FinishViolation, Finish,
        GiveBackPlace, SatSub, BackToCaller, NoPeerClose, EngineTypeOK, OpenCountExact,
        Healthy, HealthyWaits, Waits, OpIds
  <2>2. StoreTypeOK'
    BY <1>10, <1>S DEF EndViolating, Crossing, Arrives, ActOnCrossing
  <2>3. LinkTypeOK'
    BY <1>10, <1>L DEF EndViolating, Crossing, Arrives, ActOnCrossing, FinishPeer,
        FinishViolation, Finish, BackToCaller, NoPeerClose, LinkTypeOK
  <2>4. CallerTypeOK'
    BY <1>10, <1>V, SessionAssumption DEF EndViolating, Crossing, Arrives, ActOnCrossing,
        FinishPeer, FinishViolation, Finish, BackToCaller, NoPeerClose, CallerTypeOK
  <2> QED
    BY <1>10, <2>1, <2>2, <2>3, <2>4, <1>U DEF EndViolating, Heard, NoPeerClose
<1>11. CASE EndForgetting
  <2>1. EngineTypeOK' /\ OpenCountExact'
    BY <1>11, SessionAssumption DEF EndForgetting, Finish, GiveBackPlace, SatSub,
        BackToCaller, RevokePairing, CanRefuse, EngineTypeOK, OpenCountExact, Healthy,
        HealthyWaits, Waits, OpIds
  <2>2. StoreTypeOK'
    BY <1>11, <1>S DEF EndForgetting
  <2>3. LinkTypeOK'
    BY <1>11, <1>L DEF EndForgetting, Finish, BackToCaller, LinkTypeOK
  <2>4. CallerTypeOK'
    BY <1>11, <1>V, SessionAssumption DEF EndForgetting, Finish, BackToCaller, CallerTypeOK
  <2> QED
    BY <1>11, <2>1, <2>2, <2>3, <2>4, <1>U DEF EndForgetting
<1>12. CASE SendNotice
  <2>1. EngineTypeOK' /\ OpenCountExact'
    BY <1>12, SessionAssumption DEF SendNotice, Arrives, NothingUsable, SendFails, up,
        BackToCaller, EngineTypeOK, OpenCountExact, Healthy, HealthyWaits, Waits, OpIds
  <2>2. LinkTypeOK'
    BY <1>12, <1>L DEF SendNotice, Arrives, NothingUsable, SendFails, up, BackToCaller,
        LinkTypeOK
  <2> QED
    BY <1>12, <2>1, <2>2, <1>U DEF SendNotice
<1>13. CASE EndNotice
  <2>1. EngineTypeOK' /\ OpenCountExact'
    BY <1>13, SessionAssumption DEF EndNotice, BackToCaller, RevokePairing, CanRefuse,
        EngineTypeOK, OpenCountExact, Healthy, HealthyWaits, Waits, OpIds
  <2>2. StoreTypeOK'
    BY <1>13, <1>S DEF EndNotice
  <2>3. LinkTypeOK'
    BY <1>13, <1>L DEF EndNotice, BackToCaller, LinkTypeOK
  <2> QED
    BY <1>13, <2>1, <2>2, <2>3, <1>U DEF EndNotice
<1>14. CASE ReceiveStatus
  <2>1. EngineTypeOK' /\ OpenCountExact'
    BY <1>14, SessionAssumption DEF ReceiveStatus, HeldReceives, Arrives, EngineTypeOK,
        OpenCountExact, Healthy, HealthyWaits, Waits, OpIds
  <2>2. StoreTypeOK'
    BY <1>14, SessionAssumption DEF ReceiveStatus, HeldReceives, Arrives, StoreTypeOK
  <2>3. LinkTypeOK'
    BY <1>14, <1>L DEF ReceiveStatus, HeldReceives, Arrives, LinkTypeOK
  <2> QED
    BY <1>14, <2>1, <2>2, <2>3, <1>U DEF ReceiveStatus
<1>15. CASE ReceiveResult
  <2>1. EngineTypeOK' /\ OpenCountExact'
    BY <1>15, SessionAssumption DEF ReceiveResult, HeldReceives, Arrives, OutcomeOf,
        EngineTypeOK, OpenCountExact, Healthy, HealthyWaits, Waits, OpIds
  <2>2. LinkTypeOK'
    BY <1>15, <1>L DEF ReceiveResult, HeldReceives, Arrives, LinkTypeOK
  <2> QED
    BY <1>15, <2>1, <2>2, <1>U DEF ReceiveResult
<1>16. CASE ReceivePeerClose
  <2>1. EngineTypeOK' /\ OpenCountExact'
    BY <1>16, SessionAssumption DEF ReceivePeerClose, HeldReceives, Arrives,
        ApplyPeerClose, RevokePairing, CanRefuse, FinishPeer, Finish, GiveBackPlace,
        SatSub, BackToCaller, EngineTypeOK, OpenCountExact, Healthy, HealthyWaits, Waits,
        OpIds
  <2>2. StoreTypeOK'
    BY <1>16, <1>S DEF ReceivePeerClose, Arrives
  <2>3. LinkTypeOK'
    BY <1>16, <1>L DEF ReceivePeerClose, HeldReceives, Arrives, FinishPeer, Finish,
        BackToCaller, LinkTypeOK
  <2>4. CallerTypeOK'
    BY <1>16, <1>V, SessionAssumption DEF ReceivePeerClose, HeldReceives, Arrives,
        FinishPeer, Finish, BackToCaller, CallerTypeOK
  <2> QED
    BY <1>16, <2>1, <2>2, <2>3, <2>4, <1>U DEF ReceivePeerClose, Heard
<1>17. CASE ReceiveViolation
  <2>1. EngineTypeOK' /\ OpenCountExact'
    BY <1>17, SessionAssumption DEF ReceiveViolation, SendFails, up, FinishViolation,
        Finish, GiveBackPlace, SatSub, BackToCaller, NoPeerClose, EngineTypeOK,
        OpenCountExact, Healthy, HealthyWaits, Waits, OpIds
  <2>2. LinkTypeOK'
    BY <1>17, <1>L DEF ReceiveViolation, SendFails, up, FinishViolation, Finish,
        BackToCaller, NoPeerClose, LinkTypeOK
  <2>3. CallerTypeOK'
    BY <1>17, <1>V, SessionAssumption DEF ReceiveViolation, SendFails, up, FinishViolation,
        Finish, BackToCaller, NoPeerClose, CallerTypeOK
  <2> QED
    BY <1>17, <2>1, <2>2, <2>3, <1>U DEF ReceiveViolation, NoPeerClose
<1>18. CASE SessionLost
  <2>1. EngineTypeOK' /\ OpenCountExact'
    BY <1>18, SessionAssumption DEF SessionLost, NothingUsable, Arrives, FinishLoss,
        Finish, GiveBackPlace, SatSub, BackToCaller, NoPeerClose, EngineTypeOK,
        OpenCountExact, Healthy, HealthyWaits, Waits, OpIds
  <2>2. LinkTypeOK'
    BY <1>18, <1>L DEF SessionLost, NothingUsable, Arrives, FinishLoss, Finish,
        BackToCaller, NoPeerClose, LinkTypeOK
  <2>3. CallerTypeOK'
    BY <1>18, <1>V, SessionAssumption DEF SessionLost, NothingUsable, Arrives, FinishLoss,
        Finish, BackToCaller, NoPeerClose, CallerTypeOK
  <2> QED
    BY <1>18, <2>1, <2>2, <2>3, <1>U DEF SessionLost, NoPeerClose
<1>19. CASE CloseIfForgotten
  <2>1. EngineTypeOK' /\ OpenCountExact'
    BY <1>19, SessionAssumption DEF CloseIfForgotten, SendFails, up, Disconnect,
        FinishLocal, Finish, GiveBackPlace, SatSub, BackToCaller, NoPeerClose,
        EngineTypeOK, OpenCountExact, Healthy, HealthyWaits, Waits, OpIds
  <2>2. LinkTypeOK'
    BY <1>19, <1>L DEF CloseIfForgotten, SendFails, up, Disconnect, FinishLocal, Finish,
        BackToCaller, NoPeerClose, LinkTypeOK
  <2>3. CallerTypeOK'
    BY <1>19, <1>V, SessionAssumption DEF CloseIfForgotten, SendFails, up, Disconnect,
        FinishLocal, Finish, BackToCaller, NoPeerClose, CallerTypeOK
  <2> QED
    BY <1>19, <2>1, <2>2, <2>3, <1>U DEF CloseIfForgotten, NoPeerClose
<1>20. CASE IgnoreWhileClosing
  <2>1. LinkTypeOK'
    BY <1>20, <1>L DEF IgnoreWhileClosing, Ignored, LinkTypeOK
  <2> QED
    BY <1>20, <2>1, <1>U DEF IgnoreWhileClosing
<1>21. CASE \E seen \in SUBSET Sights, w \in BOOLEAN, c \in BOOLEAN : DialNotAdmitted(seen, w, c)
  <2>0. PICK seen \in SUBSET Sights, w \in BOOLEAN, c \in BOOLEAN : DialNotAdmitted(seen, w, c)
    BY <1>21
  <2>1. StoreTypeOK'
    BY <2>0, SessionAssumption DEF DialNotAdmitted, CanAct, Looked, StoreTypeOK
  <2>2. CallerTypeOK'
    BY <2>0, <1>D, SessionAssumption DEF DialNotAdmitted, CanAct, CallerTypeOK
  <2> QED
    BY <2>0, <2>1, <2>2, <1>U DEF DialNotAdmitted
<1>22. CASE \E seen \in SUBSET Sights, c \in BOOLEAN : DialUnreachable(seen, c)
  <2>0. PICK seen \in SUBSET Sights, c \in BOOLEAN : DialUnreachable(seen, c)
    BY <1>22
  <2>1. view' \in Views
    <3>1. FALSE \in BOOLEAN
      OBVIOUS
    <3> QED
      BY <2>0, <1>D, <3>1 DEF DialUnreachable
  <2>2. acts' = acts + 1 /\ acts < MaxUserActs /\ now' = now /\ raised' = raised /\ quit' = quit
    BY <2>0 DEF DialUnreachable, CanAct
  <2>3. CallerTypeOK'
    BY <2>1, <2>2, SessionAssumption DEF CallerTypeOK
  <2> QED
    BY <2>0, <2>3, <1>U DEF DialUnreachable
<1>23. CASE \E seen \in SUBSET Sights, c \in BOOLEAN : Dial(seen, c)
  <2>0. PICK seen \in SUBSET Sights, c \in BOOLEAN : Dial(seen, c)
    BY <1>23
  <2>1. EngineTypeOK' /\ OpenCountExact'
    BY <2>0, SessionAssumption DEF Dial, CanAct, EngineTypeOK, OpenCountExact, Healthy,
        HealthyWaits, Waits, OpIds
  <2>2. LinkTypeOK'
    BY <2>0, <1>L DEF Dial, CanAct, LinkTypeOK
  <2>3. view' \in Views
    <3>1. FALSE \in BOOLEAN
      OBVIOUS
    <3> QED
      BY <2>0, <1>D, <3>1 DEF Dial
  <2>4. acts' = acts + 1 /\ acts < MaxUserActs /\ now' = now /\ raised' = raised /\ quit' = quit
    BY <2>0 DEF Dial, CanAct
  <2>5. CallerTypeOK'
    BY <2>3, <2>4, SessionAssumption DEF CallerTypeOK
  <2> QED
    BY <2>0, <2>1, <2>2, <2>5, <1>U DEF Dial
<1>24. CASE DialNotice
  <2>1. EngineTypeOK' /\ OpenCountExact'
    BY <1>24, SessionAssumption DEF DialNotice, CanAct, EngineTypeOK, OpenCountExact,
        Healthy, HealthyWaits, Waits, OpIds
  <2>2. LinkTypeOK'
    BY <1>24, <1>L DEF DialNotice, CanAct, LinkTypeOK
  <2>3. CallerTypeOK'
    BY <1>24, <1>V, SessionAssumption DEF DialNotice, CanAct, CallerTypeOK
  <2> QED
    BY <1>24, <2>1, <2>2, <2>3, <1>U DEF DialNotice
<1>25. CASE Execute
  <2>1. EngineTypeOK' /\ OpenCountExact'
    BY <1>25, SessionAssumption DEF Execute, SendFails, up, GiveBackPlace, SatSub,
        BackToCaller, NoPeerClose, EngineTypeOK, OpenCountExact, Healthy, HealthyWaits,
        Waits, OpIds
  <2>2. LinkTypeOK'
    BY <1>25, <1>L DEF Execute, SendFails, up, BackToCaller, NoPeerClose, LinkTypeOK
  <2>3. CallerTypeOK'
    BY <1>25, <1>V, SessionAssumption DEF Execute, SendFails, up, BackToCaller,
        NoPeerClose, CallerTypeOK
  <2> QED
    BY <1>25, <2>1, <2>2, <2>3, <1>U DEF Execute, NoPeerClose
<1>26. CASE CallerDisconnects
  <2>1. EngineTypeOK' /\ OpenCountExact'
    BY <1>26, SessionAssumption DEF CallerDisconnects, Disconnect, SendFails, up,
        FinishLocal, Finish, GiveBackPlace, SatSub, BackToCaller, NoPeerClose,
        EngineTypeOK, OpenCountExact, Healthy, HealthyWaits, Waits, OpIds
  <2>2. LinkTypeOK'
    BY <1>26, <1>L DEF CallerDisconnects, Disconnect, SendFails, up, FinishLocal, Finish,
        BackToCaller, NoPeerClose, LinkTypeOK
  <2>3. CallerTypeOK'
    BY <1>26, <1>V, SessionAssumption DEF CallerDisconnects, Disconnect, SendFails, up,
        FinishLocal, Finish, BackToCaller, NoPeerClose, CallerTypeOK
  <2> QED
    BY <1>26, <2>1, <2>2, <2>3, <1>U DEF CallerDisconnects, NoPeerClose
<1>27. CASE CallerDropsSession
  <2>1. EngineTypeOK' /\ OpenCountExact'
    BY <1>27, SessionAssumption DEF CallerDropsSession, GiveBackPlace, SatSub,
        BackToCaller, NoPeerClose, EngineTypeOK, OpenCountExact, Healthy, HealthyWaits,
        Waits, OpIds
  <2>2. LinkTypeOK'
    BY <1>27, <1>L DEF CallerDropsSession, BackToCaller, NoPeerClose, LinkTypeOK
  <2>3. CallerTypeOK'
    BY <1>27, <1>V, SessionAssumption DEF CallerDropsSession, BackToCaller, NoPeerClose,
        CallerTypeOK
  <2> QED
    BY <1>27, <2>1, <2>2, <2>3, <1>U DEF CallerDropsSession, NoPeerClose
<1>28. CASE PhoneShakes
  <2>1. LinkTypeOK'
    BY <1>28, <1>P DEF PhoneShakes, PhoneReads, PhoneSends, NotTheEngine, Kinds, LinkTypeOK
  <2>2. PeerTypeOK'
    BY <1>28, <1>P, SessionAssumption DEF PhoneShakes, PhoneReads, PhoneSends,
        NotTheEngine, Kinds, PeerTypeOK, OpIds
  <2> QED
    BY <1>28, <2>1, <2>2, <1>U DEF PhoneShakes, NotTheEngine
<1>29. CASE PhoneReady
  <2>1. LinkTypeOK'
    BY <1>29, <1>P DEF PhoneReady, PhoneSends, NotTheEngine, Kinds, LinkTypeOK
  <2>2. PeerTypeOK'
    BY <1>29, <1>P, SessionAssumption DEF PhoneReady, PhoneSends, NotTheEngine, Kinds,
        PeerTypeOK, OpIds
  <2> QED
    BY <1>29, <2>1, <2>2, <1>U DEF PhoneReady, NotTheEngine
<1>30. CASE \E reason \in Reasons : PhoneCloses(reason)
  <2>0. PICK reason \in Reasons : PhoneCloses(reason)
    BY <1>30
  <2>1. LinkTypeOK'
    BY <2>0, <1>P DEF PhoneCloses, PhoneSends, NotTheEngine, LinkTypeOK
  <2>2. PeerTypeOK'
    BY <2>0, <1>P, SessionAssumption DEF PhoneCloses, PhoneSends, NotTheEngine, PeerTypeOK,
        OpIds
  <2> QED
    BY <2>0, <2>1, <2>2, <1>U DEF PhoneCloses, NotTheEngine
<1>31. CASE \E kind \in {"violating", "garbled"} : PhoneMisbehaves(kind)
  <2>0. PICK kind \in {"violating", "garbled"} : PhoneMisbehaves(kind)
    BY <1>31
  <2>1. LinkTypeOK'
    BY <2>0, <1>P DEF PhoneMisbehaves, PhoneSends, NotTheEngine, Kinds, LinkTypeOK
  <2> QED
    BY <2>0, <2>1, <1>U DEF PhoneMisbehaves, NotTheEngine
<1>32. CASE \E present \in BOOLEAN : PhoneReports(present)
  <2>0. PICK present \in BOOLEAN : PhoneReports(present)
    BY <1>32
  <2>1. LinkTypeOK'
    BY <2>0, <1>P DEF PhoneReports, PhoneSends, NotTheEngine, LinkTypeOK
  <2> QED
    BY <2>0, <2>1, <1>U DEF PhoneReports, NotTheEngine
<1>33. CASE PhoneAdmits
  <2>1. LinkTypeOK'
    BY <1>33, <1>P DEF PhoneAdmits, PhoneReads, NotTheEngine, LinkTypeOK
  <2>2. PeerTypeOK'
    BY <1>33, <1>P, SessionAssumption DEF PhoneAdmits, PhoneReads, NotTheEngine,
        PeerTypeOK, OpIds
  <2> QED
    BY <1>33, <2>1, <2>2, <1>U DEF PhoneAdmits, NotTheEngine
<1>34. CASE \E done \in BOOLEAN : PhoneFinishes(done)
  <2>0. PICK done \in BOOLEAN : PhoneFinishes(done)
    BY <1>34
  <2>1. LinkTypeOK'
    BY <2>0, <1>P DEF PhoneFinishes, PhoneSends, NotTheEngine, LinkTypeOK
  <2>2. PeerTypeOK'
    BY <2>0, <1>P, SessionAssumption DEF PhoneFinishes, PhoneSends, NotTheEngine,
        PeerTypeOK, OpIds
  <2> QED
    BY <2>0, <2>1, <2>2, <1>U DEF PhoneFinishes, NotTheEngine
<1>35. CASE PhoneReadsClose
  <2>1. LinkTypeOK'
    BY <1>35, <1>P DEF PhoneReadsClose, PhoneReads, PhoneSends, NotTheEngine, LinkTypeOK
  <2>2. PeerTypeOK'
    BY <1>35, <1>P, SessionAssumption DEF PhoneReadsClose, PhoneReads, PhoneSends,
        NotTheEngine, PeerTypeOK, OpIds
  <2> QED
    BY <1>35, <2>1, <2>2, <1>U DEF PhoneReadsClose, NotTheEngine
<1>36. CASE PhoneReadsEcho
  <2>1. LinkTypeOK'
    BY <1>36, <1>P DEF PhoneReadsEcho, PhoneReads, NotTheEngine, LinkTypeOK
  <2>2. PeerTypeOK'
    BY <1>36, <1>P, SessionAssumption DEF PhoneReadsEcho, PhoneReads, NotTheEngine,
        PeerTypeOK, OpIds
  <2> QED
    BY <1>36, <2>1, <2>2, <1>U DEF PhoneReadsEcho, NotTheEngine
<1>37. CASE PhonePasses
  <2>1. LinkTypeOK'
    BY <1>37, <1>P DEF PhonePasses, PhoneReads, NotTheEngine, LinkTypeOK
  <2> QED
    BY <1>37, <2>1, <1>U DEF PhonePasses, NotTheEngine
<1>38. CASE PhoneLosesLink
  <2>1. PeerTypeOK'
    BY <1>38, <1>P, SessionAssumption DEF PhoneLosesLink, NotTheEngine, PeerTypeOK, OpIds
  <2> QED
    BY <1>38, <2>1, <1>U DEF PhoneLosesLink, NotTheEngine
<1>39. CASE UserForgets
  <2>1. StoreTypeOK'
    BY <1>39, SessionAssumption DEF UserForgets, StoreTypeOK
  <2> QED
    BY <1>39, <2>1, <1>U DEF UserForgets
<1>40. CASE NoticeExpires
  <2>1. StoreTypeOK'
    BY <1>40, SessionAssumption DEF NoticeExpires, StoreTypeOK
  <2> QED
    BY <1>40, <2>1, <1>U DEF NoticeExpires
<1>41. CASE QuitRaises
  <2>1. CallerTypeOK'
    BY <1>41, <1>V, SessionAssumption DEF QuitRaises, CallerTypeOK
  <2> QED
    BY <1>41, <2>1, <1>U DEF QuitRaises
<1>42. CASE QuitReturns
  <2>1. CallerTypeOK'
    BY <1>42, <1>V, SessionAssumption DEF QuitReturns, CallerTypeOK
  <2> QED
    BY <1>42, <2>1, <1>U DEF QuitReturns
<1>43. CASE Exit
  <2>1. EngineTypeOK' /\ OpenCountExact'
    BY <1>43, SessionAssumption DEF Exit, EngineTypeOK, OpenCountExact, Healthy,
        HealthyWaits, Waits, OpIds
  <2>2. LinkTypeOK'
    BY <1>43, <1>L DEF Exit, LinkTypeOK
  <2> QED
    BY <1>43, <2>1, <2>2, <1>U DEF Exit
<1>44. CASE LinkFails
  <2>1. LinkTypeOK'
    BY <1>44, <1>L DEF LinkFails, NotTheEngine, LinkTypeOK
  <2> QED
    BY <1>44, <2>1, <1>U DEF LinkFails, NotTheEngine
<1>45. CASE Tick
  <2>1. CallerTypeOK'
    BY <1>45, <1>V, SessionAssumption DEF Tick, CallerTypeOK
  <2> QED
    BY <1>45, <2>1, <1>U DEF Tick
<1>46. CASE UNCHANGED vars
  BY <1>46, <1>U DEF vars, CountedInv, TypeOK
<1> QED
  BY <1>1, <1>2, <1>3, <1>4, <1>5, <1>6, <1>7, <1>8, <1>9, <1>10, <1>11, <1>12, <1>13,
     <1>14, <1>15, <1>16, <1>17, <1>18, <1>19, <1>20, <1>21, <1>22, <1>23, <1>24, <1>25,
     <1>26, <1>27, <1>28, <1>29, <1>30, <1>31, <1>32, <1>33, <1>34, <1>35, <1>36, <1>37,
     <1>38, <1>39, <1>40, <1>41, <1>42, <1>43, <1>44, <1>45, <1>46
  DEF Next, WaitEnds, SessionSteps, CallerSteps, PhoneSteps

\* Type correctness: the count of open sessions never leaves 0..1, no operation
\* identifier is reused past its bound, and every frame under way is one the
\* protocol has.
THEOREM TypeCorrect == Spec => []TypeOK
<1>1. Init => CountedInv
  BY CountedInit
<1>2. CountedInv /\ [Next]_vars => CountedInv'
  BY CountedStep
<1>3. CountedInv => TypeOK
  BY DEF CountedInv
<1> QED
  BY <1>1, <1>2, <1>3, PTL DEF Spec

\* The Withdrawal counts exactly the healthy sessions, whatever ends them.
THEOREM OpenSessionsCounted == Spec => []OpenCountExact
<1>1. Init => CountedInv
  BY CountedInit
<1>2. CountedInv /\ [Next]_vars => CountedInv'
  BY CountedStep
<1>3. CountedInv => OpenCountExact
  BY DEF CountedInv
<1> QED
  BY <1>1, <1>2, <1>3, PTL DEF Spec

-----------------------------------------------------------------------------
(* What each operation of the view leaves behind.                            *)

\* The states the view is left in by the session's steps.
LEMMA ViewAfter ==
  ASSUME CountedInv
  PROVE  /\ SessionOpened(view).state = "connected"
         /\ SessionClosedHere(view).state = "idle"
         /\ PairingLeft(view) = NewView /\ NewView.state = "idle"
         /\ SessionEnded(view, CloseTreatment(Head(toPc).reason), now).state # "connected"
         /\ SessionEnded(view, "loss", now).state = "connecting"
         /\ SessionEnded(view, "violation", now).state = "idle"
         /\ DialFailed(view, now).state = "connected" <=> view.state = "connected"
<1>1. view \in Views /\ now \in Nat
  BY SessionAssumption DEF CountedInv, TypeOK, CallerTypeOK
<1>2. \A state \in ViewStates, opened \in Nat \cup {NoWindow} :
         InState(view, state, opened).state = state
  BY <1>1 DEF Views, InState
<1>3. NewView.state = "idle"
  BY DEF NewView
<1>4. /\ SessionOpened(view).state = "connected" /\ SessionClosedHere(view).state = "idle"
      /\ PairingLeft(view) = NewView
  BY <1>2 DEF SessionOpened, SessionClosedHere, PairingLeft, ViewStates
<1>5. SessionEnded(view, "loss", now).state = "connecting"
  BY <1>1, <1>2 DEF SessionEnded, ViewStates
<1>6. SessionEnded(view, "violation", now).state = "idle"
  BY <1>2 DEF SessionEnded, ViewStates
<1>7. ASSUME NEW treatment \in Treatments
      PROVE  SessionEnded(view, treatment, now).state # "connected"
  BY <1>1, <1>2, <1>3 DEF SessionEnded, ViewStates, Treatments
<1>8. SessionEnded(view, CloseTreatment(Head(toPc).reason), now).state # "connected"
  BY <1>7, CloseTreatmentTyped
<1> QED
  BY <1>1, <1>3, <1>4, <1>5, <1>6, <1>8, DialsKeepConnected

\* A look, an admission and a dial that reached nobody keep a view out of
\* connected, or in it.
LEMMA DialAfter ==
  ASSUME CountedInv, NEW seen \in SUBSET Sights, NEW w \in BOOLEAN, NEW c \in BOOLEAN
  PROVE  LET dialled == AfterDialAdmitted(Looked(seen, w), now, c)
         IN  /\ dialled.state = "connected" <=> view.state = "connected"
             /\ DialFailed(dialled, now).state = "connected" <=> view.state = "connected"
<1>1. view \in Views /\ now \in Nat
  BY SessionAssumption DEF CountedInv, TypeOK, CallerTypeOK
<1>2. /\ Look(view, seen) \in Views
      /\ Look(view, seen).state = "connected" <=> view.state = "connected"
  BY <1>1, ViewOpsTyped, DialsKeepConnected
<1>3. /\ Looked(seen, w) \in Views
      /\ Looked(seen, w).state = "connected" <=> view.state = "connected"
  BY <1>1, <1>2, ViewOpsTyped, DialsKeepConnected DEF Looked
<1>4. /\ AfterDialAdmitted(Looked(seen, w), now, c) \in Views
      /\ AfterDialAdmitted(Looked(seen, w), now, c).state = "connected" <=> view.state = "connected"
  BY <1>1, <1>3, ViewOpsTyped, DialsKeepConnected
<1> QED
  BY <1>1, <1>4, DialsKeepConnected

-----------------------------------------------------------------------------
(* The view follows the session.                                             *)

\* The custodian's own steps reach the engine only through the link.
LEMMA PhoneLeavesEngine == PhoneSteps => NotTheEngine
  BY DEF PhoneSteps, PhoneShakes, PhoneReady, PhoneCloses, PhoneMisbehaves, PhoneReports,
         PhoneAdmits, PhoneFinishes, PhoneReadsClose, PhoneReadsEcho, PhonePasses, PhoneLosesLink

LEMMA ViewFollowsStep ==
  ASSUME ~AppCaller, CountedInv, ViewFollowsSession, [Next]_vars
  PROVE  ViewFollowsSession'
<1> USE DEF ViewFollowsSession, Healthy, HealthyWaits, engine, store, link, peer, quitter
<1>1. CASE ReceiveKK
  BY <1>1, ViewAfter DEF ReceiveKK, NothingUsable, Arrives, DialEnds, BackToCaller,
      NoPeerClose
<1>2. CASE ReceiveReady
  BY <1>2, ViewAfter DEF ReceiveReady, Arrives, DialEnds, BackToCaller, NoPeerClose,
      SendFails, up
<1>3. CASE ReceiveCloseForReady
  BY <1>3, ViewAfter DEF ReceiveCloseForReady, Arrives, DialEnds, BackToCaller,
      ApplyPeerClose, RevokePairing, Heard, CanRefuse
<1>4. CASE ReceiveViolationForReady
  BY <1>4, ViewAfter DEF ReceiveViolationForReady, DialEnds, BackToCaller, NoPeerClose,
      SendFails, up
<1>5. CASE ReadyFails
  BY <1>5, ViewAfter DEF ReadyFails, NothingUsable, Arrives, DialEnds, BackToCaller,
      NoPeerClose
<1>6. CASE EndEarlyViolation
  BY <1>6, ViewAfter DEF EndEarlyViolation, Crossing, Arrives, DialEnds, BackToCaller,
      NoPeerClose, ApplyPeerClose, RevokePairing, Heard, CanRefuse
<1>7. CASE OpeningDone
  BY <1>7, ViewAfter DEF OpeningDone, Disconnect, SendFails, up, FinishLocal, Finish,
      GiveBackPlace, BackToCaller, NoPeerClose
<1>8. CASE CloseIfWithdrawn
  BY <1>8, ViewAfter DEF CloseIfWithdrawn, Disconnect, SendFails, up, FinishLocal, Finish,
      GiveBackPlace, BackToCaller, NoPeerClose
<1>9. CASE EndClosing
  BY <1>9, ViewAfter DEF EndClosing, Crossing, Arrives, Heard, ActOnCrossing,
      ApplyPeerClose, RevokePairing, CanRefuse, FinishPeer, FinishLocal, Finish,
      GiveBackPlace, BackToCaller, NoPeerClose
<1>10. CASE EndViolating
  BY <1>10, ViewAfter DEF EndViolating, Crossing, Arrives, Heard, ActOnCrossing,
      ApplyPeerClose, RevokePairing, CanRefuse, FinishPeer, FinishViolation, Finish,
      GiveBackPlace, BackToCaller, NoPeerClose
<1>11. CASE EndForgetting
  BY <1>11, ViewAfter DEF EndForgetting, Finish, GiveBackPlace, BackToCaller,
      RevokePairing, CanRefuse
<1>12. CASE SendNotice
  BY <1>12, ViewAfter DEF SendNotice, Arrives, NothingUsable, SendFails, up, BackToCaller
<1>13. CASE EndNotice
  BY <1>13, ViewAfter DEF EndNotice, BackToCaller, RevokePairing, CanRefuse
<1>14. CASE ReceiveStatus
  BY <1>14, ViewAfter DEF ReceiveStatus, HeldReceives, Arrives
<1>15. CASE ReceiveResult
  BY <1>15, ViewAfter DEF ReceiveResult, HeldReceives, Arrives, OutcomeOf
<1>16. CASE ReceivePeerClose
  BY <1>16, ViewAfter DEF ReceivePeerClose, HeldReceives, Arrives, Heard, ApplyPeerClose,
      RevokePairing, CanRefuse, FinishPeer, Finish, GiveBackPlace, BackToCaller
<1>17. CASE ReceiveViolation
  BY <1>17, ViewAfter DEF ReceiveViolation, SendFails, up, FinishViolation, Finish,
      GiveBackPlace, BackToCaller, NoPeerClose
<1>18. CASE SessionLost
  BY <1>18, ViewAfter DEF SessionLost, NothingUsable, Arrives, FinishLoss, Finish,
      GiveBackPlace, BackToCaller, NoPeerClose
<1>19. CASE CloseIfForgotten
  BY <1>19, ViewAfter DEF CloseIfForgotten, SendFails, up, Disconnect, FinishLocal, Finish,
      GiveBackPlace, BackToCaller, NoPeerClose
<1>20. CASE IgnoreWhileClosing
  BY <1>20, ViewAfter DEF IgnoreWhileClosing, Ignored
<1>21. CASE \E seen \in SUBSET Sights, w \in BOOLEAN, c \in BOOLEAN : DialNotAdmitted(seen, w, c)
  <2>1. PICK seen \in SUBSET Sights, w \in BOOLEAN, c \in BOOLEAN : DialNotAdmitted(seen, w, c)
    BY <1>21
  <2>2. FALSE \in BOOLEAN
    OBVIOUS
  <2> QED
    BY <2>1, <2>2, DialAfter DEF DialNotAdmitted, CanAct
<1>22. CASE \E seen \in SUBSET Sights, c \in BOOLEAN : DialUnreachable(seen, c)
  <2>1. PICK seen \in SUBSET Sights, c \in BOOLEAN : DialUnreachable(seen, c)
    BY <1>22
  <2>2. FALSE \in BOOLEAN
    OBVIOUS
  <2> QED
    BY <2>1, <2>2, DialAfter DEF DialUnreachable, CanAct
<1>23. CASE \E seen \in SUBSET Sights, c \in BOOLEAN : Dial(seen, c)
  <2>1. PICK seen \in SUBSET Sights, c \in BOOLEAN : Dial(seen, c)
    BY <1>23
  <2>2. FALSE \in BOOLEAN
    OBVIOUS
  <2> QED
    BY <2>1, <2>2, DialAfter DEF Dial, CanAct
<1>24. CASE DialNotice
  BY <1>24, ViewAfter DEF DialNotice, CanAct
<1>25. CASE Execute
  BY <1>25, ViewAfter DEF Execute, SendFails, up, GiveBackPlace, BackToCaller, NoPeerClose
<1>26. CASE CallerDisconnects
  BY <1>26, ViewAfter DEF CallerDisconnects, Disconnect, SendFails, up, FinishLocal,
      Finish, GiveBackPlace, BackToCaller, NoPeerClose
<1>27. CASE CallerDropsSession
  BY <1>27, ViewAfter DEF CallerDropsSession, GiveBackPlace, BackToCaller, NoPeerClose
<1>28. CASE PhoneSteps
  BY <1>28, PhoneLeavesEngine DEF NotTheEngine
<1>29. CASE UserForgets
  BY <1>29, ViewAfter DEF UserForgets
<1>30. CASE NoticeExpires
  BY <1>30, ViewAfter DEF NoticeExpires
<1>31. CASE QuitRaises
  BY <1>31, ViewAfter DEF QuitRaises
<1>32. CASE QuitReturns
  BY <1>32, ViewAfter DEF QuitReturns
<1>33. CASE Exit
  BY <1>33, ViewAfter DEF Exit
<1>34. CASE LinkFails
  BY <1>34, ViewAfter DEF LinkFails, NotTheEngine
<1>35. CASE Tick
  BY <1>35, ViewAfter DEF Tick
<1>36. CASE UNCHANGED vars
  BY <1>36 DEF vars
<1> QED
  BY <1>1, <1>2, <1>3, <1>4, <1>5, <1>6, <1>7, <1>8, <1>9, <1>10, <1>11, <1>12, <1>13,
     <1>14, <1>15, <1>16, <1>17, <1>18, <1>19, <1>20, <1>21, <1>22, <1>23, <1>24, <1>25,
     <1>26, <1>27, <1>28, <1>29, <1>30, <1>31, <1>32, <1>33, <1>34, <1>35, <1>36
  DEF Next, WaitEnds, SessionSteps, CallerSteps

\* In a process of the agent the view says connected exactly while a session is
\* healthy: rapp-ffi's dropped session is the one path that does not tell it.
THEOREM ViewCorrect == ~AppCaller => (Spec => []ViewFollowsSession)
<1> SUFFICES ASSUME ~AppCaller PROVE Spec => []ViewFollowsSession
  OBVIOUS
<1>1. Init => CountedInv /\ ViewFollowsSession
  BY CountedInit DEF Init, ViewFollowsSession, Healthy, HealthyWaits, NewView
<1>2. CountedInv /\ ViewFollowsSession /\ [Next]_vars => CountedInv' /\ ViewFollowsSession'
  BY CountedStep, ViewFollowsStep
<1> QED
  BY <1>1, <1>2, PTL DEF Spec

-----------------------------------------------------------------------------
(* A withdrawn custodian is offered no more.                                 *)

\* The view becomes withdrawn only with a treatment that also dropped the
\* sighting, outside rapp-ffi's look at withdrawn records.
LEMMA WithdrawnAfter ==
  ASSUME CountedInv
  PROVE  /\ \A reason : SessionEnded(view, CloseTreatment(reason), now).state = "withdrawn"
                          => reason \in {"service_withdrawn", "card_unavailable"}
         /\ DialFailed(view, now).state = "withdrawn" => view.state = "withdrawn"
         /\ \A seen \in SUBSET Sights, c \in BOOLEAN :
              LET dialled == AfterDialAdmitted(Looked(seen, FALSE), now, c)
              IN  /\ dialled.state = "withdrawn" => view.state = "withdrawn"
                  /\ DialFailed(dialled, now).state = "withdrawn" => view.state = "withdrawn"
<1> USE DEF Views, ViewStates, NoWindow, InState
<1>1. view \in Views /\ now \in Nat
  BY SessionAssumption DEF CountedInv, TypeOK, CallerTypeOK
<1>2. ASSUME NEW v \in Views
      PROVE  /\ DialFailed(v, now).state = "withdrawn" => v.state = "withdrawn"
             /\ \A c \in BOOLEAN :
                  AfterDialAdmitted(v, now, c).state = "withdrawn" => v.state = "withdrawn"
             /\ \A seen \in SUBSET Sights :
                  Look(v, seen).state = "withdrawn" => v.state = "withdrawn"
  <2>1. DialFailed(v, now).state = "withdrawn" => v.state = "withdrawn"
    BY <1>1 DEF DialFailed
  <2>2. ASSUME NEW c \in BOOLEAN
        PROVE  AfterDialAdmitted(v, now, c).state = "withdrawn" => v.state = "withdrawn"
    BY <1>1 DEF AfterDialAdmitted
  <2>3. ASSUME NEW seen \in SUBSET Sights
        PROVE  Look(v, seen).state = "withdrawn" => v.state = "withdrawn"
    BY DEF Look
  <2> QED
    BY <2>1, <2>2, <2>3
<1>3. ASSUME NEW reason, SessionEnded(view, CloseTreatment(reason), now).state = "withdrawn"
      PROVE  reason \in {"service_withdrawn", "card_unavailable"}
  <2>1. ASSUME NEW treatment \in Treatments, treatment # "withdrawn"
        PROVE  SessionEnded(view, treatment, now).state # "withdrawn"
    BY <1>1, <2>1 DEF SessionEnded, Treatments, NewView
  <2>2. CloseTreatment(reason) = "withdrawn"
    BY <1>3, <2>1, CloseTreatmentTyped
  <2> QED
    BY <2>2 DEF CloseTreatment
<1>4. ASSUME NEW seen \in SUBSET Sights
      PROVE  /\ Looked(seen, FALSE) = Look(view, seen)
             /\ Look(view, seen) \in Views
             /\ \A c \in BOOLEAN : AfterDialAdmitted(Look(view, seen), now, c) \in Views
  <2>1. Looked(seen, FALSE) = Look(view, seen)
    BY DEF Looked
  <2> QED
    BY <2>1, <1>1, ViewOpsTyped
<1>5. ASSUME NEW seen \in SUBSET Sights, NEW c \in BOOLEAN
      PROVE  LET dialled == AfterDialAdmitted(Looked(seen, FALSE), now, c)
             IN  /\ dialled.state = "withdrawn" => view.state = "withdrawn"
                 /\ DialFailed(dialled, now).state = "withdrawn" => view.state = "withdrawn"
  <2> DEFINE look == Look(view, seen)
             dialled == AfterDialAdmitted(look, now, c)
  <2>1. look \in Views /\ dialled \in Views /\ Looked(seen, FALSE) = look
    BY <1>4
  <2>2. look.state = "withdrawn" => view.state = "withdrawn"
    BY <1>1, <1>2
  <2>3. dialled.state = "withdrawn" => look.state = "withdrawn"
    BY <2>1, <1>2
  <2>4. DialFailed(dialled, now).state = "withdrawn" => dialled.state = "withdrawn"
    BY <2>1, <1>2
  <2> HIDE DEF look
  <2> QED
    BY <2>1, <2>2, <2>3, <2>4
<1>6. DialFailed(view, now).state = "withdrawn" => view.state = "withdrawn"
  BY <1>1, <1>2
<1> QED
  BY <1>3, <1>5, <1>6

\* A dial that is admitted is of a custodian that is not withdrawn.
LEMMA AdmittedNotWithdrawn ==
  ASSUME NEW v \in Views, NEW t \in Nat, NEW c \in BOOLEAN, DialAdmitted(v, t, c)
  PROVE  AfterDialAdmitted(v, t, c).state # "withdrawn"
  BY DEF DialAdmitted, AfterDialAdmitted, InState, Views, ViewStates, NoWindow

OfferInv == CountedInv /\ ViewFollowsSession /\ WithdrawnOffersNothing

LEMMA WithdrawnOffersStep ==
  ASSUME ~AppCaller, OfferInv, [Next]_vars
  PROVE  WithdrawnOffersNothing'
<1> USE DEF OfferInv, WithdrawnOffersNothing, Offered, engine, store, link, peer, quitter
<1>1. CASE ReceiveKK
  BY <1>1, ViewAfter, WithdrawnAfter DEF ReceiveKK, NothingUsable, Arrives, DialEnds,
      BackToCaller, NoPeerClose
<1>2. CASE ReceiveReady
  BY <1>2, ViewAfter, WithdrawnAfter DEF ReceiveReady, Arrives, DialEnds, BackToCaller,
      NoPeerClose, SendFails, up
<1>3. CASE ReceiveCloseForReady
  BY <1>3, ViewAfter, WithdrawnAfter DEF ReceiveCloseForReady, Arrives, DialEnds,
      BackToCaller, ApplyPeerClose, RevokePairing, Heard
<1>4. CASE ReceiveViolationForReady
  BY <1>4, ViewAfter, WithdrawnAfter DEF ReceiveViolationForReady, DialEnds, BackToCaller,
      NoPeerClose, SendFails, up
<1>5. CASE ReadyFails
  BY <1>5, ViewAfter, WithdrawnAfter DEF ReadyFails, NothingUsable, Arrives, DialEnds,
      BackToCaller, NoPeerClose
<1>6. CASE EndEarlyViolation
  BY <1>6, ViewAfter, WithdrawnAfter DEF EndEarlyViolation, Crossing, Arrives, DialEnds,
      BackToCaller, NoPeerClose, ApplyPeerClose, RevokePairing, Heard
<1>7. CASE OpeningDone
  BY <1>7, ViewAfter, WithdrawnAfter DEF OpeningDone, Disconnect, SendFails, up,
      FinishLocal, Finish, GiveBackPlace, BackToCaller, NoPeerClose
<1>8. CASE CloseIfWithdrawn
  BY <1>8, ViewAfter, WithdrawnAfter DEF CloseIfWithdrawn, Disconnect, SendFails, up,
      FinishLocal, Finish, GiveBackPlace, BackToCaller, NoPeerClose
<1>9. CASE EndClosing
  BY <1>9, ViewAfter, WithdrawnAfter DEF EndClosing, Crossing, Arrives, Heard,
      ActOnCrossing, ApplyPeerClose, RevokePairing, FinishPeer, FinishLocal, Finish,
      GiveBackPlace, BackToCaller, NoPeerClose
<1>10. CASE EndViolating
  BY <1>10, ViewAfter, WithdrawnAfter DEF EndViolating, Crossing, Arrives, Heard,
      ActOnCrossing, ApplyPeerClose, RevokePairing, FinishPeer, FinishViolation, Finish,
      GiveBackPlace, BackToCaller, NoPeerClose
<1>11. CASE EndForgetting
  BY <1>11, ViewAfter, WithdrawnAfter DEF EndForgetting, Finish, GiveBackPlace,
      BackToCaller, RevokePairing
<1>12. CASE SendNotice
  BY <1>12, ViewAfter, WithdrawnAfter DEF SendNotice, Arrives, NothingUsable, SendFails,
      up, BackToCaller
<1>13. CASE EndNotice
  BY <1>13, ViewAfter, WithdrawnAfter DEF EndNotice, BackToCaller, RevokePairing
<1>14. CASE ReceiveStatus
  <2>1. view.state = "connected" /\ view' = view
    BY <1>14 DEF ReceiveStatus, HeldReceives, ViewFollowsSession, Healthy, HealthyWaits
  <2> QED
    BY <2>1
<1>15. CASE ReceiveResult
  BY <1>15, ViewAfter, WithdrawnAfter DEF ReceiveResult, HeldReceives, Arrives, OutcomeOf
<1>16. CASE ReceivePeerClose
  BY <1>16, ViewAfter, WithdrawnAfter DEF ReceivePeerClose, HeldReceives, Arrives, Heard,
      ApplyPeerClose, RevokePairing, FinishPeer, Finish, GiveBackPlace, BackToCaller
<1>17. CASE ReceiveViolation
  BY <1>17, ViewAfter, WithdrawnAfter DEF ReceiveViolation, SendFails, up, FinishViolation,
      Finish, GiveBackPlace, BackToCaller, NoPeerClose
<1>18. CASE SessionLost
  BY <1>18, ViewAfter, WithdrawnAfter DEF SessionLost, NothingUsable, Arrives, FinishLoss,
      Finish, GiveBackPlace, BackToCaller, NoPeerClose
<1>19. CASE CloseIfForgotten
  BY <1>19, ViewAfter, WithdrawnAfter DEF CloseIfForgotten, SendFails, up, Disconnect,
      FinishLocal, Finish, GiveBackPlace, BackToCaller, NoPeerClose
<1>20. CASE IgnoreWhileClosing
  BY <1>20, ViewAfter, WithdrawnAfter DEF IgnoreWhileClosing, Ignored
<1>21. CASE \E seen \in SUBSET Sights, w \in BOOLEAN, c \in BOOLEAN : DialNotAdmitted(seen, w, c)
  <2>1. PICK seen \in SUBSET Sights, w \in BOOLEAN, c \in BOOLEAN : DialNotAdmitted(seen, w, c)
    BY <1>21
  <2>2. w = FALSE
    BY <2>1 DEF DialNotAdmitted
  <2>3. view'.state = "withdrawn" => view.state = "withdrawn"
    BY <2>1, <2>2, WithdrawnAfter DEF DialNotAdmitted
  <2>4. pairing' = pairing /\ (sighting' => sighting)
    BY <2>1 DEF DialNotAdmitted
  <2> QED
    BY <2>3, <2>4
<1>22. CASE \E seen \in SUBSET Sights, c \in BOOLEAN : DialUnreachable(seen, c)
  <2>1. PICK seen \in SUBSET Sights, c \in BOOLEAN : DialUnreachable(seen, c)
    BY <1>22
  <2>2. view'.state = "withdrawn" => view.state = "withdrawn"
    BY <2>1, WithdrawnAfter DEF DialUnreachable
  <2>3. pairing' = pairing /\ sighting' = sighting
    BY <2>1 DEF DialUnreachable
  <2> QED
    BY <2>2, <2>3
<1>23. CASE \E seen \in SUBSET Sights, c \in BOOLEAN : Dial(seen, c)
  <2>1. PICK seen \in SUBSET Sights, c \in BOOLEAN : Dial(seen, c)
    BY <1>23
  <2>2. view'.state = "withdrawn" => view.state = "withdrawn"
    BY <2>1, WithdrawnAfter DEF Dial
  <2>3. pairing' = pairing /\ sighting' = sighting
    BY <2>1 DEF Dial
  <2> QED
    BY <2>2, <2>3
<1>24. CASE DialNotice
  BY <1>24, ViewAfter, WithdrawnAfter DEF DialNotice, CanAct
<1>25. CASE Execute
  BY <1>25, ViewAfter, WithdrawnAfter DEF Execute, SendFails, up, GiveBackPlace,
      BackToCaller, NoPeerClose
<1>26. CASE CallerDisconnects
  BY <1>26, ViewAfter, WithdrawnAfter DEF CallerDisconnects, Disconnect, SendFails, up,
      FinishLocal, Finish, GiveBackPlace, BackToCaller, NoPeerClose
<1>27. CASE CallerDropsSession
  BY <1>27, ViewAfter, WithdrawnAfter DEF CallerDropsSession, GiveBackPlace, BackToCaller,
      NoPeerClose
<1>28. CASE PhoneSteps
  BY <1>28, PhoneLeavesEngine DEF NotTheEngine
<1>29. CASE UserForgets
  BY <1>29, ViewAfter, WithdrawnAfter DEF UserForgets
<1>30. CASE NoticeExpires
  BY <1>30, ViewAfter, WithdrawnAfter DEF NoticeExpires
<1>31. CASE QuitRaises
  BY <1>31, ViewAfter, WithdrawnAfter DEF QuitRaises
<1>32. CASE QuitReturns
  BY <1>32, ViewAfter, WithdrawnAfter DEF QuitReturns
<1>33. CASE Exit
  BY <1>33, ViewAfter, WithdrawnAfter DEF Exit
<1>34. CASE LinkFails
  BY <1>34, ViewAfter, WithdrawnAfter DEF LinkFails, NotTheEngine
<1>35. CASE Tick
  BY <1>35, ViewAfter, WithdrawnAfter DEF Tick
<1>36. CASE UNCHANGED vars
  BY <1>36 DEF vars
<1> QED
  BY <1>1, <1>2, <1>3, <1>4, <1>5, <1>6, <1>7, <1>8, <1>9, <1>10, <1>11, <1>12, <1>13,
     <1>14, <1>15, <1>16, <1>17, <1>18, <1>19, <1>20, <1>21, <1>22, <1>23, <1>24, <1>25,
     <1>26, <1>27, <1>28, <1>29, <1>30, <1>31, <1>32, <1>33, <1>34, <1>35, <1>36
  DEF Next, WaitEnds, SessionSteps, CallerSteps

\* In a process of the agent, once the custodian withdrew or said its card is
\* unavailable nothing is offered on its card until it announces itself again.
THEOREM WithdrawnOffersNone == ~AppCaller => (Spec => []WithdrawnOffersNothing)
<1> SUFFICES ASSUME ~AppCaller PROVE Spec => []WithdrawnOffersNothing
  OBVIOUS
<1>1. Init => OfferInv
  <2> SUFFICES ASSUME Init PROVE OfferInv
    OBVIOUS
  <2>1. view.state = "idle" /\ pc = "idle"
    BY DEF Init, NewView
  <2> QED
    BY <2>1, CountedInit
    DEF OfferInv, ViewFollowsSession, WithdrawnOffersNothing, Healthy, HealthyWaits
<1>2. OfferInv /\ [Next]_vars => OfferInv'
  BY CountedStep, ViewFollowsStep, WithdrawnOffersStep DEF OfferInv
<1>3. OfferInv => WithdrawnOffersNothing
  BY DEF OfferInv
<1> QED
  BY <1>1, <1>2, <1>3, PTL DEF Spec

-----------------------------------------------------------------------------
(* A revocation that was heard is heeded.                                    *)

LEMMA RevocationStep ==
  ASSUME MaxRefusedWrites = 0, CountedInv, RevocationHeeded, [Next]_vars
  PROVE  RevocationHeeded'
<1>R. ~CanRefuse
  BY SessionAssumption DEF CountedInv, TypeOK, StoreTypeOK, CanRefuse
<1>S. /\ UNCHANGED <<pairing, revokeHeard>> => RevocationHeeded'
      /\ NoPeerClose => RevocationHeeded'
      /\ \A reason : Heard(reason) /\ ApplyPeerClose(reason) => RevocationHeeded'
      /\ RevokePairing => RevocationHeeded'
  BY <1>R DEF RevocationHeeded, NoPeerClose, Heard, ApplyPeerClose, RevokePairing, store
<1>1. CASE ReceiveKK
  BY <1>1, <1>S DEF ReceiveKK, store
<1>2. CASE ReceiveReady
  BY <1>2, <1>S DEF ReceiveReady, store
<1>3. CASE ReceiveCloseForReady
  BY <1>3, <1>S DEF ReceiveCloseForReady
<1>4. CASE ReceiveViolationForReady
  BY <1>4, <1>S DEF ReceiveViolationForReady, store
<1>5. CASE ReadyFails
  BY <1>5, <1>S DEF ReadyFails, store
<1>6. CASE EndEarlyViolation
  BY <1>6, <1>S DEF EndEarlyViolation
<1>7. CASE OpeningDone
  BY <1>7, <1>S DEF OpeningDone, store
<1>8. CASE CloseIfWithdrawn
  BY <1>8, <1>S DEF CloseIfWithdrawn, store
<1>9. CASE EndClosing
  BY <1>9, <1>S DEF EndClosing, ActOnCrossing
<1>10. CASE EndViolating
  BY <1>10, <1>S DEF EndViolating, ActOnCrossing
<1>11. CASE EndForgetting
  BY <1>11, <1>S DEF EndForgetting
<1>12. CASE SendNotice
  BY <1>12, <1>S DEF SendNotice, store
<1>13. CASE EndNotice
  BY <1>13, <1>S DEF EndNotice
<1>14. CASE ReceiveStatus
  BY <1>14, <1>S DEF ReceiveStatus, store
<1>15. CASE ReceiveResult
  BY <1>15, <1>S DEF ReceiveResult, store
<1>16. CASE ReceivePeerClose
  BY <1>16, <1>S DEF ReceivePeerClose
<1>17. CASE ReceiveViolation
  BY <1>17, <1>S DEF ReceiveViolation, store
<1>18. CASE SessionLost
  BY <1>18, <1>S DEF SessionLost, store
<1>19. CASE CloseIfForgotten
  BY <1>19, <1>S DEF CloseIfForgotten, store
<1>20. CASE IgnoreWhileClosing
  BY <1>20, <1>S DEF IgnoreWhileClosing, store
<1>21. CASE \E seen \in SUBSET Sights, w \in BOOLEAN, c \in BOOLEAN : DialNotAdmitted(seen, w, c)
  BY <1>21, <1>S DEF DialNotAdmitted, store
<1>22. CASE \E seen \in SUBSET Sights, c \in BOOLEAN : DialUnreachable(seen, c)
  BY <1>22, <1>S DEF DialUnreachable, store
<1>23. CASE \E seen \in SUBSET Sights, c \in BOOLEAN : Dial(seen, c)
  BY <1>23, <1>S DEF Dial, store
<1>24. CASE DialNotice
  BY <1>24, <1>S DEF DialNotice, store
<1>25. CASE Execute
  BY <1>25, <1>S DEF Execute, store
<1>26. CASE CallerDisconnects
  BY <1>26, <1>S DEF CallerDisconnects, store
<1>27. CASE CallerDropsSession
  BY <1>27, <1>S DEF CallerDropsSession, store
<1>28. CASE PhoneSteps
  BY <1>28, <1>S, PhoneLeavesEngine DEF NotTheEngine, store
<1>29. CASE UserForgets
  BY <1>29, <1>S DEF UserForgets, store, RevocationHeeded
<1>30. CASE NoticeExpires
  BY <1>30, <1>S DEF NoticeExpires, store, RevocationHeeded
<1>31. CASE QuitRaises
  BY <1>31, <1>S DEF QuitRaises, store
<1>32. CASE QuitReturns
  BY <1>32, <1>S DEF QuitReturns, store
<1>33. CASE Exit
  BY <1>33, <1>S DEF Exit, store
<1>34. CASE LinkFails
  BY <1>34, <1>S DEF LinkFails, NotTheEngine, store
<1>35. CASE Tick
  BY <1>35, <1>S DEF Tick, store
<1>36. CASE UNCHANGED vars
  BY <1>36, <1>S DEF vars, store
<1> QED
  BY <1>1, <1>2, <1>3, <1>4, <1>5, <1>6, <1>7, <1>8, <1>9, <1>10, <1>11, <1>12, <1>13,
     <1>14, <1>15, <1>16, <1>17, <1>18, <1>19, <1>20, <1>21, <1>22, <1>23, <1>24, <1>25,
     <1>26, <1>27, <1>28, <1>29, <1>30, <1>31, <1>32, <1>33, <1>34, <1>35, <1>36
  DEF Next, WaitEnds, SessionSteps, CallerSteps

\* When no store write is refused, a pairing_revoked close this endpoint received
\* leaves the pairing revoked, whichever wait received it.
THEOREM RevocationsHeeded == MaxRefusedWrites = 0 => (Spec => []RevocationHeeded)
<1> SUFFICES ASSUME MaxRefusedWrites = 0 PROVE Spec => []RevocationHeeded
  OBVIOUS
<1>1. Init => CountedInv /\ RevocationHeeded
  BY CountedInit DEF Init, RevocationHeeded
<1>2. CountedInv /\ RevocationHeeded /\ [Next]_vars => CountedInv' /\ RevocationHeeded'
  BY CountedStep, RevocationStep
<1> QED
  BY <1>1, <1>2, PTL DEF Spec

-----------------------------------------------------------------------------
(* A withdrawn view waits for an appearance.                                 *)

\* The engine dials, and holds a session, only with a view that is not withdrawn.
DialledInv == pc \in HealthyWaits \cup {"kk", "ready", "early"} => view.state # "withdrawn"

LEMMA DialledStep ==
  ASSUME CountedInv, DialledInv, [Next]_vars
  PROVE  DialledInv'
<1> USE DEF DialledInv, HealthyWaits, engine, store, link, peer, quitter
<1>1. CASE ReceiveKK
  BY <1>1 DEF ReceiveKK, DialEnds, BackToCaller, NoPeerClose
<1>2. CASE ReceiveReady
  BY <1>2, ViewAfter DEF ReceiveReady, DialEnds, BackToCaller, NoPeerClose, SendFails, up
<1>3. CASE ReceiveCloseForReady
  BY <1>3 DEF ReceiveCloseForReady, DialEnds, BackToCaller
<1>4. CASE ReceiveViolationForReady
  BY <1>4 DEF ReceiveViolationForReady, DialEnds, BackToCaller, NoPeerClose, SendFails, up
<1>5. CASE ReadyFails
  BY <1>5 DEF ReadyFails, DialEnds, BackToCaller, NoPeerClose
<1>6. CASE EndEarlyViolation
  BY <1>6 DEF EndEarlyViolation, Crossing, DialEnds, BackToCaller, NoPeerClose
<1>7. CASE OpeningDone
  BY <1>7 DEF OpeningDone, Disconnect, SendFails, up, FinishLocal, Finish, GiveBackPlace,
      BackToCaller, NoPeerClose
<1>8. CASE CloseIfWithdrawn
  BY <1>8 DEF CloseIfWithdrawn, Disconnect, SendFails, up, FinishLocal, Finish,
      GiveBackPlace, BackToCaller, NoPeerClose
<1>9. CASE EndClosing
  BY <1>9 DEF EndClosing, Crossing, ActOnCrossing, FinishPeer, FinishLocal, Finish,
      GiveBackPlace, BackToCaller, NoPeerClose
<1>10. CASE EndViolating
  BY <1>10 DEF EndViolating, Crossing, ActOnCrossing, FinishPeer, FinishViolation, Finish,
      GiveBackPlace, BackToCaller, NoPeerClose
<1>11. CASE EndForgetting
  BY <1>11 DEF EndForgetting, Finish, GiveBackPlace, BackToCaller
<1>12. CASE SendNotice
  BY <1>12 DEF SendNotice, SendFails, up, BackToCaller
<1>13. CASE EndNotice
  BY <1>13 DEF EndNotice, BackToCaller
<1>14. CASE ReceiveStatus
  BY <1>14 DEF ReceiveStatus, HeldReceives
<1>15. CASE ReceiveResult
  BY <1>15 DEF ReceiveResult, HeldReceives
<1>16. CASE ReceivePeerClose
  BY <1>16 DEF ReceivePeerClose, HeldReceives, FinishPeer, Finish, GiveBackPlace,
      BackToCaller
<1>17. CASE ReceiveViolation
  BY <1>17 DEF ReceiveViolation, SendFails, up, FinishViolation, Finish, GiveBackPlace,
      BackToCaller, NoPeerClose
<1>18. CASE SessionLost
  BY <1>18 DEF SessionLost, FinishLoss, Finish, GiveBackPlace, BackToCaller, NoPeerClose
<1>19. CASE CloseIfForgotten
  BY <1>19 DEF CloseIfForgotten, SendFails, up, Disconnect, FinishLocal, Finish,
      GiveBackPlace, BackToCaller, NoPeerClose
<1>20. CASE IgnoreWhileClosing
  BY <1>20 DEF IgnoreWhileClosing, Ignored
<1>21. CASE \E seen \in SUBSET Sights, w \in BOOLEAN, c \in BOOLEAN : DialNotAdmitted(seen, w, c)
  <2>1. PICK seen \in SUBSET Sights, w \in BOOLEAN, c \in BOOLEAN : DialNotAdmitted(seen, w, c)
    BY <1>21
  <2> QED
    BY <2>1 DEF DialNotAdmitted, CanAct
<1>22. CASE \E seen \in SUBSET Sights, c \in BOOLEAN : DialUnreachable(seen, c)
  <2>1. PICK seen \in SUBSET Sights, c \in BOOLEAN : DialUnreachable(seen, c)
    BY <1>22
  <2> QED
    BY <2>1 DEF DialUnreachable, CanAct
<1>23. CASE \E seen \in SUBSET Sights, c \in BOOLEAN : Dial(seen, c)
  <2>1. PICK seen \in SUBSET Sights, c \in BOOLEAN : Dial(seen, c)
    BY <1>23
  <2>2. view \in Views /\ now \in Nat
    BY SessionAssumption DEF CountedInv, TypeOK, CallerTypeOK
  <2>3. Looked(seen, FALSE) \in Views
    BY <2>2, ViewOpsTyped DEF Looked
  <2>4. view'.state # "withdrawn"
    BY <2>1, <2>2, <2>3, AdmittedNotWithdrawn DEF Dial
  <2> QED
    BY <2>4
<1>24. CASE DialNotice
  BY <1>24 DEF DialNotice, CanAct
<1>25. CASE Execute
  BY <1>25 DEF Execute, SendFails, up, GiveBackPlace, BackToCaller, NoPeerClose
<1>26. CASE CallerDisconnects
  BY <1>26 DEF CallerDisconnects, Disconnect, SendFails, up, FinishLocal, Finish,
      GiveBackPlace, BackToCaller, NoPeerClose
<1>27. CASE CallerDropsSession
  BY <1>27 DEF CallerDropsSession, GiveBackPlace, BackToCaller, NoPeerClose
<1>28. CASE PhoneSteps
  BY <1>28, PhoneLeavesEngine DEF NotTheEngine
<1>29. CASE UserForgets
  BY <1>29 DEF UserForgets
<1>30. CASE NoticeExpires
  BY <1>30 DEF NoticeExpires
<1>31. CASE QuitRaises
  BY <1>31 DEF QuitRaises
<1>32. CASE QuitReturns
  BY <1>32 DEF QuitReturns
<1>33. CASE Exit
  BY <1>33 DEF Exit
<1>34. CASE LinkFails
  BY <1>34 DEF LinkFails, NotTheEngine
<1>35. CASE Tick
  BY <1>35 DEF Tick
<1>36. CASE UNCHANGED vars
  BY <1>36 DEF vars
<1> QED
  BY <1>1, <1>2, <1>3, <1>4, <1>5, <1>6, <1>7, <1>8, <1>9, <1>10, <1>11, <1>12, <1>13,
     <1>14, <1>15, <1>16, <1>17, <1>18, <1>19, <1>20, <1>21, <1>22, <1>23, <1>24, <1>25,
     <1>26, <1>27, <1>28, <1>29, <1>30, <1>31, <1>32, <1>33, <1>34, <1>35, <1>36
  DEF Next, WaitEnds, SessionSteps, CallerSteps

\* What a look with nothing new in sight, and the dial it may admit, make of a
\* withdrawn view: nothing.
LEMMA WithdrawnStays ==
  ASSUME CountedInv, view.state = "withdrawn",
         NEW seen \in SUBSET Sights, NEW w \in BOOLEAN, NEW c \in BOOLEAN
  PROVE  LET dialled == AfterDialAdmitted(Looked(seen, w), now, c)
         IN  /\ dialled.inSight = seen
             /\ ~Appeared(view, seen) => dialled.state = "withdrawn"
             /\ DialFailed(dialled, now).inSight = seen
             /\ ~Appeared(view, seen) => DialFailed(dialled, now).state = "withdrawn"
<1> USE DEF Views, ViewStates, NoWindow, InState
<1>1. view \in Views /\ now \in Nat
  BY SessionAssumption DEF CountedInv, TypeOK, CallerTypeOK
<1>2. /\ Look(view, seen) \in Views /\ Look(view, seen).inSight = seen
      /\ ~Appeared(view, seen) => Look(view, seen).state = "withdrawn"
  BY <1>1 DEF Look
<1>3. ASSUME NEW v \in Views, v.inSight = seen
      PROVE  /\ WithdrawnRecordMatched(v) \in Views /\ WithdrawnRecordMatched(v).inSight = seen
             /\ v.state = "withdrawn" => WithdrawnRecordMatched(v).state = "withdrawn"
  BY <1>3 DEF WithdrawnRecordMatched
<1>4. /\ Looked(seen, w) \in Views /\ Looked(seen, w).inSight = seen
      /\ ~Appeared(view, seen) => Looked(seen, w).state = "withdrawn"
  BY <1>2, <1>3 DEF Looked
<1>5. ASSUME NEW v \in Views, v.inSight = seen
      PROVE  /\ AfterDialAdmitted(v, now, c) \in Views /\ AfterDialAdmitted(v, now, c).inSight = seen
             /\ v.state = "withdrawn" => AfterDialAdmitted(v, now, c).state = "withdrawn"
  BY <1>5, <1>1 DEF AfterDialAdmitted
<1>6. ASSUME NEW v \in Views, v.inSight = seen
      PROVE  /\ DialFailed(v, now).inSight = seen
             /\ v.state = "withdrawn" => DialFailed(v, now).state = "withdrawn"
  BY <1>6, <1>1 DEF DialFailed
<1> DEFINE dialled == AfterDialAdmitted(Looked(seen, w), now, c)
<1>7. /\ dialled \in Views /\ dialled.inSight = seen
      /\ ~Appeared(view, seen) => dialled.state = "withdrawn"
  BY <1>4, <1>5
<1>8. /\ DialFailed(dialled, now).inSight = seen
      /\ ~Appeared(view, seen) => DialFailed(dialled, now).state = "withdrawn"
  BY <1>6, <1>7
<1> QED
  BY <1>7, <1>8

LEMMA WithdrawnLeftStep ==
  ASSUME CountedInv, DialledInv, [Next]_vars,
         view.state = "withdrawn", view'.state # "withdrawn"
  PROVE  Appeared(view, view'.inSight)
<1> USE DEF DialledInv, HealthyWaits, engine, store, link, peer, quitter
<1>1. CASE ReceiveKK
  BY <1>1 DEF ReceiveKK, DialEnds, BackToCaller, NoPeerClose
<1>2. CASE ReceiveReady
  BY <1>2 DEF ReceiveReady, DialEnds, BackToCaller, NoPeerClose
<1>3. CASE ReceiveCloseForReady
  BY <1>3 DEF ReceiveCloseForReady, DialEnds, BackToCaller
<1>4. CASE ReceiveViolationForReady
  BY <1>4 DEF ReceiveViolationForReady, DialEnds, BackToCaller, NoPeerClose
<1>5. CASE ReadyFails
  BY <1>5 DEF ReadyFails, DialEnds, BackToCaller, NoPeerClose
<1>6. CASE EndEarlyViolation
  BY <1>6 DEF EndEarlyViolation, Crossing, DialEnds, BackToCaller, NoPeerClose
<1>7. CASE OpeningDone
  BY <1>7 DEF OpeningDone, Disconnect, FinishLocal, Finish, GiveBackPlace, BackToCaller,
      NoPeerClose
<1>8. CASE CloseIfWithdrawn
  BY <1>8 DEF CloseIfWithdrawn, Disconnect, FinishLocal, Finish, GiveBackPlace,
      BackToCaller, NoPeerClose
<1>9. CASE EndClosing
  BY <1>9 DEF EndClosing, Crossing, ActOnCrossing, FinishPeer, FinishLocal, Finish,
      GiveBackPlace, BackToCaller, NoPeerClose
<1>10. CASE EndViolating
  BY <1>10 DEF EndViolating, Crossing, ActOnCrossing, FinishPeer, FinishViolation, Finish,
      GiveBackPlace, BackToCaller, NoPeerClose
<1>11. CASE EndForgetting
  BY <1>11 DEF EndForgetting, Finish, GiveBackPlace, BackToCaller
<1>12. CASE SendNotice
  BY <1>12 DEF SendNotice, BackToCaller
<1>13. CASE EndNotice
  BY <1>13 DEF EndNotice, BackToCaller
<1>14. CASE ReceiveStatus
  BY <1>14 DEF ReceiveStatus, HeldReceives
<1>15. CASE ReceiveResult
  BY <1>15 DEF ReceiveResult, HeldReceives
<1>16. CASE ReceivePeerClose
  BY <1>16 DEF ReceivePeerClose, HeldReceives, FinishPeer, Finish, GiveBackPlace,
      BackToCaller
<1>17. CASE ReceiveViolation
  BY <1>17 DEF ReceiveViolation, FinishViolation, Finish, GiveBackPlace, BackToCaller,
      NoPeerClose
<1>18. CASE SessionLost
  BY <1>18 DEF SessionLost, FinishLoss, Finish, GiveBackPlace, BackToCaller, NoPeerClose
<1>19. CASE CloseIfForgotten
  BY <1>19 DEF CloseIfForgotten, Disconnect, FinishLocal, Finish, GiveBackPlace,
      BackToCaller, NoPeerClose
<1>20. CASE IgnoreWhileClosing
  BY <1>20 DEF IgnoreWhileClosing, Ignored
<1>21. CASE \E seen \in SUBSET Sights, w \in BOOLEAN, c \in BOOLEAN : DialNotAdmitted(seen, w, c)
  <2>1. PICK seen \in SUBSET Sights, w \in BOOLEAN, c \in BOOLEAN : DialNotAdmitted(seen, w, c)
    BY <1>21
  <2>2. FALSE \in BOOLEAN
    OBVIOUS
  <2> QED
    BY <2>1, <2>2, WithdrawnStays DEF DialNotAdmitted
<1>22. CASE \E seen \in SUBSET Sights, c \in BOOLEAN : DialUnreachable(seen, c)
  <2>1. PICK seen \in SUBSET Sights, c \in BOOLEAN : DialUnreachable(seen, c)
    BY <1>22
  <2>2. FALSE \in BOOLEAN
    OBVIOUS
  <2> QED
    BY <2>1, <2>2, WithdrawnStays DEF DialUnreachable
<1>23. CASE \E seen \in SUBSET Sights, c \in BOOLEAN : Dial(seen, c)
  <2>1. PICK seen \in SUBSET Sights, c \in BOOLEAN : Dial(seen, c)
    BY <1>23
  <2>2. FALSE \in BOOLEAN
    OBVIOUS
  <2> QED
    BY <2>1, <2>2, WithdrawnStays DEF Dial
<1>24. CASE DialNotice
  BY <1>24 DEF DialNotice
<1>25. CASE Execute
  BY <1>25 DEF Execute, GiveBackPlace, BackToCaller, NoPeerClose
<1>26. CASE CallerDisconnects
  BY <1>26 DEF CallerDisconnects, Disconnect, FinishLocal, Finish, GiveBackPlace,
      BackToCaller, NoPeerClose
<1>27. CASE CallerDropsSession
  BY <1>27 DEF CallerDropsSession, GiveBackPlace, BackToCaller, NoPeerClose
<1>28. CASE PhoneSteps
  BY <1>28, PhoneLeavesEngine DEF NotTheEngine
<1>29. CASE UserForgets
  BY <1>29 DEF UserForgets
<1>30. CASE NoticeExpires
  BY <1>30 DEF NoticeExpires
<1>31. CASE QuitRaises
  BY <1>31 DEF QuitRaises
<1>32. CASE QuitReturns
  BY <1>32 DEF QuitReturns
<1>33. CASE Exit
  BY <1>33 DEF Exit
<1>34. CASE LinkFails
  BY <1>34 DEF LinkFails, NotTheEngine
<1>35. CASE Tick
  BY <1>35 DEF Tick
<1>36. CASE UNCHANGED vars
  BY <1>36 DEF vars
<1> QED
  BY <1>1, <1>2, <1>3, <1>4, <1>5, <1>6, <1>7, <1>8, <1>9, <1>10, <1>11, <1>12, <1>13,
     <1>14, <1>15, <1>16, <1>17, <1>18, <1>19, <1>20, <1>21, <1>22, <1>23, <1>24, <1>25,
     <1>26, <1>27, <1>28, <1>29, <1>30, <1>31, <1>32, <1>33, <1>34, <1>35, <1>36
  DEF Next, WaitEnds, SessionSteps, CallerSteps

\* A withdrawn view is left only when discovery shows something new, in every
\* process, whatever consumers ask for and however long it takes.
THEOREM WithdrawalHolds == Spec => WithdrawnUntilAppearance
<1>1. Init => CountedInv /\ DialledInv
  BY CountedInit DEF Init, DialledInv, NewView
<1>2. CountedInv /\ DialledInv /\ [Next]_vars => CountedInv' /\ DialledInv'
  BY CountedStep, DialledStep
<1>3. CountedInv /\ DialledInv /\ [Next]_vars
        => [view.state = "withdrawn" /\ view'.state # "withdrawn"
              => Appeared(view, view'.inSight) \/ view' = NewView]_vars
  BY WithdrawnLeftStep
<1> QED
  BY <1>1, <1>2, <1>3, PTL DEF Spec, WithdrawnUntilAppearance

-----------------------------------------------------------------------------
(* A completed operation was performed.                                      *)

\* Every result under way that says done is of an operation the card performed.
ResultsPerformed ==
  \A i \in 1..Len(toPc) : toPc[i].kind = "result" /\ toPc[i].good => toPc[i].op \in executed

PerformedInv == CountedInv /\ ResultsPerformed /\ CompletedWasPerformed

\* Results stay performed when frames are read, dropped or appended.
LEMMA ResultsKept ==
  ASSUME CountedInv, ResultsPerformed, executed \subseteq executed'
  PROVE  /\ toPc' = toPc => ResultsPerformed'
         /\ toPc' = <<>> => ResultsPerformed'
         /\ toPc # <<>> /\ toPc' = Tail(toPc) => ResultsPerformed'
         /\ \A f \in Frames : /\ toPc' = Append(toPc, f)
                              /\ f.kind = "result" /\ f.good => f.op \in executed'
                              => ResultsPerformed'
<1> USE DEF CountedInv, TypeOK, LinkTypeOK, ResultsPerformed
<1>1. toPc' = toPc => ResultsPerformed'
  OBVIOUS
<1>2. toPc' = <<>> => ResultsPerformed'
  OBVIOUS
<1>3. toPc # <<>> /\ toPc' = Tail(toPc) => ResultsPerformed'
  OBVIOUS
<1>4. ASSUME NEW f \in Frames, toPc' = Append(toPc, f),
             f.kind = "result" /\ f.good => f.op \in executed'
      PROVE  ResultsPerformed'
  BY <1>4
<1> QED
  BY <1>1, <1>2, <1>3, <1>4

LEMMA PerformedStep ==
  ASSUME PerformedInv, [Next]_vars
  PROVE  ResultsPerformed' /\ CompletedWasPerformed'
<1>C. CountedInv /\ ResultsPerformed /\ CompletedWasPerformed
  BY DEF PerformedInv
<1>K. /\ UNCHANGED executed => executed \subseteq executed'
      /\ outcome' = outcome /\ executed \subseteq executed' => CompletedWasPerformed'
      /\ \A n : outcome' = [outcome EXCEPT ![n] = "lost"] /\ UNCHANGED executed
                  => CompletedWasPerformed'
  BY <1>C DEF CompletedWasPerformed, CountedInv, TypeOK, EngineTypeOK
<1>E. /\ UNCHANGED executed /\ toPc' \in {toPc, <<>>} => ResultsPerformed'
      /\ UNCHANGED executed /\ toPc # <<>> /\ toPc' = Tail(toPc) => ResultsPerformed'
  BY <1>C, <1>K, ResultsKept
<1>F. ASSUME UNCHANGED executed
      PROVE  /\ \A kind \in Kinds \ {"result"} : PhoneSends(Plain(kind)) => ResultsPerformed'
             /\ \A reason \in Reasons : PhoneSends(Close(reason)) => ResultsPerformed'
             /\ \A reason \in Reasons \cup {NoReason} : PhoneSends(Echo(reason)) => ResultsPerformed'
             /\ \A present \in BOOLEAN : PhoneSends(Status(present)) => ResultsPerformed'
  <2>1. ASSUME NEW f \in Frames, f.kind # "result", PhoneSends(f) PROVE ResultsPerformed'
    BY <1>C, <1>F, <1>K, <2>1, ResultsKept DEF PhoneSends
  <2>2. /\ \A kind : Plain(kind).kind = kind
        /\ \A reason : Close(reason).kind # "result" /\ Echo(reason).kind # "result"
        /\ \A present : Status(present).kind # "result"
    BY DEF Plain, Close, Echo, Status
  <2> QED
    BY <2>1, <2>2, FramesTyped
<1>U. UNCHANGED <<outcome, toPc, executed>> => ResultsPerformed' /\ CompletedWasPerformed'
  BY <1>E, <1>K
<1> USE DEF engine, store, link, peer, quitter
<1>1. CASE ReceiveKK
  BY <1>1, <1>E, <1>K DEF ReceiveKK, NothingUsable, Arrives, DialEnds, BackToCaller
<1>2. CASE ReceiveReady
  BY <1>2, <1>E, <1>K DEF ReceiveReady, Arrives, DialEnds, BackToCaller
<1>3. CASE ReceiveCloseForReady
  BY <1>3, <1>E, <1>K DEF ReceiveCloseForReady, Arrives, DialEnds, BackToCaller
<1>4. CASE ReceiveViolationForReady
  BY <1>4, <1>E, <1>K DEF ReceiveViolationForReady, DialEnds, BackToCaller
<1>5. CASE ReadyFails
  BY <1>5, <1>E, <1>K DEF ReadyFails, NothingUsable, Arrives, DialEnds, BackToCaller
<1>6. CASE EndEarlyViolation
  BY <1>6, <1>E, <1>K DEF EndEarlyViolation, Crossing, Arrives, DialEnds, BackToCaller
<1>7. CASE OpeningDone
  BY <1>7, <1>E, <1>K DEF OpeningDone, Disconnect, FinishLocal, Finish, BackToCaller
<1>8. CASE CloseIfWithdrawn
  BY <1>8, <1>E, <1>K DEF CloseIfWithdrawn, Disconnect, FinishLocal, Finish, BackToCaller
<1>9. CASE EndClosing
  BY <1>9, <1>E, <1>K DEF EndClosing, Crossing, Arrives, ActOnCrossing, FinishPeer,
      FinishLocal, Finish, BackToCaller
<1>10. CASE EndViolating
  BY <1>10, <1>E, <1>K DEF EndViolating, Crossing, Arrives, ActOnCrossing, FinishPeer,
      FinishViolation, Finish, BackToCaller
<1>11. CASE EndForgetting
  BY <1>11, <1>E, <1>K DEF EndForgetting, Finish, BackToCaller
<1>12. CASE SendNotice
  BY <1>12, <1>E, <1>K DEF SendNotice, Arrives, NothingUsable, BackToCaller
<1>13. CASE EndNotice
  BY <1>13, <1>E, <1>K DEF EndNotice, BackToCaller
<1>14. CASE ReceiveStatus
  BY <1>14, <1>E, <1>K DEF ReceiveStatus, HeldReceives, Arrives
<1>15. CASE ReceiveResult
  <2>1. ResultsPerformed'
    BY <1>15, <1>E DEF ReceiveResult, HeldReceives, Arrives
  <2>2. Head(toPc).good => Head(toPc).op \in executed
    BY <1>15, <1>C
    DEF ReceiveResult, HeldReceives, Arrives, ResultsPerformed, CountedInv, TypeOK, LinkTypeOK
  <2>3. CASE Head(toPc).op = op /\ op # 0
    <3>1. outcome' = [outcome EXCEPT ![op] = OutcomeOf(Head(toPc))] /\ executed' = executed
      BY <1>15, <2>3 DEF ReceiveResult
    <3>2. OutcomeOf(Head(toPc)) = "completed" => op \in executed
      BY <2>2, <2>3 DEF OutcomeOf
    <3>3. outcome \in [OpIds -> {"none", "completed", "declined", "lost"}]
      BY <1>C DEF CountedInv, TypeOK, EngineTypeOK
    <3> QED
      BY <2>1, <3>1, <3>2, <3>3, <1>C DEF CompletedWasPerformed
  <2>4. CASE ~(Head(toPc).op = op /\ op # 0)
    BY <1>15, <2>1, <2>4, <1>K DEF ReceiveResult
  <2> QED
    BY <2>3, <2>4
<1>16. CASE ReceivePeerClose
  BY <1>16, <1>E, <1>K DEF ReceivePeerClose, HeldReceives, Arrives, FinishPeer, Finish,
      BackToCaller
<1>17. CASE ReceiveViolation
  BY <1>17, <1>E, <1>K DEF ReceiveViolation, FinishViolation, Finish, BackToCaller
<1>18. CASE SessionLost
  BY <1>18, <1>E, <1>K DEF SessionLost, NothingUsable, Arrives, FinishLoss, Finish,
      BackToCaller
<1>19. CASE CloseIfForgotten
  BY <1>19, <1>E, <1>K DEF CloseIfForgotten, Disconnect, FinishLocal, Finish, BackToCaller
<1>20. CASE IgnoreWhileClosing
  BY <1>20, <1>E, <1>K DEF IgnoreWhileClosing, Ignored
<1>21. CASE \E seen \in SUBSET Sights, w \in BOOLEAN, c \in BOOLEAN : DialNotAdmitted(seen, w, c)
  <2>1. PICK seen \in SUBSET Sights, w \in BOOLEAN, c \in BOOLEAN : DialNotAdmitted(seen, w, c)
    BY <1>21
  <2> QED
    BY <2>1, <1>E, <1>K DEF DialNotAdmitted
<1>22. CASE \E seen \in SUBSET Sights, c \in BOOLEAN : DialUnreachable(seen, c)
  <2>1. PICK seen \in SUBSET Sights, c \in BOOLEAN : DialUnreachable(seen, c)
    BY <1>22
  <2> QED
    BY <2>1, <1>E, <1>K DEF DialUnreachable
<1>23. CASE \E seen \in SUBSET Sights, c \in BOOLEAN : Dial(seen, c)
  <2>1. PICK seen \in SUBSET Sights, c \in BOOLEAN : Dial(seen, c)
    BY <1>23
  <2> QED
    BY <2>1, <1>E, <1>K DEF Dial
<1>24. CASE DialNotice
  BY <1>24, <1>E, <1>K DEF DialNotice
<1>25. CASE Execute
  BY <1>25, <1>E, <1>K DEF Execute, BackToCaller
<1>26. CASE CallerDisconnects
  BY <1>26, <1>E, <1>K DEF CallerDisconnects, Disconnect, FinishLocal, Finish, BackToCaller
<1>27. CASE CallerDropsSession
  BY <1>27, <1>E, <1>K DEF CallerDropsSession, BackToCaller
<1>28. CASE PhoneShakes
  <2>1. UNCHANGED <<outcome, executed>>
    BY <1>28 DEF PhoneShakes, NotTheEngine
  <2>2. ResultsPerformed'
    BY <1>28, <1>E, <1>F, <2>1 DEF PhoneShakes, Kinds
  <2> QED
    BY <2>1, <2>2, <1>K
<1>29. CASE PhoneReady
  <2>1. UNCHANGED <<outcome, executed>>
    BY <1>29 DEF PhoneReady, NotTheEngine
  <2>2. ResultsPerformed'
    BY <1>29, <1>E, <1>F, <2>1 DEF PhoneReady, Kinds
  <2> QED
    BY <2>1, <2>2, <1>K
<1>30. CASE \E reason \in Reasons : PhoneCloses(reason)
  <2>1. PICK reason \in Reasons : PhoneCloses(reason)
    BY <1>30
  <2>2. UNCHANGED <<outcome, executed>>
    BY <2>1 DEF PhoneCloses, NotTheEngine
  <2>3. ResultsPerformed'
    BY <2>1, <2>2, <1>F DEF PhoneCloses, Kinds
  <2> QED
    BY <2>2, <2>3, <1>K
<1>31. CASE \E kind \in {"violating", "garbled"} : PhoneMisbehaves(kind)
  <2>1. PICK kind \in {"violating", "garbled"} : PhoneMisbehaves(kind)
    BY <1>31
  <2>2. UNCHANGED <<outcome, executed>>
    BY <2>1 DEF PhoneMisbehaves, NotTheEngine
  <2>3. ResultsPerformed'
    BY <2>1, <2>2, <1>F DEF PhoneMisbehaves, Kinds
  <2> QED
    BY <2>2, <2>3, <1>K
<1>32. CASE \E present \in BOOLEAN : PhoneReports(present)
  <2>1. PICK present \in BOOLEAN : PhoneReports(present)
    BY <1>32
  <2>2. UNCHANGED <<outcome, executed>>
    BY <2>1 DEF PhoneReports, NotTheEngine
  <2>3. ResultsPerformed'
    BY <2>1, <2>2, <1>F DEF PhoneReports, Kinds
  <2> QED
    BY <2>2, <2>3, <1>K
<1>33. CASE PhoneAdmits
  BY <1>33, <1>E, <1>K DEF PhoneAdmits, PhoneReads, NotTheEngine
<1>34. CASE \E done \in BOOLEAN : PhoneFinishes(done)
  <2>1. PICK done \in BOOLEAN : PhoneFinishes(done)
    BY <1>34
  <2>2. executed \subseteq executed' /\ outcome' = outcome /\ (done => phoneOp \in executed')
    BY <2>1 DEF PhoneFinishes, NotTheEngine
  <2>3. phoneOp \in 0..MaxOps
    BY <1>C DEF CountedInv, TypeOK, PeerTypeOK
  <2>4. Result(phoneOp, done) \in Frames
    BY <2>3, FramesTyped
  <2>5. Result(phoneOp, done).good = done /\ Result(phoneOp, done).op = phoneOp
    BY DEF Result
  <2>6. ResultsPerformed'
    BY <1>C, <2>1, <2>2, <2>4, <2>5, ResultsKept DEF PhoneFinishes, PhoneSends
  <2> QED
    BY <2>2, <2>6, <1>K
<1>35. CASE PhoneReadsClose
  <2>1. UNCHANGED <<outcome, executed>>
    BY <1>35 DEF PhoneReadsClose, NotTheEngine
  <2>2. Head(toPhone).reason \in Reasons \cup {NoReason}
    <3>1. toPhone # <<>> /\ toPhone \in Seq(Frames)
      BY <1>35, <1>C DEF PhoneReadsClose, PhoneReads, CountedInv, TypeOK, LinkTypeOK
    <3>2. Head(toPhone) \in Frames
      BY <3>1
    <3> QED
      BY <3>2 DEF Frames
  <2>3. ResultsPerformed'
    BY <1>35, <1>E, <1>F, <2>1, <2>2 DEF PhoneReadsClose
  <2> QED
    BY <2>1, <2>3, <1>K
<1>36. CASE PhoneReadsEcho
  BY <1>36, <1>E, <1>K DEF PhoneReadsEcho, PhoneReads, NotTheEngine
<1>37. CASE PhonePasses
  BY <1>37, <1>E, <1>K DEF PhonePasses, PhoneReads, NotTheEngine
<1>38. CASE PhoneLosesLink
  BY <1>38, <1>E, <1>K DEF PhoneLosesLink, NotTheEngine
<1>39. CASE UserForgets
  BY <1>39, <1>E, <1>K DEF UserForgets
<1>40. CASE NoticeExpires
  BY <1>40, <1>E, <1>K DEF NoticeExpires
<1>41. CASE QuitRaises
  BY <1>41, <1>E, <1>K DEF QuitRaises
<1>42. CASE QuitReturns
  BY <1>42, <1>E, <1>K DEF QuitReturns
<1>43. CASE Exit
  BY <1>43, <1>E, <1>K DEF Exit
<1>44. CASE LinkFails
  BY <1>44, <1>E, <1>K DEF LinkFails, NotTheEngine
<1>45. CASE Tick
  BY <1>45, <1>E, <1>K DEF Tick
<1>46. CASE UNCHANGED vars
  BY <1>46, <1>U DEF vars
<1> QED
  BY <1>1, <1>2, <1>3, <1>4, <1>5, <1>6, <1>7, <1>8, <1>9, <1>10, <1>11, <1>12, <1>13,
     <1>14, <1>15, <1>16, <1>17, <1>18, <1>19, <1>20, <1>21, <1>22, <1>23, <1>24, <1>25,
     <1>26, <1>27, <1>28, <1>29, <1>30, <1>31, <1>32, <1>33, <1>34, <1>35, <1>36, <1>37,
     <1>38, <1>39, <1>40, <1>41, <1>42, <1>43, <1>44, <1>45, <1>46
  DEF Next, WaitEnds, SessionSteps, CallerSteps, PhoneSteps

\* An operation is reported completed only when the custodian's card performed
\* that very operation.
THEOREM CompletedPerformed == Spec => []CompletedWasPerformed
<1>1. Init => PerformedInv
  <2> SUFFICES ASSUME Init PROVE PerformedInv
    OBVIOUS
  <2>1. ResultsPerformed
    BY DEF Init, ResultsPerformed
  <2>2. CompletedWasPerformed
    BY DEF Init, CompletedWasPerformed
  <2> QED
    BY <2>1, <2>2, CountedInit DEF PerformedInv
<1>2. PerformedInv /\ [Next]_vars => PerformedInv'
  BY CountedStep, PerformedStep DEF PerformedInv
<1>3. PerformedInv => CompletedWasPerformed
  BY DEF PerformedInv
<1> QED
  BY <1>1, <1>2, <1>3, PTL DEF Spec
=============================================================================
