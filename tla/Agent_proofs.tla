--------------------------- MODULE Agent_proofs ---------------------------
(* Theorems about the agent, for any clients, cards and number of pairings.  *)
EXTENDS Agent, TLAPS

\* The places from which a pairing is served.
Serving == {"resync", "install", "search", "report", "follow", "read", "hold", "sign",
            "signing", "checks", "idle", "over"}

\* The type invariant with what makes it inductive: a pairing is chosen before
\* its offer, its search and its session.
TypeInv == TypeOK /\ (at \in Serving => pair \in Pairs)

\* The offer's bookkeeping: nothing else is offered while an install is under
\* way, and a closed gate leaves only what the app offers.
OfferInv ==
  /\ NothingUntracked
  /\ at = "install" => offered = {}
  /\ phase = "closed" => browser \subseteq appOffered
  /\ phase = "down" => at = "start"
  /\ ~AppWatches => appOffered = {}

-----------------------------------------------------------------------------
(* Facts about the operators.                                                *)

\* What an Option may hold.
LEMMA OptionFacts ==
  ASSUME NEW S
  PROVE  /\ {} \in Option(S)
         /\ \A x \in S : {x} \in Option(S)
         /\ \A o \in Option(S) : o \subseteq S
BY DEF Option

\* The certificate a pairing is offered on is one of its cards'.
LEMMA OfferedTyped ==
  ASSUME StoreTypeOK, NEW p \in Pairs
  PROVE  OfferedCertificate(p) \in Option(Offers)
BY OptionFacts DEF StoreTypeOK, OfferedCertificate, Offers

\* A withdrawal leaves the offer typed and nothing new in the user's store.
LEMMA WithdrawTyped ==
  ASSUME OfferTypeOK, Withdraw \/ UNCHANGED offer, appOffered' = appOffered
  PROVE  OfferTypeOK'
BY OptionFacts DEF OfferTypeOK, Withdraw, Gate, RemovalFails, offer

\* So does a withdrawal that depends on what is offered.
LEMMA WithdrawIfTyped ==
  ASSUME OfferTypeOK, NEW condition, WithdrawIf(condition), appOffered' = appOffered
  PROVE  OfferTypeOK'
<1>1. Withdraw \/ UNCHANGED offer
  BY DEF WithdrawIf
<1> QED
  BY <1>1, WithdrawTyped

\* sync_offer leaves the offer typed and goes on where it was told to, or to
\* the install first.
LEMMA SyncTyped ==
  ASSUME OfferTypeOK, StoreTypeOK, pair \in Pairs, appOffered' = appOffered,
         then \in {"search", "read", "hold", "checks"},
         NEW next \in {"search", "read", "hold"}, SyncOffer(next)
  PROVE  /\ OfferTypeOK' /\ at' \in {next, "install"}
         /\ then' \in {"search", "read", "hold", "checks"} /\ job' = job
<1> DEFINE wanted == OfferedCertificate(pair)
<1>1. wanted \in Option(Offers)
  BY OfferedTyped
<1>2. /\ (Withdraw \/ UNCHANGED offer) /\ Goes(next)
      \/ /\ (Gate({}) \/ RemovalFails \/ UNCHANGED browser) /\ offered' = {} /\ want' = wanted
         /\ at' = "install" /\ then' = next /\ UNCHANGED job
  BY DEF SyncOffer
<1> HIDE DEF wanted
<1> QED
  BY <1>1, <1>2, WithdrawTyped, OptionFacts DEF OfferTypeOK, Gate, RemovalFails, Goes

\* A session's end, and a receive on it, leave the records and the session typed.
SessionTyped ==
  /\ sess \in {"none", "open", "lost", "at_once", "local"}
  /\ heard \in Cards \cup {"unsaid", "absent"} /\ checked \in Cards \cup {"none"}

\* The peer's close.
LEMMA PeerClosesTyped ==
  ASSUME StoreTypeOK, SessionTyped, NEW reason, PeerCloses(reason)
  PROVE  StoreTypeOK' /\ SessionTyped' /\ pair' = pair
<1>1. file' \in [Pairs -> States]
  BY DEF StoreTypeOK, PeerCloses, States
<1>2. sighting' \in [Pairs -> Cards \cup {"none"}]
  BY DEF StoreTypeOK, PeerCloses
<1> QED
  BY <1>1, <1>2 DEF StoreTypeOK, SessionTyped, PeerCloses

\* The engine's own close.
LEMMA ClosesTyped ==
  ASSUME StoreTypeOK, SessionTyped, ClosesHere
  PROVE  StoreTypeOK' /\ SessionTyped' /\ pair' = pair
BY PeerClosesTyped DEF ClosesHere, StoreTypeOK, SessionTyped

\* One receive.
LEMMA ReceivesTyped ==
  ASSUME StoreTypeOK, SessionTyped, Receives
  PROVE  StoreTypeOK' /\ SessionTyped' /\ pair' = pair
<1>1. CASE SessionEnds
  BY <1>1, ClosesTyped, PeerClosesTyped DEF SessionEnds
<1>2. CASE \E status \in Cards \cup {"absent"} : Hears(status)
  BY <1>2 DEF Hears, StoreTypeOK, SessionTyped
<1>3. CASE UNCHANGED <<session, store>>
  BY <1>3 DEF session, store, StoreTypeOK, SessionTyped
<1> QED
  BY <1>1, <1>2, <1>3 DEF Receives

\* The look at the store that may close the session.
LEMMA CloseIfForgottenTyped ==
  ASSUME StoreTypeOK, SessionTyped, OfferTypeOK, appOffered' = appOffered, CloseIfForgotten
  PROVE  StoreTypeOK' /\ SessionTyped' /\ OfferTypeOK' /\ pair' = pair
<1>1. OfferTypeOK'
  BY WithdrawTyped DEF CloseIfForgotten, offer
<1>2. CASE /\ held' = file /\ UNCHANGED <<file, cert, sighting, session>>
  BY <1>1, <1>2 DEF StoreTypeOK, SessionTyped, session
<1>3. CASE /\ sess' = IF sess = "open" THEN "local" ELSE sess
           /\ \E left \in {"revoked", "forgotten"} : file' = [file EXCEPT ![pair] = left]
           /\ held' = file' /\ UNCHANGED <<cert, sighting, pair, heard, checked>>
  BY <1>1, <1>3 DEF StoreTypeOK, SessionTyped, States
<1>4. CASE ClosesHere
  BY <1>1, <1>4, ClosesTyped
<1>5. CASE UNCHANGED <<store, session>>
  BY <1>1, <1>5 DEF StoreTypeOK, SessionTyped, store, session
<1> QED
  BY <1>2, <1>3, <1>4, <1>5 DEF CloseIfForgotten

\* The idle check.
LEMMA ExpireTyped ==
  ASSUME StoreTypeOK, OfferTypeOK, appOffered' = appOffered, NEW expired, Expire(expired)
  PROVE  StoreTypeOK' /\ OfferTypeOK'
BY WithdrawIfTyped DEF Expire, StoreTypeOK, States

\* Answers leave the reply channels typed.
LEMMA AnswerTyped ==
  ASSUME NEW S, NEW answer \in Answers \cup {"dropped"},
         reply \in [Clients -> Answers \cup {"none", "dropped"}], AnswerAll(S, answer)
  PROVE  reply' \in [Clients -> Answers \cup {"none", "dropped"}]
BY DEF AnswerAll

\* The inbox with its first job taken.
LEMMA InboxFacts ==
  ASSUME inbox \in Seq(Clients), inbox # <<>>
  PROVE  {Head(inbox)} \in Option(Clients) /\ Tail(inbox) \in Seq(Clients)
<1>1. Head(inbox) \in Clients /\ Tail(inbox) \in Seq(Clients)
  OBVIOUS
<1> QED
  BY <1>1, OptionFacts

-----------------------------------------------------------------------------
(* Types.                                                                    *)

\* After a failed search the requests and their replies are typed.
LEMMA SearchAnswers ==
  ASSUME PipeTypeOK, NEW over \in {TRUE, FALSE}, AfterFailedSearch(over), UNCHANGED <<pipe, conn>>
  PROVE  PipeTypeOK'
<1> DEFINE fresh == pending = {} /\ inbox # <<>>
           waiting == IF fresh THEN {Head(inbox)} ELSE pending
<1>1. waiting \in Option(Clients) /\ (fresh => Tail(inbox) \in Seq(Clients))
  BY InboxFacts DEF PipeTypeOK
<1>2. \/ /\ pending' = waiting /\ inbox' = IF fresh THEN Tail(inbox) ELSE inbox
         /\ window' = "open" /\ UNCHANGED reply
      \/ UNCHANGED <<reply, inbox>> /\ NonePending
      \/ AnswerAll(waiting \cup Queued, "no_phone") /\ inbox' = <<>> /\ NonePending
  BY DEF AfterFailedSearch
<1>3. reply' \in [Clients -> Answers \cup {"none", "dropped"}]
  BY <1>2, AnswerTyped DEF PipeTypeOK, Answers
<1>4. inbox' \in Seq(Clients) /\ window' \in {"open", "over"}
  <2>1. inbox \in Seq(Clients) /\ <<>> \in Seq(Clients)
    BY DEF PipeTypeOK
  <2>2. (IF fresh THEN Tail(inbox) ELSE inbox) \in Seq(Clients)
    BY <1>1, <2>1
  <2> HIDE DEF fresh, waiting
  <2> QED
    BY <1>2, <2>1, <2>2 DEF NonePending
<1>5. pending' \in Option(Clients)
  <2> HIDE DEF waiting
  <2> QED
    BY <1>1, <1>2, OptionFacts DEF NonePending
<1> QED
  BY <1>3, <1>4, <1>5 DEF PipeTypeOK

\* Every step of the session thread keeps the types.
LEMMA ServeTyped ==
  ASSUME TypeInv, ServePhone
  PROVE  TypeInv'
<1> USE OptionFacts
    DEF TypeInv, TypeOK, ClientsTypeOK, PipeTypeOK, ThreadTypeOK, StoreTypeOK, OfferTypeOK, Serving,
        Places, Answers, States, Goes, clients, jobs, thread, session, store, offer
<1>0. UNCHANGED <<clients, pipe, conn, phase, appOffered>>
  BY DEF ServePhone
<1>1. CASE Purge
  BY <1>0, <1>1 DEF Purge, Withdraw, Gate, RemovalFails
<1>2. CASE LoopEnds
  BY <1>0, <1>2 DEF LoopEnds, ThreadEnds, NonePending, AnswerAll
<1>3. CASE Load
  BY <1>0, <1>3 DEF Load
<1>4. CASE Sweep
  BY <1>0, <1>4, ExpireTyped DEF Sweep
<1>5. CASE Notices
  BY <1>0, <1>5 DEF Notices
<1>6. CASE Choose
  BY <1>0, <1>6 DEF Choose
<1>7. CASE ChooseNone
  BY <1>0, <1>7 DEF ChooseNone
<1>8. CASE Unpaired
  <2>1. OfferTypeOK'
    BY <1>0, <1>8, WithdrawIfTyped DEF Unpaired
  <2>2. PipeTypeOK'
    BY <1>0, <1>8, AnswerTyped DEF Unpaired, NonePending
  <2> QED
    BY <1>0, <1>8, <2>1, <2>2 DEF Unpaired
<1>9. CASE NoPairing
  <2>1. PipeTypeOK'
    <3>1. CASE inbox = <<>>
      BY <1>0, <1>9, <3>1 DEF NoPairing
    <3>2. CASE inbox # <<>>
      BY <1>0, <1>9, <3>2, InboxFacts, AnswerTyped
      DEF NoPairing, Answer
    <3> QED
      BY <3>1, <3>2
  <2> QED
    BY <1>0, <1>9, <2>1 DEF NoPairing
<1>10. CASE Opens
  BY <1>0, <1>10 DEF Opens
<1>11. CASE Attempt
  BY <1>0, <1>11 DEF Attempt
<1>12. CASE SearchFails
  <2>1. PICK over \in {TRUE, FALSE} : AfterFailedSearch(over)
    BY <1>12 DEF SearchFails
  <2>2. PipeTypeOK'
    BY <1>0, <2>1, SearchAnswers
  <2>3. OfferTypeOK'
    BY <1>0, <1>12, WithdrawTyped DEF SearchFails
  <2>4. StoreTypeOK'
    BY <1>12, <2>1 DEF SearchFails, AfterFailedSearch
  <2>5. ThreadTypeOK' /\ at' \in {"loop", "pause"}
    BY <1>0, <2>1 DEF AfterFailedSearch
  <2> QED
    BY <1>0, <2>1, <2>2, <2>3, <2>4, <2>5
    DEF AfterFailedSearch
<1>13. CASE SearchWithdrawn
  BY <1>0, <1>13 DEF SearchWithdrawn, ThreadEnds, NonePending, AnswerAll
<1>14. CASE Pause
  <2>1. PipeTypeOK'
    BY <1>0, <1>14, InboxFacts DEF Pause
  <2> QED
    BY <1>0, <1>14, <2>1 DEF Pause
<1>15. CASE Install
  BY <1>0, <1>15 DEF Install, Gate, Installed, Offers
<1>16. CASE AwaitReport
  BY <1>0, <1>16, ReceivesTyped DEF AwaitReport, SessionTyped
<1>17. CASE ReportOver
  BY <1>0, <1>17 DEF ReportOver
<1>18. CASE FollowCard
  BY <1>0, <1>18, SyncTyped DEF FollowCard, Unfollowed
<1>19. CASE Resync
  BY <1>0, <1>19, SyncTyped DEF Resync
<1>20. CASE ReadCertificate
  BY <1>0, <1>20 DEF ReadCertificate
<1>21. CASE Reading
  BY <1>0, <1>21, ReceivesTyped DEF Reading, SessionTyped
<1>22. CASE ReadFailed
  BY <1>0, <1>22 DEF ReadFailed
<1>23. CASE ServePending
  BY <1>0, <1>23 DEF ServePending, AnswerAll, NonePending
<1>24. CASE TakeJob
  <2>1. StoreTypeOK' /\ SessionTyped' /\ OfferTypeOK' /\ pair' = pair
    BY <1>0, <1>24, CloseIfForgottenTyped DEF TakeJob, SessionTyped
  <2>2. {Head(inbox)} \in Option(Clients) /\ Tail(inbox) \in Seq(Clients)
    BY <1>24, InboxFacts DEF TakeJob
  <2>3. reply' \in [Clients -> Answers \cup {"none", "dropped"}]
    BY <1>24, AnswerTyped DEF TakeJob, Answer
  <2>4. ThreadTypeOK' /\ at' \in {"sign", "checks"}
    BY <1>0, <1>24, <2>1, <2>2 DEF TakeJob, SessionTyped
  <2> QED
    BY <1>0, <1>24, <2>1, <2>2, <2>3, <2>4
    DEF TakeJob
<1>25. CASE KeepAlive
  BY <1>0, <1>25, ReceivesTyped DEF KeepAlive, SessionTyped
<1>26. CASE BeginSign
  <2>1. PICK c \in job :
          \/ /\ Answer(c, "failed") /\ at' = then /\ then' = "hold" /\ job' = {}
             /\ ClosesHere \/ UNCHANGED <<session, store>>
          \/ Goes("signing") /\ UNCHANGED <<reply, session, store>>
    BY <1>26 DEF BeginSign
  <2>2. StoreTypeOK' /\ SessionTyped' /\ pair' = pair
    BY <2>1, ClosesTyped DEF SessionTyped
  <2>3. reply' \in [Clients -> Answers \cup {"none", "dropped"}]
    BY <2>1, AnswerTyped DEF Answer
  <2>4. ThreadTypeOK'
    BY <1>0, <2>1, <2>2 DEF SessionTyped
  <2> QED
    BY <1>0, <1>26, <2>2, <2>3, <2>4
    DEF BeginSign
<1>27. CASE Signing
  BY <1>0, <1>27, ReceivesTyped DEF Signing, SessionTyped
<1>28. CASE SignResult
  BY <1>0, <1>28 DEF SignResult, SignAnswer, Answer, AnswerAll
<1>29. CASE SignLost
  BY <1>0, <1>29 DEF SignLost, SignAnswer, Answer, AnswerAll
<1>30. CASE CheckStore
  BY <1>0, <1>30, CloseIfForgottenTyped DEF CheckStore, SessionTyped
<1>31. CASE SkipStore
  BY <1>0, <1>31 DEF SkipStore
<1>32. CASE CheckIdle
  BY <1>0, <1>32, ExpireTyped DEF CheckIdle
<1>33. CASE SkipIdle
  BY <1>0, <1>33 DEF SkipIdle
<1>34. CASE HoldOver
  BY <1>0, <1>34 DEF HoldOver
<1>35. CASE Over
  BY <1>0, <1>35 DEF Over, Withdraw, Gate, RemovalFails
<1> QED
  BY <1>1, <1>2, <1>3, <1>4, <1>5, <1>6, <1>7, <1>8, <1>9, <1>10, <1>11, <1>12, <1>13, <1>14,
     <1>15, <1>16, <1>17, <1>18, <1>19, <1>20, <1>21, <1>22, <1>23, <1>24, <1>25, <1>26, <1>27,
     <1>28, <1>29, <1>30, <1>31, <1>32, <1>33, <1>34, <1>35 DEF ServePhone, BetweenSessions,
     InSession, Search

\* So do the pipe thread and the clients, the process, and the others.
LEMMA PipeTyped ==
  ASSUME TypeInv, PipeSide \/ WindowPasses
  PROVE  TypeInv'
<1> USE OptionFacts DEF TypeInv, TypeOK, ClientsTypeOK, PipeTypeOK, clients, jobs
<1>1. CASE WindowPasses
  BY <1>1 DEF WindowPasses, thread, session, store, offer, ThreadTypeOK, StoreTypeOK, OfferTypeOK
<1>2. ASSUME NEW c \in Clients,
             PipeThread(c) \/ Timeout(c) \/ GiveUp(c) \/ \E p \in Named : Open(c, p)
      PROVE  TypeInv'
  <2>1. UNCHANGED <<phase, thread, session, store, offer, appOffered, signed>>
    BY <1>2 DEF PipeThread, RefuseStranger, ReadRequest, ReadFails, GiveAnswer, Timeout,
       GiveUp, Open,
       pipeOnly
  <2>2. /\ ThreadTypeOK' /\ StoreTypeOK' /\ OfferTypeOK' /\ signed' \subseteq Clients
        /\ at' \in Serving => pair' \in Pairs
    BY <2>1 DEF thread, session, store, offer, ThreadTypeOK, StoreTypeOK, OfferTypeOK
  <2>3. CASE \E p \in Named : Open(c, p)
    BY <2>2, <2>3 DEF Open, pipeOnly
  <2>4. CASE GiveUp(c)
    BY <2>2, <2>4 DEF GiveUp, pipeOnly
  <2>5. CASE RefuseStranger(c)
    BY <2>2, <2>5 DEF RefuseStranger, pipeOnly
  <2>6. CASE ReadRequest(c)
    BY <2>2, <2>6 DEF ReadRequest, pipeOnly
  <2>7. CASE ReadFails(c)
    BY <2>2, <2>7 DEF ReadFails, Answered, Answers, pipeOnly
  <2>8. CASE GiveAnswer(c)
    BY <2>2, <2>8 DEF GiveAnswer, Answered, Answers, pipeOnly
  <2>9. CASE Timeout(c)
    BY <2>2, <2>9 DEF Timeout, Answered, Answers, pipeOnly
  <2> QED
    BY <1>2, <2>3, <2>4, <2>5, <2>6, <2>7, <2>8, <2>9 DEF PipeThread
<1> QED
  BY <1>1, <1>2 DEF PipeSide

\* The start, the quit and the end of the process keep the types.
LEMMA ProcessTyped ==
  ASSUME TypeInv, Process
  PROVE  TypeInv'
<1> USE OptionFacts DEF TypeInv, TypeOK, ClientsTypeOK, PipeTypeOK, ThreadTypeOK, StoreTypeOK,
   OfferTypeOK,
        clients, jobs, thread, session, store, offer
<1>1. CASE Start
  BY <1>1 DEF Start
<1>2. CASE Quit
  BY <1>2 DEF Quit
<1>3. CASE CloseGate
  BY <1>3 DEF CloseGate, RemovalFails
<1>4. CASE Ends
  BY <1>4 DEF Ends, Places, Serving, States
<1> QED
  BY <1>1, <1>2, <1>3, <1>4 DEF Process, Exit, Dies

\* The app, the other processes and the clock keep the types.
LEMMA OthersTyped ==
  ASSUME TypeInv, Others
  PROVE  TypeInv'
<1> USE DEF TypeInv, TypeOK, ClientsTypeOK, PipeTypeOK, ThreadTypeOK
<1>1. CASE ForgetEvery
  BY <1>1 DEF ForgetEvery, agentOwn, clients, jobs, thread, session, StoreTypeOK, OfferTypeOK,
     States
<1>2. CASE AppWithdraws
  BY <1>2 DEF AppWithdraws, agentOwn, clients, jobs, thread, session, StoreTypeOK, OfferTypeOK
<1>3. ASSUME NEW p \in Pairs, Forget(p)
      PROVE  TypeInv'
  BY <1>3 DEF Forget, agentOwn, clients, jobs, thread, session, StoreTypeOK, OfferTypeOK, States
<1>4. ASSUME NEW p \in Pairs, Clear(p)
      PROVE  TypeInv'
  BY <1>4 DEF Clear, agentOwn, clients, jobs, thread, session, StoreTypeOK, OfferTypeOK, States
<1>5. ASSUME NEW p \in Pairs, Pair(p)
      PROVE  TypeInv'
  BY <1>5 DEF Pair, agentOwn, clients, jobs, thread, session, StoreTypeOK, OfferTypeOK, States
<1>6. ASSUME NEW p \in Pairs, AppOffers(p)
      PROVE  TypeInv'
  BY <1>6 DEF AppOffers, Installed, agentOwn, clients, jobs, thread, session, StoreTypeOK,
     OfferTypeOK,
     Offers
<1>7. ASSUME NEW p \in Pairs, Lapse(p)
      PROVE  TypeInv'
  BY <1>7 DEF Lapse, clients, jobs, thread, session, offer, StoreTypeOK, OfferTypeOK
<1> QED
  BY <1>1, <1>2, <1>3, <1>4, <1>5, <1>6, <1>7 DEF Others

\* The agent starts typed.
LEMMA TypeInit == Init => TypeInv
BY OptionFacts, AgentAssumption
DEF Init, TypeInv, TypeOK, ClientsTypeOK, PipeTypeOK, ThreadTypeOK, StoreTypeOK, OfferTypeOK, Pairs,
    Named, Places, Serving, States

\* Every step keeps the types.
LEMMA TypeStep == TypeInv /\ [Next]_vars => TypeInv'
<1>1. ASSUME TypeInv, UNCHANGED vars
      PROVE  TypeInv'
  BY <1>1 DEF vars, clients, jobs, thread, session, store, offer, TypeInv, TypeOK, ClientsTypeOK,
     PipeTypeOK, ThreadTypeOK, StoreTypeOK, OfferTypeOK
<1> QED
  BY <1>1, ServeTyped, PipeTyped, ProcessTyped, OthersTyped DEF Next

\* Type correctness: every variable of the agent, its pipe and its offer keeps
\* its type, for any clients, cards, pairings and failures.
THEOREM TypeCorrect == Spec => []TypeOK
<1>1. TypeInv => TypeOK
  BY DEF TypeInv
<1> QED
  BY <1>1, TypeInit, TypeStep, PTL DEF Spec

-----------------------------------------------------------------------------
(* The offer.                                                                *)

\* A step of the session thread that leaves the offer alone keeps what is known
\* of it, and so does a withdrawal that Windows carries out.
LEMMA StayKeeps ==
  ASSUME OfferInv, UNCHANGED <<offer, phase, appOffered>>, phase # "down", at # "start",
         at' # "install"
  PROVE  OfferInv'
BY DEF OfferInv, NothingUntracked, offer

\* A withdrawal that Windows carries out keeps the bookkeeping.
LEMMA WithdrawKeeps ==
  ASSUME "removal" \notin Faults, OfferInv, Withdraw, UNCHANGED <<phase, appOffered>>,
         phase \in {"up", "withdrawn", "closed"}, at' # "install"
  PROVE  OfferInv'
<1>1. offered' = {} /\ browser' = IF GateOpen THEN {} ELSE browser
  BY DEF Withdraw, Gate, RemovalFails, Fault
<1>2. browser' \subseteq appOffered
  BY <1>1 DEF GateOpen, OfferInv
<1> QED
  BY <1>1, <1>2 DEF OfferInv, NothingUntracked

\* So does one that depends on what is offered.
LEMMA WithdrawIfKeeps ==
  ASSUME "removal" \notin Faults, OfferInv, NEW condition, WithdrawIf(condition),
         UNCHANGED <<phase, appOffered>>, phase \in {"up", "withdrawn", "closed"},
         at # "start", at' # "install"
  PROVE  OfferInv'
<1>1. Withdraw \/ UNCHANGED offer
  BY DEF WithdrawIf
<1> QED
  BY <1>1, StayKeeps, WithdrawKeeps

\* sync_offer: before an install nothing is left offered.
LEMMA SyncKeeps ==
  ASSUME "removal" \notin Faults, OfferInv, NEW next \in {"search", "read", "hold"},
         SyncOffer(next), UNCHANGED <<phase, appOffered>>,
         phase \in {"up", "withdrawn", "closed"}, at # "start"
  PROVE  OfferInv'
<1>1. CASE UNCHANGED offer /\ Goes(next)
  BY <1>1, StayKeeps DEF Goes
<1>2. CASE Withdraw /\ Goes(next)
  BY <1>2, WithdrawKeeps DEF Goes
<1>3. CASE /\ ~Raised
           /\ IF offered # {} THEN Gate({}) \/ RemovalFails
                              ELSE UNCHANGED browser
           /\ offered' = {} /\ at' = "install"
  <2>1. phase = "up"
    BY <1>3 DEF Raised
  <2>2. browser' \subseteq appOffered
    BY <1>3, <2>1 DEF Gate, RemovalFails, GateOpen, Fault, OfferInv, NothingUntracked
  <2> QED
    BY <1>3, <2>1, <2>2 DEF OfferInv, NothingUntracked
<1> QED
  BY <1>1, <1>2, <1>3 DEF SyncOffer

\* An install is recorded, or finds the gate closed.
LEMMA InstallKeeps ==
  ASSUME OfferInv, Install, then # "install", UNCHANGED <<phase, appOffered>>,
         phase \in {"up", "withdrawn", "closed"}
  PROVE  OfferInv'
<1>1. at # "start" /\ at' # "install" /\ offered = {} /\ browser \subseteq appOffered
  BY DEF Install, OfferInv, NothingUntracked
<1>2. CASE Gate(Installed(want)) /\ offered' = IF GateOpen THEN want ELSE offered
  BY <1>1, <1>2 DEF Gate, Installed, GateOpen, OfferInv, NothingUntracked
<1>3. CASE UNCHANGED <<browser, offered>>
  BY <1>1, <1>3 DEF OfferInv, NothingUntracked
<1> QED
  BY <1>2, <1>3 DEF Install

\* Every step of the session thread keeps the offer's bookkeeping.
LEMMA ServeKeeps ==
  ASSUME "removal" \notin Faults, TypeInv, OfferInv, ServePhone
  PROVE  OfferInv'
<1>0. /\ UNCHANGED <<phase, appOffered>> /\ phase \in {"up", "withdrawn", "closed"}
      /\ then \in {"search", "read", "hold", "checks"}
  BY DEF ServePhone, TypeInv, TypeOK, ThreadTypeOK
<1>1. CASE Purge
  BY <1>0, <1>1, WithdrawKeeps DEF Purge, Goes
<1>2. CASE LoopEnds
  BY <1>0, <1>2, StayKeeps DEF LoopEnds, ThreadEnds
<1>3. CASE Load
  BY <1>0, <1>3, StayKeeps DEF Load, Goes
<1>4. CASE Sweep
  BY <1>0, <1>4, WithdrawIfKeeps DEF Sweep, Expire, Goes
<1>5. CASE Notices
  BY <1>0, <1>5, StayKeeps DEF Notices, Goes
<1>6. CASE Choose
  BY <1>0, <1>6, StayKeeps DEF Choose, Goes
<1>7. CASE ChooseNone
  BY <1>0, <1>7, StayKeeps DEF ChooseNone, Goes
<1>8. CASE Unpaired
  BY <1>0, <1>8, WithdrawIfKeeps DEF Unpaired, Goes
<1>9. CASE NoPairing
  BY <1>0, <1>9, StayKeeps DEF NoPairing, Goes
<1>10. CASE Opens
  BY <1>0, <1>10, StayKeeps DEF Opens, Goes
<1>11. CASE Attempt
  BY <1>0, <1>11, StayKeeps DEF Attempt, thread
<1>12. CASE SearchFails
  BY <1>0, <1>12, StayKeeps, WithdrawKeeps DEF SearchFails, AfterFailedSearch, Goes
<1>13. CASE SearchWithdrawn
  BY <1>0, <1>13, StayKeeps DEF SearchWithdrawn, ThreadEnds
<1>14. CASE Pause
  BY <1>0, <1>14, StayKeeps DEF Pause, Goes
<1>15. CASE Install
  BY <1>0, <1>15, InstallKeeps DEF Install
<1>16. CASE AwaitReport
  BY <1>0, <1>16, StayKeeps DEF AwaitReport, thread
<1>17. CASE ReportOver
  BY <1>0, <1>17, StayKeeps DEF ReportOver, Goes
<1>18. CASE FollowCard
  BY <1>0, <1>18, SyncKeeps DEF FollowCard
<1>19. CASE Resync
  BY <1>0, <1>19, SyncKeeps DEF Resync
<1>20. CASE ReadCertificate
  BY <1>0, <1>20, StayKeeps DEF ReadCertificate, Goes
<1>21. CASE Reading
  BY <1>0, <1>21, StayKeeps DEF Reading, thread
<1>22. CASE ReadFailed
  BY <1>0, <1>22, StayKeeps DEF ReadFailed, Goes
<1>23. CASE ServePending
  BY <1>0, <1>23, StayKeeps DEF ServePending, thread
<1>24. CASE TakeJob
  BY <1>0, <1>24, StayKeeps, WithdrawKeeps DEF TakeJob, CloseIfForgotten, Goes
<1>25. CASE KeepAlive
  BY <1>0, <1>25, StayKeeps DEF KeepAlive, Goes
<1>26. CASE BeginSign
  BY <1>0, <1>26, StayKeeps DEF BeginSign, Goes
<1>27. CASE Signing
  BY <1>0, <1>27, StayKeeps DEF Signing, thread
<1>28. CASE SignResult
  BY <1>0, <1>28, StayKeeps DEF SignResult, Goes
<1>29. CASE SignLost
  BY <1>0, <1>29, StayKeeps DEF SignLost, Goes
<1>30. CASE CheckStore
  BY <1>0, <1>30, StayKeeps, WithdrawKeeps DEF CheckStore, CloseIfForgotten, Goes
<1>31. CASE SkipStore
  BY <1>0, <1>31, StayKeeps DEF SkipStore, Goes
<1>32. CASE CheckIdle
  BY <1>0, <1>32, WithdrawIfKeeps DEF CheckIdle, Expire, Goes
<1>33. CASE SkipIdle
  BY <1>0, <1>33, StayKeeps DEF SkipIdle, Goes
<1>34. CASE HoldOver
  BY <1>0, <1>34, StayKeeps DEF HoldOver, Goes
<1>35. CASE Over
  BY <1>0, <1>35, StayKeeps, WithdrawKeeps DEF Over, Goes
<1> QED
  BY <1>1, <1>2, <1>3, <1>4, <1>5, <1>6, <1>7, <1>8, <1>9, <1>10, <1>11, <1>12, <1>13, <1>14,
     <1>15, <1>16, <1>17, <1>18, <1>19, <1>20, <1>21, <1>22, <1>23, <1>24, <1>25, <1>26, <1>27,
     <1>28, <1>29, <1>30, <1>31, <1>32, <1>33, <1>34, <1>35
  DEF ServePhone, BetweenSessions, InSession, Search

\* The start, the quit and the end of the process keep the bookkeeping.
LEMMA ProcessKeeps ==
  ASSUME "removal" \notin Faults, OfferInv, Process
  PROVE  OfferInv'
<1> USE DEF OfferInv, NothingUntracked
<1>1. CASE Start
  BY <1>1 DEF Start, offer, thread
<1>2. CASE Quit
  BY <1>2 DEF Quit, offer, thread
<1>3. CASE CloseGate
  BY <1>3 DEF CloseGate, RemovalFails, Fault, thread
<1>4. CASE Ends
  BY <1>4 DEF Ends
<1> QED
  BY <1>1, <1>2, <1>3, <1>4 DEF Process, Exit, Dies

\* The app's offers and removals keep it.
LEMMA OthersKeep ==
  ASSUME OfferInv, Others
  PROVE  OfferInv'
<1> USE DEF OfferInv, NothingUntracked
<1>1. CASE ForgetEvery
  BY <1>1 DEF ForgetEvery, agentOwn, thread
<1>2. CASE AppWithdraws
  BY <1>2 DEF AppWithdraws, agentOwn, thread
<1>3. ASSUME NEW p \in Pairs, Forget(p) \/ Clear(p)
      PROVE  OfferInv'
  BY <1>3 DEF Forget, Clear, agentOwn, thread
<1>4. ASSUME NEW p \in Pairs, Pair(p)
      PROVE  OfferInv'
  BY <1>4 DEF Pair, agentOwn, thread
<1>5. ASSUME NEW p \in Pairs, AppOffers(p)
      PROVE  OfferInv'
  <2>1. browser' \subseteq browser \cup appOffered'
    BY <1>5 DEF AppOffers, Installed
  <2> QED
    BY <1>5, <2>1 DEF AppOffers, agentOwn, thread
<1>6. ASSUME NEW p \in Pairs, Lapse(p)
      PROVE  OfferInv'
  BY <1>6 DEF Lapse, offer, thread
<1> QED
  BY <1>1, <1>2, <1>3, <1>4, <1>5, <1>6 DEF Others

\* The types and the bookkeeping hold together.
LEMMA OfferInvariant == "removal" \notin Faults /\ Spec => [](TypeInv /\ OfferInv)
<1> SUFFICES ASSUME "removal" \notin Faults
             PROVE  Spec => [](TypeInv /\ OfferInv)
  OBVIOUS
<1>1. Init => TypeInv /\ OfferInv
  BY TypeInit DEF Init, OfferInv, NothingUntracked
<1>2. TypeInv /\ OfferInv /\ [Next]_vars => (TypeInv /\ OfferInv)'
  <2> SUFFICES ASSUME TypeInv, OfferInv, [Next]_vars
               PROVE  OfferInv'
    BY TypeStep
  <2>1. CASE UNCHANGED vars
    BY <2>1 DEF vars, thread, offer, OfferInv, NothingUntracked
  <2>2. CASE PipeSide \/ WindowPasses
    <3>1. UNCHANGED <<phase, thread, offer, appOffered>>
      BY <2>2 DEF PipeSide, WindowPasses, PipeThread, RefuseStranger, ReadRequest, ReadFails,
         GiveAnswer, Timeout, GiveUp, Open, pipeOnly
    <3> QED
      BY <3>1 DEF thread, offer, OfferInv, NothingUntracked
  <2> QED
    BY <2>1, <2>2, ServeKeeps, ProcessKeeps, OthersKeep DEF Next
<1> QED
  BY <1>1, <1>2, PTL DEF Spec

\* Every certificate in the user's store is one the agent or the app knows it
\* offers, for any clients, cards, pairings, failed installs and unreadable
\* stores, as long as Windows removes what it is asked to remove.
THEOREM EveryOfferTracked == "removal" \notin Faults /\ Spec => []NothingUntracked
<1>1. TypeInv /\ OfferInv => NothingUntracked
  BY DEF OfferInv
<1> QED
  BY <1>1, OfferInvariant, PTL

\* Once the quit has closed the gate nothing is offered, wherever it met the
\* session thread, when the app's watch does not offer beside the agent.
THEOREM QuitWithdraws ==
  "removal" \notin Faults /\ AppWatches = FALSE /\ Spec => []NothingAfterQuit
<1> SUFFICES ASSUME "removal" \notin Faults, AppWatches = FALSE
             PROVE  Spec => []NothingAfterQuit
  OBVIOUS
<1>1. TypeInv /\ OfferInv => NothingAfterQuit
  BY DEF OfferInv, NothingAfterQuit
<1> QED
  BY <1>1, OfferInvariant, PTL

-----------------------------------------------------------------------------
(* Signatures.                                                               *)

\* A signature waits in a reply channel, or reached a client, only for a
\* request the phone signed.
SignedInv ==
  /\ OwnSignature
  /\ \A c \in Clients : reply[c] = "signature" => c \in signed

\* An answer that is no signature keeps it.
LEMMA AnswerKeeps ==
  ASSUME SignedInv, NEW S, NEW answer, answer # "signature",
         AnswerAll(S, answer) \/ UNCHANGED reply, client' = client, signed \subseteq signed'
  PROVE  SignedInv'
BY DEF SignedInv, OwnSignature, AnswerAll

\* The session thread signs for the job it answers.
LEMMA ServeSigned ==
  ASSUME TypeInv, SignedInv, ServePhone
  PROVE  SignedInv'
<1>0. client' = client
  BY DEF ServePhone, clients
<1>1. CASE LoopEnds \/ SearchWithdrawn
  BY <1>0, <1>1, AnswerKeeps DEF LoopEnds, SearchWithdrawn, ThreadEnds
<1>2. CASE Unpaired
  BY <1>0, <1>2, AnswerKeeps DEF Unpaired
<1>3. CASE NoPairing \/ TakeJob
  BY <1>0, <1>3, AnswerKeeps DEF NoPairing, TakeJob, Answer
<1>4. CASE SearchFails
  <2>1. signed' = signed /\ (UNCHANGED reply \/ \E S : AnswerAll(S, "no_phone"))
    BY <1>4 DEF SearchFails, AfterFailedSearch
  <2> QED
    BY <1>0, <2>1, AnswerKeeps
<1>5. CASE ServePending
  BY <1>0, <1>5, AnswerKeeps DEF ServePending
<1>6. CASE BeginSign
  BY <1>0, <1>6, AnswerKeeps DEF BeginSign, Answer
<1>7. CASE SignResult
  <2>1. PICK c \in job, answer \in Answers \ {"lost", "no_phone"} :
          /\ AnswerAll({c}, answer)
          /\ signed' = IF answer = "signature" THEN signed \cup {c} ELSE signed
    BY <1>7 DEF SignResult, SignAnswer, Answer
  <2>2. CASE answer # "signature"
    BY <1>0, <2>1, <2>2, AnswerKeeps
  <2>3. CASE answer = "signature"
    BY <1>0, <2>1, <2>3 DEF SignedInv, OwnSignature, AnswerAll
  <2> QED
    BY <2>2, <2>3
<1>8. CASE SignLost
  <2>1. PICK c \in job : AnswerAll({c}, "lost") /\ signed' \in {signed, signed \cup {c}}
    BY <1>8 DEF SignLost, SignAnswer, Answer
  <2> QED
    BY <1>0, <2>1, AnswerKeeps
<1>9. CASE UNCHANGED <<reply, signed>>
  BY <1>0, <1>9 DEF SignedInv, OwnSignature
<1>10. \/ LoopEnds \/ SearchWithdrawn \/ Unpaired \/ NoPairing \/ TakeJob \/ SearchFails
       \/ ServePending \/ BeginSign \/ SignResult \/ SignLost \/ UNCHANGED <<reply, signed>>
  BY DEF ServePhone, BetweenSessions, InSession, Search, Purge, Load, Sweep, Notices, Choose,
     ChooseNone, Opens, Attempt, Pause, Install, AwaitReport, ReportOver, FollowCard, Resync,
     ReadCertificate, Reading, ReadFailed, KeepAlive, Signing, CheckStore, SkipStore, CheckIdle,
     SkipIdle, HoldOver, Over
<1> QED
  BY <1>1, <1>2, <1>3, <1>4, <1>5, <1>6, <1>7, <1>8, <1>9, <1>10

\* The pipe thread gives a client the reply of its own job.
LEMMA PipeSigned ==
  ASSUME TypeInv, SignedInv, PipeSide
  PROVE  SignedInv'
<1> USE DEF SignedInv, OwnSignature
<1>0. /\ client \in [Clients -> {"idle", "connected", "left"} \cup Answers]
      /\ reply \in [Clients -> Answers \cup {"none", "dropped"}]
  BY DEF TypeInv, TypeOK, ClientsTypeOK, PipeTypeOK
<1>1. PICK c \in Clients : PipeThread(c) \/ Timeout(c) \/ GiveUp(c) \/ \E p \in Named : Open(c, p)
  BY DEF PipeSide
<1>2. signed' = signed
  BY <1>1 DEF PipeThread, RefuseStranger, ReadRequest, ReadFails, GiveAnswer, Timeout, GiveUp, Open,
     pipeOnly
<1>3. CASE GiveAnswer(c)
  BY <1>0, <1>2, <1>3 DEF GiveAnswer, Answered
<1>4. CASE ReadFails(c) \/ Timeout(c)
  BY <1>0, <1>2, <1>4 DEF ReadFails, Timeout, Answered
<1>5. CASE RefuseStranger(c) \/ GiveUp(c) \/ \E p \in Named : Open(c, p)
  BY <1>0, <1>2, <1>5 DEF RefuseStranger, GiveUp, Open
<1>6. CASE ReadRequest(c)
  BY <1>2, <1>6 DEF ReadRequest, clients
<1> QED
  BY <1>1, <1>3, <1>4, <1>5, <1>6 DEF PipeThread

\* A provider is given a signature only if the phone signed its own request,
\* for any number of providers, whatever jobs the timeouts left behind.
THEOREM SignaturesOwn == Spec => []OwnSignature
<1>1. Init => TypeInv /\ SignedInv
  BY TypeInit DEF Init, SignedInv, OwnSignature
<1>2. TypeInv /\ SignedInv /\ [Next]_vars => (TypeInv /\ SignedInv)'
  <2> SUFFICES ASSUME TypeInv, SignedInv, [Next]_vars
               PROVE  SignedInv'
    BY TypeStep
  <2>1. CASE UNCHANGED <<clients, reply, signed>>
    BY <2>1 DEF clients, SignedInv, OwnSignature
  <2>2. CASE Ends
    BY <2>2 DEF Ends, SignedInv, OwnSignature
  <2>3. Others \/ WindowPasses \/ Start \/ Quit \/ CloseGate \/ UNCHANGED vars
        => UNCHANGED <<clients, reply, signed>>
    BY DEF Others, ForgetEvery, AppWithdraws, Forget, Clear, Pair, AppOffers, Lapse, agentOwn,
       WindowPasses, Start, Quit, CloseGate, vars
  <2> QED
    BY <2>1, <2>2, <2>3, ServeSigned, PipeSigned DEF Next, Process, Exit, Dies
<1>3. TypeInv /\ SignedInv => OwnSignature
  BY DEF SignedInv
<1> QED
  BY <1>1, <1>2, <1>3, PTL DEF Spec

-----------------------------------------------------------------------------
(* The offer follows the card a waiting request is put to.                   *)

\* The places without a session: the session thread has heard of no card.
Away == {"start", "loop", "sweep", "notices", "choose", "unpaired", "no_pairing", "search",
         "pause", "ended"}

\* A card heard is the one the pairing's sighting names, as long as it stands.
SeenOK ==
  /\ heard \in Cards => sighting[pair] \in {heard, "none"}
  /\ sess = "none" => heard \notin Cards

\* What an install under way is to offer, and that a request on its way to the
\* phone was the only one that waited.
PlaceOK ==
  /\ at \in Away => heard \notin Cards
  /\ at = "install" => /\ offered = {}
                       /\ heard \in Cards => want \subseteq {<<pair, heard>>}
                       /\ then = "search" => heard \notin Cards
  /\ at \in {"sign", "signing"} => pending = {} /\ then # "search"
  /\ WaitingFollowsCard

FollowInv == SeenOK /\ PlaceOK

\* Only the agent's own end of the session, or the phone's, moves a sighting in
\* one receive, unless a card is heard.
LEMMA ClosesSeen ==
  ASSUME TypeInv, SeenOK, pair \in Pairs, ClosesHere \/ \E reason \in Reasons : PeerCloses(reason)
  PROVE  SeenOK' /\ UNCHANGED <<pair, heard>>
<1>1. UNCHANGED <<pair, heard>> /\ sess' \in {"local", "lost", "at_once"}
      /\ sighting' \in {sighting, [sighting EXCEPT ![pair] = "none"]}
  BY DEF ClosesHere, PeerCloses
<1>2. sighting'[pair] \in {sighting[pair], "none"}
  BY <1>1 DEF TypeInv, TypeOK, StoreTypeOK
<1> QED
  BY <1>1, <1>2 DEF SeenOK

\* A receive keeps the pairing, and the sighting of the card it hears.
LEMMA ReceivesSeen ==
  ASSUME TypeInv, SeenOK, pair \in Pairs, Receives
  PROVE  SeenOK' /\ UNCHANGED pair
<1>1. CASE SessionEnds
  BY <1>1, ClosesSeen DEF SessionEnds
<1>2. ASSUME NEW status \in Cards \cup {"absent"}, Hears(status) PROVE SeenOK' /\ UNCHANGED pair
  <2>1. /\ heard' = status /\ UNCHANGED <<pair, sess>> /\ sess = "open"
        /\ sighting' = IF status \in Cards THEN [sighting EXCEPT ![pair] = status] ELSE sighting
    BY <1>2 DEF Hears, Receives
  <2>2. status \in Cards => sighting'[pair] = status
    BY <2>1 DEF TypeInv, TypeOK, StoreTypeOK
  <2> QED
    BY <2>1, <2>2 DEF SeenOK
<1>3. CASE UNCHANGED <<session, store>>
  BY <1>3 DEF session, store, SeenOK
<1> QED
  BY <1>1, <1>2, <1>3 DEF Receives

\* So does a look at the store.
LEMMA CloseIfForgottenSeen ==
  ASSUME TypeInv, SeenOK, pair \in Pairs, CloseIfForgotten
  PROVE  SeenOK' /\ UNCHANGED pair
<1>1. CASE sess # "open" \/ file[pair] \in {"serving", "forgotten"} \/ UNCHANGED <<store, session, offer>>
  <2>1. UNCHANGED <<sighting, pair, heard>> /\ sess' \in {sess, "local"}
    BY <1>1 DEF CloseIfForgotten, store, session
  <2> QED
    BY <2>1 DEF SeenOK
<1>2. CASE ClosesHere
  BY <1>2, ClosesSeen
<1> QED
  BY <1>1, <1>2 DEF CloseIfForgotten

\* What sync_offer offers, or is to install, is of the card heard.
LEMMA SyncFollows ==
  ASSUME TypeInv, FollowInv, at \in {"follow", "resync"}, NEW next \in {"search", "read", "hold"},
         SyncOffer(next), next = "search" => heard \notin Cards,
         UNCHANGED <<phase, pair, heard, sess, sighting, pending>>
  PROVE  FollowInv'
<1>1. pair \in Pairs
  BY DEF TypeInv, Serving
<1>2. heard \in Cards => OfferedCertificate(pair) \subseteq {<<pair, heard>>}
  BY <1>1 DEF OfferedCertificate, FollowInv, SeenOK
<1>3. SeenOK'
  BY DEF FollowInv, SeenOK
<1>4. Raised' = Raised
  BY DEF Raised
<1>5. CASE Raised \/ OfferedCertificate(pair) = offered
  <2>1. UNCHANGED offered /\ at' = next
    BY <1>5 DEF SyncOffer, Goes, offer
  <2> QED
    BY <1>2, <1>3, <1>4, <1>5, <2>1 DEF FollowInv, PlaceOK, WaitingFollowsCard, OfferFollows, Away
<1>6. CASE ~Raised /\ OfferedCertificate(pair) # offered
  <2>1. /\ offered' = {}
        /\ \/ at' = next
           \/ at' = "install" /\ then' = next /\ want' = OfferedCertificate(pair)
    BY <1>6 DEF SyncOffer, Goes, Withdraw
  <2> QED
    BY <1>2, <1>3, <2>1 DEF FollowInv, PlaceOK, WaitingFollowsCard, OfferFollows, Away
<1> QED
  BY <1>5, <1>6

\* A step to a place where nothing is asked of the offer.
LEMMA ElsewhereFollows ==
  ASSUME SeenOK', at' \in Away => heard' \notin Cards,
         at' \notin {"install", "hold", "sign", "signing"}
  PROVE  FollowInv'
BY DEF FollowInv, PlaceOK, WaitingFollowsCard

\* Every step of the session thread.
LEMMA ServeFollows ==
  ASSUME TypeInv, FollowInv, ServePhone
  PROVE  FollowInv'
<1>0. /\ UNCHANGED phase /\ phase \in {"up", "withdrawn", "closed"} /\ (Raised' = Raised)
      /\ then \in {"search", "read", "hold", "checks"} /\ SeenOK /\ PlaceOK
      /\ at \in Serving => pair \in Pairs
  BY DEF ServePhone, TypeInv, TypeOK, ThreadTypeOK, FollowInv, Raised
<1>1. ASSUME at \in Away, at' \in Away \cup {"resync", "report"}, heard' \in {heard, "unsaid"}
      PROVE  FollowInv'
  <2>1. heard' \notin Cards
    BY <1>0, <1>1, AgentAssumption DEF PlaceOK, AgentAssumption
  <2>2. SeenOK'
    BY <2>1 DEF SeenOK
  <2> QED
    BY <1>1, <2>1, <2>2, ElsewhereFollows DEF Away
<1>2. CASE at \in Away
  <2>1. at' \in Away \cup {"resync", "report"} /\ heard' \in {heard, "unsaid"}
    BY <1>2 DEF ServePhone, BetweenSessions, InSession, Search, Away, session, thread, Goes,
       Purge, LoopEnds, ThreadEnds, Load, Sweep, Notices, Choose, ChooseNone, Unpaired, NoPairing,
       Pause, Opens, Attempt, SearchFails, AfterFailedSearch, SearchWithdrawn, Install,
       AwaitReport, ReportOver, FollowCard, Resync, ReadCertificate, Reading, ReadFailed,
       ServePending, TakeJob, KeepAlive, BeginSign, Signing, SignResult, SignLost, CheckStore,
       SkipStore, CheckIdle, SkipIdle, HoldOver, Over
  <2> QED
    BY <1>1, <1>2, <2>1
<1>3. CASE Install
  <2>1. /\ at = "install" /\ at' = then /\ offered' \subseteq want \cup offered
        /\ UNCHANGED <<pending, session, store>>
    BY <1>3 DEF Install
  <2>2. SeenOK' /\ UNCHANGED <<pair, heard>>
    BY <1>0, <2>1 DEF SeenOK, session, store
  <2> QED
    BY <1>0, <2>1, <2>2 DEF FollowInv, PlaceOK, WaitingFollowsCard, OfferFollows, Away
<1>4. CASE AwaitReport \/ Reading
  <2>1. SeenOK'
    BY <1>0, <1>4, ReceivesSeen DEF AwaitReport, Reading, Serving
  <2> QED
    BY <1>4, <2>1, ElsewhereFollows DEF AwaitReport, Reading, thread, Away
<1>5. CASE ReportOver \/ ReadCertificate \/ ReadFailed \/ SkipStore \/ SkipIdle \/ CheckIdle \/ HoldOver
  <2>1. UNCHANGED <<session, sighting>> /\ at' \in {"follow", "resync", "idle", "over"}
    BY <1>5 DEF ReportOver, ReadCertificate, ReadFailed, SkipStore, SkipIdle, CheckIdle, HoldOver,
                Goes, store, Expire
  <2>2. SeenOK'
    BY <1>0, <2>1 DEF SeenOK, session
  <2> QED
    BY <2>1, <2>2, ElsewhereFollows DEF Away
<1>6. CASE FollowCard
  <2>1. UNCHANGED <<phase, pair, heard, sess, sighting, pending>> /\ at = "follow"
    BY <1>0, <1>6 DEF FollowCard, store, jobs
  <2> QED
    BY <1>6, <2>1, SyncFollows DEF FollowCard
<1>7. CASE Resync
  <2>1. UNCHANGED <<phase, pair, heard, sess, sighting, pending>> /\ at = "resync"
    BY <1>0, <1>7 DEF Resync, store, jobs, session
  <2>2. sess = "none" => heard \notin Cards
    BY <1>0 DEF SeenOK
  <2> QED
    BY <1>7, <2>1, <2>2, SyncFollows DEF Resync
<1>8. CASE ServePending
  <2>1. /\ at = "hold" /\ pending # {} /\ pending' = {} /\ UNCHANGED <<session, store, offer>>
        /\ at' = "hold" \/ (at' = "sign" /\ then' = "hold")
    BY <1>8 DEF ServePending, NonePending, thread
  <2>2. SeenOK' /\ UNCHANGED <<pair, heard, offered>>
    BY <1>0, <2>1 DEF SeenOK, session, store, offer
  <2> QED
    BY <1>0, <2>1, <2>2 DEF FollowInv, PlaceOK, WaitingFollowsCard, OfferFollows, Away
<1>9. CASE TakeJob
  <2>1. /\ at = "hold" /\ pending = {} /\ pending' = pending
        /\ at' = "checks" \/ (at' = "sign" /\ then' = "checks")
    BY <1>9 DEF TakeJob, Goes
  <2>2. SeenOK'
    BY <1>0, <1>9, <2>1, CloseIfForgottenSeen DEF TakeJob, Serving
  <2> QED
    BY <2>1, <2>2 DEF FollowInv, PlaceOK, WaitingFollowsCard, Away
<1>10. CASE KeepAlive
  <2>1. SeenOK' /\ at' = "checks"
    BY <1>0, <1>10, ReceivesSeen DEF KeepAlive, Serving, Goes
  <2> QED
    BY <2>1, ElsewhereFollows DEF Away
<1>11. CASE BeginSign
  <2>1. at = "sign" /\ pending' = {} /\ (at' = then \/ (at' = "signing" /\ then' = then))
    <3>1. at = "sign" /\ pending' = pending
      BY <1>11 DEF BeginSign, jobs
    <3>2. at' = then \/ (at' = "signing" /\ then' = then)
      BY <1>11 DEF BeginSign, Goes
    <3> QED
      BY <1>0, <3>1, <3>2 DEF PlaceOK
  <2>2. SeenOK' /\ UNCHANGED <<pair, heard>>
    <3>1. CASE UNCHANGED <<session, store>>
      BY <1>0, <3>1 DEF SeenOK, session, store
    <3>2. CASE ClosesHere
      BY <1>0, <2>1, <3>2, ClosesSeen DEF Serving
    <3> QED
      BY <1>11, <3>1, <3>2 DEF BeginSign
  <2>3. CASE at' = "hold"
    BY <2>1, <2>2, <2>3 DEF FollowInv, PlaceOK, WaitingFollowsCard, Away
  <2>4. CASE at' = "signing"
    BY <1>0, <2>1, <2>2, <2>4 DEF FollowInv, PlaceOK, WaitingFollowsCard, Away
  <2>5. CASE at' \notin {"hold", "signing"}
    <3>1. then # "search"
      BY <1>0, <2>1 DEF PlaceOK
    <3> QED
      BY <1>0, <2>1, <2>2, <2>5, <3>1, ElsewhereFollows DEF Away
  <2> QED
    BY <2>3, <2>4, <2>5
<1>12. CASE Signing
  <2>1. SeenOK' /\ UNCHANGED <<at, then, pending>>
    BY <1>0, <1>12, ReceivesSeen DEF Signing, Serving, jobs, thread
  <2> QED
    BY <1>0, <1>12, <2>1 DEF Signing, FollowInv, PlaceOK, WaitingFollowsCard, Away
<1>13. CASE SignResult \/ SignLost
  <2>1. at = "signing" /\ at' = then /\ UNCHANGED <<pending, session, store>>
    BY <1>13 DEF SignResult, SignLost, jobs
  <2>2. SeenOK' /\ pending' = {}
    BY <1>0, <2>1 DEF SeenOK, session, store, PlaceOK
  <2>3. then # "search"
    BY <1>0, <2>1 DEF PlaceOK
  <2> QED
    BY <1>0, <2>1, <2>2, <2>3 DEF FollowInv, PlaceOK, WaitingFollowsCard, Away
<1>14. CASE CheckStore
  <2>1. SeenOK' /\ at' = "idle"
    BY <1>0, <1>14, CloseIfForgottenSeen DEF CheckStore, Serving, Goes
  <2> QED
    BY <2>1, ElsewhereFollows DEF Away
<1>15. CASE Over
  <2>1. heard' = "unsaid" /\ at' = "loop"
    BY <1>15 DEF Over, Goes
  <2>2. heard' \notin Cards
    BY <2>1, AgentAssumption DEF AgentAssumption
  <2> QED
    BY <2>1, <2>2, ElsewhereFollows DEF SeenOK
<1>16. CASE at \notin Away /\ BetweenSessions
  BY <1>3, <1>16 DEF BetweenSessions, Away, Purge, LoopEnds, Load, Sweep, Notices, Choose, ChooseNone,
     Unpaired, NoPairing, Pause, Search, Opens, Attempt, SearchFails, SearchWithdrawn
<1> QED
  BY <1>2, <1>3, <1>4, <1>5, <1>6, <1>7, <1>8, <1>9, <1>10, <1>11, <1>12, <1>13, <1>14, <1>15, <1>16
  DEF ServePhone, InSession

\* The process and the other actors leave the card heard and the offer alone.
LEMMA RestFollows ==
  ASSUME TypeInv, FollowInv, WindowPasses \/ PipeSide \/ Process \/ Others
  PROVE  FollowInv'
<1>1. SeenOK /\ PlaceOK
  BY DEF FollowInv
<1>2. ASSUME UNCHANGED <<thread, session, sighting, offered, want>>, pending' = pending,
             Raised => Raised'
      PROVE  FollowInv'
  BY <1>1, <1>2 DEF FollowInv, SeenOK, PlaceOK, WaitingFollowsCard, OfferFollows, thread, session
<1>3. CASE WindowPasses \/ PipeSide
  <2>1. UNCHANGED <<phase, thread, session, sighting, offered, want, pending>>
    BY <1>3 DEF WindowPasses, PipeSide, PipeThread, RefuseStranger, ReadRequest, ReadFails,
       GiveAnswer, Timeout, GiveUp, Open, pipeOnly, jobs, store, offer
  <2> QED
    BY <1>2, <2>1 DEF Raised
<1>4. CASE Start \/ Quit \/ CloseGate
  <2>1. UNCHANGED <<thread, session, sighting, offered, want, pending>> /\ (Raised => Raised')
    BY <1>4 DEF Start, Quit, CloseGate, jobs, store, offer, Raised
  <2> QED
    BY <1>2, <2>1
<1>5. CASE Exit \/ Dies
  <2>1. at' = "start" /\ heard' = "unsaid"
    BY <1>5 DEF Exit, Dies, Ends
  <2>2. heard' \notin Cards
    BY <2>1, AgentAssumption DEF AgentAssumption
  <2> QED
    BY <2>1, <2>2, ElsewhereFollows DEF SeenOK
<1>6. ASSUME NEW p \in Pairs, Lapse(p) PROVE FollowInv'
  <2>1. /\ UNCHANGED <<phase, thread, session, offered, want, pending>>
        /\ sighting' = [sighting EXCEPT ![p] = "none"]
    BY <1>6 DEF Lapse, jobs, offer
  <2>2. heard \in Cards => sighting'[pair] \in {sighting[pair], "none"}
    BY <2>1 DEF TypeInv, TypeOK, StoreTypeOK
  <2> QED
    BY <1>1, <2>1, <2>2 DEF FollowInv, SeenOK, PlaceOK, WaitingFollowsCard, OfferFollows, thread,
                             session, Raised
<1>7. CASE Others /\ ~ \E p \in Pairs : Lapse(p)
  <2>1. UNCHANGED agentOwn
    BY <1>7 DEF Others, ForgetEvery, AppWithdraws, Forget, Clear, Pair, AppOffers
  <2>2. UNCHANGED <<phase, thread, session, sighting, offered, want, pending>>
    BY <2>1 DEF agentOwn, jobs
  <2> QED
    BY <1>2, <2>2 DEF Raised
<1> QED
  BY <1>3, <1>4, <1>5, <1>6, <1>7 DEF Process

\* When a request that waited for the phone is put to it, nothing is offered to
\* browsers but the held pairing's certificate of the card the session last
\* reported, whatever the phone, the app and the store did since it was heard.
THEOREM OfferFollowsCard == Spec => []WaitingFollowsCard
<1>1. Init => TypeInv /\ FollowInv
  <2> SUFFICES ASSUME Init PROVE FollowInv
    BY TypeInit
  <2>1. "unsaid" \notin Cards
    BY AgentAssumption DEF AgentAssumption
  <2> QED
    BY <2>1 DEF Init, FollowInv, SeenOK, PlaceOK, WaitingFollowsCard
<1>2. TypeInv /\ FollowInv /\ [Next]_vars => (TypeInv /\ FollowInv)'
  <2> SUFFICES ASSUME TypeInv, FollowInv, [Next]_vars
               PROVE  FollowInv'
    BY TypeStep
  <2>1. CASE UNCHANGED vars
    BY <2>1 DEF vars, jobs, thread, session, store, offer, FollowInv, SeenOK, PlaceOK,
                WaitingFollowsCard, OfferFollows, Raised
  <2> QED
    BY <2>1, ServeFollows, RestFollows DEF Next
<1>3. FollowInv => WaitingFollowsCard
  BY DEF FollowInv, PlaceOK
<1> QED
  BY <1>1, <1>2, <1>3, PTL DEF Spec
====
