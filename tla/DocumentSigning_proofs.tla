----------------------- MODULE DocumentSigning_proofs -----------------------
(* Theorems about document signing, for any certificates, cards, authorities  *)
(* and requests: whose card signs and pays, and that a document that was      *)
(* written has the level it was asked for.                                    *)
EXTENDS DocumentSigning, CardChip_proofs, FiniteSetTheorems

-----------------------------------------------------------------------------
(* A path, certificate by certificate.                                       *)

\* The CA certificates among the first n of a path that count against pathLen.
SubordinatesIn(path, n) == Cardinality({j \in 1..n : Subordinate(path[j])})

\* A certificate more on a path.
LEMMA SubordinatesGrow ==
  ASSUME NEW path, NEW n \in Nat
  PROVE  /\ SubordinatesIn(path, 0) = 0 /\ SubordinatesIn(path, n) \in Nat
         /\ SubordinatesIn(path, n + 1) =
              SubordinatesIn(path, n) + (IF Subordinate(path[n + 1]) THEN 1 ELSE 0)
<1> DEFINE S == {j \in 1..n : Subordinate(path[j])}
           T == {j \in 1..(n + 1) : Subordinate(path[j])}
<1>1. IsFiniteSet(1..n)
  BY FS_Interval
<1>2. IsFiniteSet(S) /\ Cardinality(S) \in Nat
  BY <1>1, FS_Subset, FS_CardinalityType
<1>3. {j \in 1..0 : Subordinate(path[j])} = {}
  OBVIOUS
<1>4. CASE Subordinate(path[n + 1])
  <2>1. T = S \cup {n + 1} /\ n + 1 \notin S
    BY <1>4
  <2> HIDE DEF S, T
  <2>2. Cardinality(T) = Cardinality(S) + 1
    BY <1>2, <2>1, FS_AddElement
  <2> QED
    BY <1>2, <1>3, <1>4, <2>2, FS_EmptySet DEF SubordinatesIn, S, T
<1>5. CASE ~Subordinate(path[n + 1])
  <2>1. T = S
    BY <1>5
  <2> QED
    BY <1>2, <1>3, <1>5, <2>1, FS_EmptySet DEF SubordinatesIn
<1> QED
  BY <1>4, <1>5

\* A path on the way: every certificate but the last has been entered, is no
\* anchor, and was issued by the one after it.
Walked(path, time, anchors) ==
  /\ path \in Seq(Certs) /\ path # <<>> /\ Len(path) <= MaxDepth + 1
  /\ \A i, j \in 1..(Len(path) - 1) : path[i] = path[j] => i = j
  /\ \A i \in 1..(Len(path) - 1) :
       /\ TimeOk(path[i], time) /\ path[i] \notin anchors /\ ProfileOk(path[i])
       /\ Issues(path[i + 1], path[i], time, SubordinatesIn(path, i), anchors)

\* The last certificate passes validate_certificate_time and WalkGuard::enter.
LastEnters(path, time) ==
  /\ TimeOk(path[Len(path)], time) /\ Len(path) <= MaxDepth
  /\ \A i \in 1..(Len(path) - 1) : path[i] # path[Len(path)]

\* One turn of the loop: an issuer of the last certificate.
LEMMA WalkedFurther ==
  ASSUME NEW path, NEW time, NEW anchors, NEW issuer \in Certs,
         Walked(path, time, anchors), LastEnters(path, time),
         path[Len(path)] \notin anchors, ProfileOk(path[Len(path)]),
         Issues(issuer, path[Len(path)], time, SubordinatesIn(path, Len(path)), anchors)
  PROVE  Walked(Append(path, issuer), time, anchors)
<1> DEFINE next == Append(path, issuer)
           n == Len(path)
<1>1. path \in Seq(Certs) /\ n \in Nat /\ n > 0 /\ MaxDepth \in Nat
  BY CertPathAssumption DEF Walked
<1>2. next \in Seq(Certs) /\ Len(next) = n + 1 /\ next # <<>>
  BY <1>1
<1>3. next[n + 1] = issuer /\ \A i \in 1..n : next[i] = path[i]
  BY <1>1
<1>4. \A i \in 1..n : SubordinatesIn(next, i) = SubordinatesIn(path, i)
  <2> TAKE i \in 1..n
  <2>1. {j \in 1..i : Subordinate(next[j])} = {j \in 1..i : Subordinate(path[j])}
    BY <1>1, <1>3
  <2> QED
    BY <2>1 DEF SubordinatesIn
<1> HIDE DEF next
<1>5. ASSUME NEW i \in 1..n
      PROVE  /\ TimeOk(next[i], time) /\ next[i] \notin anchors /\ ProfileOk(next[i])
             /\ Issues(next[i + 1], next[i], time, SubordinatesIn(next, i), anchors)
  <2>1. CASE i = n
    BY <1>1, <1>3, <1>4, <2>1 DEF LastEnters
  <2>2. CASE i # n
    <3>1. i \in 1..(n - 1) /\ i + 1 \in 1..n
      BY <1>1, <2>2
    <3> QED
      BY <1>3, <1>4, <3>1 DEF Walked
  <2> QED
    BY <2>1, <2>2
<1>6. ASSUME NEW i \in 1..n, NEW j \in 1..n, next[i] = next[j]
      PROVE  i = j
  <2>1. path[i] = path[j]
    BY <1>3, <1>6
  <2>2. CASE i \in 1..(n - 1) /\ j \in 1..(n - 1)
    BY <2>1, <2>2 DEF Walked
  <2>3. CASE i \notin 1..(n - 1) \/ j \notin 1..(n - 1)
    BY <1>1, <2>1, <2>3 DEF LastEnters
  <2> QED
    BY <2>2, <2>3
<1>7. Len(next) - 1 = n /\ Len(next) <= MaxDepth + 1
  BY <1>1, <1>2 DEF LastEnters
<1> QED
  BY <1>2, <1>5, <1>6, <1>7 DEF Walked, next

\* A path that reached an anchor is a valid one.
LEMMA WalkedIsValid ==
  ASSUME NEW path, NEW time, NEW anchors, Walked(path, time, anchors), LastEnters(path, time),
         path[Len(path)] \in anchors
  PROVE  ValidPath(path, time, anchors)
<1> DEFINE n == Len(path)
<1>1. n \in Nat /\ n > 0 /\ path # <<>> /\ n <= MaxDepth
  BY DEF Walked, LastEnters
<1>2. ASSUME NEW i \in 1..n, NEW j \in 1..n, path[i] = path[j]
      PROVE  i = j
  <2>1. CASE i \in 1..(n - 1) /\ j \in 1..(n - 1)
    BY <1>2, <2>1 DEF Walked
  <2>2. CASE i \notin 1..(n - 1) \/ j \notin 1..(n - 1)
    BY <1>1, <1>2, <2>2 DEF LastEnters
  <2> QED
    BY <2>1, <2>2
<1>3. ASSUME NEW i \in 1..n
      PROVE  TimeOk(path[i], time) /\ (path[i] \in anchors <=> i = n)
  <2>1. CASE i = n
    BY <2>1 DEF LastEnters
  <2>2. CASE i # n
    <3>1. i \in 1..(n - 1)
      BY <1>1, <2>2
    <3> QED
      BY <2>2, <3>1 DEF Walked
  <2> QED
    BY <2>1, <2>2
<1> QED
  BY <1>1, <1>2, <1>3 DEF ValidPath, Walked, SubordinatesIn

\* A path at its leaf.
LEMMA WalkedStart ==
  ASSUME NEW leaf \in Certs, NEW time, NEW anchors
  PROVE  Walked(<<leaf>>, time, anchors)
BY CertPathAssumption DEF Walked

\* Every certificate find_issuer returns may issue the subject.
LEMMA FoundIssues ==
  ASSUME NEW subject \in Certs, NEW time, NEW below, NEW anchors, NEW near \in Seq(Certs),
         NEW issuer \in FindIssuer(subject, time, below, anchors, near)
  PROVE  issuer \in Certs /\ Issues(issuer, subject, time, below, anchors)
<1>1. CASE issuer \in KnownIssuers(subject, time, below, anchors, near)
  BY <1>1 DEF KnownIssuers
<1>2. CASE issuer \in FetchedIssuers(subject, time, below, anchors)
  <2>1. Published[subject] \in Seq(Certs)
    BY CertPathAssumption
  <2> QED
    BY <1>2, <2>1 DEF FetchedIssuers
<1> QED
  BY <1>1, <1>2 DEF FindIssuer

\* A status that counts as an answer never said revoked.
LEMMA AnsweredIsGood ==
  ASSUME NEW policy, NEW issuer, NEW ocsp \in OcspAnswers, NEW crl \in CrlAnswers,
         StatusOf(policy, issuer, ocsp, crl) \in {"ocsp", "crl"}
  PROVE  ~(Usable(policy, ocsp) /\ ocsp.says = "revoked")
BY DEF StatusOf, Usable, OcspAnswers, CrlAnswers

-----------------------------------------------------------------------------
(* The card that signs.                                                      *)

WorldOK ==
  /\ chip \in [Cards -> SoundChips] /\ reader \in Cards \cup {NoCard} /\ session \in Cards \cup {NoCard}
  /\ now \in 0..MaxTime /\ signer \in [Authorities -> Certs] /\ down \subseteq Authorities
  /\ swaps \in 0..MaxSwaps /\ outages \in 0..MaxOutages

RequestOK == at \in Points /\ (at # "idle" => request \in Requests /\ Policy(request))

\* Card k is the one the request is held to.
Fit(k) == request.shown # NoCard => k = request.shown

\* From the binding on, the plan is of the card of the open session; from the
\* signature on, of the card that signed.
CardOK ==
  /\ at \in {"present", "sign"} =>
       /\ plan \in Certs /\ Plannable(request)
       /\ session # NoCard => plan = CardCert[session] /\ Fit(session)
  /\ at \in {"stamp", "walk", "finish"} =>
       /\ signature.good /\ signature.by \in Cards
       /\ plan = CardCert[signature.by] /\ Fit(signature.by)

CardInv == WorldOK /\ RequestOK /\ CardOK /\ SignedByShown

\* What cannot be held still leaves the job alone.
LEMMA WorldKeepsCard ==
  ASSUME CardInv, World
  PROVE  CardInv' /\ UNCHANGED <<at, request, plan, signature, ask, walk, kept, output>>
<1>1. ASSUME NEW k \in Cards, Insert(k)
      PROVE  CardInv' /\ UNCHANGED <<at, request, plan, signature, ask, walk, kept, output>>
  <2>1. WorldOK'
    BY <1>1, DocumentSigningAssumption DEF CardInv, WorldOK, Insert
  <2> QED
    BY <1>1, <2>1 DEF CardInv, RequestOK, CardOK, Fit, SignedByShown, Insert
<1>2. CASE Remove
  <2>1. reader \in Cards /\ Unpowered(chip[reader]) \in SoundChips
    BY <1>2, SelectedSound DEF CardInv, WorldOK, Remove
  <2>2. WorldOK'
    BY <1>2, <2>1 DEF CardInv, WorldOK, Remove
  <2> QED
    BY <1>2, <2>2 DEF CardInv, RequestOK, CardOK, Fit, SignedByShown, Remove
<1>3. CASE Tick
  <2>1. WorldOK'
    BY <1>3, DocumentSigningAssumption DEF CardInv, WorldOK, Tick
  <2> QED
    BY <1>3, <2>1 DEF CardInv, RequestOK, CardOK, Fit, SignedByShown, Tick
<1>4. ASSUME NEW a \in Authorities, Changes(a) \/ Recovers(a)
      PROVE  CardInv' /\ UNCHANGED <<at, request, plan, signature, ask, walk, kept, output>>
  <2>1. signer' \in [Authorities -> Certs] /\ down' \subseteq Authorities
    BY <1>4, DocumentSigningAssumption DEF CardInv, WorldOK, Changes, Recovers
  <2>2. WorldOK'
    BY <1>4, <2>1, DocumentSigningAssumption DEF CardInv, WorldOK, Changes, Recovers
  <2> QED
    BY <1>4, <2>2 DEF CardInv, RequestOK, CardOK, Fit, SignedByShown, Changes, Recovers
<1> QED
  BY <1>1, <1>2, <1>3, <1>4 DEF World

\* A job that returns drops its session and its plan.
LEMMA ReturnKeepsCard ==
  ASSUME CardInv, Returns, at # "idle", chip' \in [Cards -> SoundChips], SignedByShown'
  PROVE  CardInv'
<1>1. WorldOK'
  BY DEF CardInv, WorldOK, Returns
<1> QED
  BY <1>1 DEF CardInv, RequestOK, CardOK, Returns, Points

\* A job that fails writes nothing.
LEMMA FailKeepsCard ==
  ASSUME CardInv, Fails, at # "idle"
  PROVE  CardInv'
<1>1. chip' \in [Cards -> SoundChips] /\ SignedByShown'
  BY DEF CardInv, WorldOK, Fails, SignedByShown
<1> QED
  BY <1>1, ReturnKeepsCard DEF Fails

\* A request that is taken up satisfies the policy: a raw one has no document
\* to hold to it.
LEMMA BeginKeepsCard ==
  ASSUME CardInv, NEW r \in Requests, Begin(r)
  PROVE  CardInv'
<1>1. Policy(r)
  BY DocumentSigningAssumption DEF Begin, Policy
<1>2. WorldOK' /\ SignedByShown'
  BY DEF CardInv, WorldOK, world, Begin, SignedByShown
<1> QED
  BY <1>1, <1>2 DEF CardInv, RequestOK, CardOK, Begin, Points, CardPoints

\* The card is opened and bound.
LEMMA BindKeepsCard ==
  ASSUME CardInv, Open \/ Bind
  PROVE  CardInv'
<1>1. CASE Fails
  BY <1>1, FailKeepsCard DEF Open, Bind
<1>2. CASE Open /\ ~Fails
  <2>1. reader \in Cards /\ Selected(chip[reader]) \in SoundChips
    BY <1>2, SelectedSound DEF Open, CardInv, WorldOK
  <2>2. WorldOK'
    BY <1>2, <2>1 DEF Open, CardInv, WorldOK
  <2> QED
    BY <1>2, <2>2 DEF Open, CardInv, RequestOK, CardOK, SignedByShown, Points, CardPoints
<1>3. CASE Bind /\ ~Fails
  <2>1. session \in Cards /\ request \in Requests /\ Policy(request)
    BY <1>3 DEF Bind, CardInv, WorldOK, RequestOK
  <2>2. Fit(session) /\ Plannable(request)
    BY <1>3, <2>1, DocumentSigningAssumption DEF Bind, Fit, Displayed, Plannable
  <2>3. plan' = CardCert[session] /\ plan' \in Certs
    BY <1>3, <2>1, DocumentSigningAssumption DEF Bind
  <2>4. WorldOK' /\ SignedByShown'
    BY <1>3 DEF Bind, CardInv, WorldOK, world, SignedByShown
  <2> QED
    BY <1>3, <2>1, <2>2, <2>3, <2>4
       DEF Bind, CardInv, RequestOK, CardOK, Points, CardPoints, world, Fit, Plannable
<1> QED
  BY <1>1, <1>2, <1>3

\* The PIN is presented to the card the plan is of.
LEMMA PresentKeepsCard ==
  ASSUME CardInv, Present
  PROVE  CardInv'
<1>1. CASE Fails
  BY <1>1, FailKeepsCard DEF Present
<1>2. CASE ~Fails
  <2> DEFINE right == request.pin = "right"
             after == Verified(chip[session], "pin2", right)
  <2>1. /\ session \in Cards /\ chip' = [chip EXCEPT ![session] = after] /\ output' = output /\ at = "present"
        /\ \/ /\ at' = "sign"
              /\ UNCHANGED <<reader, session, now, signer, down, swaps, outages, request, plan>>
           \/ Returns
    BY <1>2 DEF Present, CardInv, WorldOK
  <2>2. after \in SoundChips
    <3>1. chip[session] \in SoundChips /\ "pin2" \in FlooredCredentials /\ right \in BOOLEAN
      BY <2>1 DEF CardInv, WorldOK, FlooredCredentials, PinSlots
    <3> QED
      BY <3>1, VerifiedSound DEF Comparison
  <2> HIDE DEF after
  <2>3. chip' \in [Cards -> SoundChips] /\ SignedByShown'
    BY <2>1, <2>2 DEF CardInv, WorldOK, SignedByShown
  <2>4. CASE Returns
    BY <2>1, <2>3, <2>4, ReturnKeepsCard
  <2>5. CASE at' = "sign" /\ UNCHANGED <<reader, session, now, signer, down, swaps, outages, request, plan>>
    BY <2>1, <2>3, <2>5
       DEF CardInv, WorldOK, RequestOK, CardOK, Points, CardPoints, Fit, Plannable
  <2> QED
    BY <2>1, <2>4, <2>5
<1> QED
  BY <1>1, <1>2

\* The card signs, and its signature is checked against the plan's certificate.
LEMMA SignKeepsCard ==
  ASSUME CardInv, Sign
  PROVE  CardInv'
<1>1. CASE Fails
  BY <1>1, FailKeepsCard DEF Sign
<1>2. ASSUME NEW good \in BOOLEAN, at = "sign", session # NoCard, LocallyVerified(good),
             signature' = [by |-> session, good |-> good], at' \in {"finish", "stamp"},
             UNCHANGED <<world, request, plan, output>>
      PROVE  CardInv'
  <2>1. signature'.good /\ signature'.by = session /\ session \in Cards
    BY <1>2 DEF LocallyVerified, CardInv, WorldOK
  <2>2. WorldOK' /\ SignedByShown'
    BY <1>2 DEF CardInv, WorldOK, world, SignedByShown
  <2> QED
    BY <1>2, <2>1, <2>2 DEF CardInv, RequestOK, CardOK, Points, Fit
<1> QED
  BY <1>1, <1>2 DEF Sign

\* After the signature neither the plan nor the signature changes, and the
\* document that is written holds both.
LEMMA LaterKeepsCard ==
  ASSUME CardInv, AskAuthority \/ Stamped \/ Unarchived \/ Follow \/ WalkFails \/ Arrive \/ Write
  PROVE  CardInv'
<1>1. at \in {"stamp", "walk", "finish"}
  BY DEF AskAuthority, Stamped, Unarchived, Follow, WalkFails, Arrive, Write
<1>2. CASE Fails
  BY <1>1, <1>2, FailKeepsCard
<1>3. CASE at' \in {"stamp", "walk", "finish"} /\ UNCHANGED <<world, request, plan, signature, output>>
  BY <1>1, <1>3 DEF CardInv, WorldOK, RequestOK, CardOK, SignedByShown, Points, world, Fit
<1>4. CASE Write /\ ~Fails
  <2>1. /\ Returns /\ UNCHANGED chip /\ output'.value = signature /\ output'.plan = plan
        /\ output'.request = request
    BY <1>4 DEF Write
  <2>2. SignedByShown'
    BY <1>1, <2>1 DEF SignedByShown, CardInv, CardOK, Fit
  <2> QED
    BY <1>1, <2>1, <2>2, ReturnKeepsCard DEF CardInv, WorldOK
<1> QED
  BY <1>1, <1>2, <1>3, <1>4
     DEF AskAuthority, Stamped, Unarchived, Follow, WalkFails, Arrive, StartWalk, Write

-----------------------------------------------------------------------------
(* Walks, tokens and evidence, one at a time.                                *)

AnyTokens == [by : Authorities \cup {"none"}, cert : Certs, time : Int, path : Seq(Certs), revoked : BOOLEAN]

Walks == [for : {"token", "signer", "path", "archive"}, token : AnyTokens, path : Seq(Certs), current : Certs,
          below : Nat, time : Int, status : SUBSET Evidence, revoked : BOOLEAN]

Stores == [certs : SUBSET Certs, status : SUBSET Evidence]

\* The certificates entered and the one under the hand.
Trail(w) == Append(w.path, w.current)

\* A status for each certificate but the last, given by its issuer.
StatusAlong(path, status) ==
  \A i \in 1..(Len(path) - 1) : \E e \in status : e.of = path[i] /\ e.by = path[i + 1]

\* A walk from its token's certificate, at its time, with all its evidence.
SoundWalk(w) ==
  /\ w \in Walks /\ Walked(Trail(w), w.time, Anchors(w.for))
  /\ Trail(w)[1] = w.token.cert /\ w.time = w.token.time
  /\ w.below = SubordinatesIn(Trail(w), Len(w.path)) /\ ~w.revoked
  /\ w.for # "path" => StatusAlong(Trail(w), w.status)

\* A walk at its start.
LEMMA StartSound ==
  ASSUME NEW for \in {"token", "signer", "path", "archive"}, NEW token \in AnyTokens, StartWalk(for, token)
  PROVE  /\ SoundWalk(walk') /\ walk'.for = for /\ walk'.token = token /\ walk'.path = <<>> /\ at' = "walk"
<1> DEFINE w == [for |-> for, token |-> token, path |-> <<>>, current |-> token.cert,
                 below |-> 0, time |-> token.time, status |-> {}, revoked |-> FALSE]
<1>1. walk' = w /\ at' = "walk"
  BY DEF StartWalk, NotWalking
<1>2. token.cert \in Certs /\ token.time \in Int
  BY DEF AnyTokens
<1>3. w \in Walks
  BY <1>2 DEF Walks
<1>4. Trail(w) = <<token.cert>> /\ Len(<<token.cert>>) = 1
  BY DEF Trail
<1>5. Walked(<<token.cert>>, w.time, Anchors(w.for)) /\ SubordinatesIn(Trail(w), 0) = 0
  BY <1>2, WalkedStart, SubordinatesGrow
<1>6. /\ w.for = for /\ w.token = token /\ w.path = <<>> /\ w.below = 0 /\ w.time = token.time
      /\ ~w.revoked /\ Len(w.path) = 0
  OBVIOUS
<1> HIDE DEF w
<1>7. SoundWalk(w)
  BY <1>3, <1>4, <1>5, <1>6 DEF SoundWalk, StatusAlong
<1> QED
  BY <1>1, <1>6, <1>7

\* What a walk enters is the end of its trail.
LEMMA EntersLast ==
  ASSUME SoundWalk(walk)
  PROVE  /\ Trail(walk) \in Seq(Certs) /\ Len(Trail(walk)) = Len(walk.path) + 1 /\ Len(walk.path) \in Nat
         /\ Trail(walk)[Len(Trail(walk))] = walk.current /\ walk.current \in Certs
         /\ \A i \in DOMAIN walk.path : Trail(walk)[i] = walk.path[i] /\ i \in 1..Len(walk.path)
         /\ Enters => LastEnters(Trail(walk), walk.time)
<1>1. walk.path \in Seq(Certs) /\ walk.current \in Certs /\ MaxDepth \in Nat
  BY CertPathAssumption DEF SoundWalk, Walks
<1>2. /\ Trail(walk) \in Seq(Certs) /\ Len(Trail(walk)) = Len(walk.path) + 1
      /\ Trail(walk)[Len(walk.path) + 1] = walk.current
      /\ \A i \in DOMAIN walk.path : Trail(walk)[i] = walk.path[i] /\ i \in 1..Len(walk.path)
  BY <1>1 DEF Trail
<1>3. DOMAIN walk.path = 1..Len(walk.path) /\ Len(walk.path) \in Nat
  BY <1>1
<1> QED
  BY <1>1, <1>2, <1>3 DEF Enters, LastEnters

\* One turn of the loop.
LEMMA FollowSound ==
  ASSUME SoundWalk(walk), Follow
  PROVE  /\ SoundWalk(walk') /\ walk'.for = walk.for /\ walk'.token = walk.token /\ walk'.time = walk.time
         /\ Len(walk'.path) <= MaxDepth
<1> DEFINE roots == Anchors(walk.for)
           trail == Trail(walk)
<1>0. PICK issuer \in FindIssuer(walk.current, walk.time, Below, roots, Near) : \E step \in StatusSteps(issuer) :
        walk' = [walk EXCEPT !.path = Append(@, walk.current), !.current = issuer,
                   !.below = Below, !.status = @ \cup step.status, !.revoked = @ \/ step.revoked]
  BY DEF Follow
<1>1. PICK step \in StatusSteps(issuer) :
        walk' = [walk EXCEPT !.path = Append(@, walk.current), !.current = issuer,
                   !.below = Below, !.status = @ \cup step.status, !.revoked = @ \/ step.revoked]
  BY <1>0
<1>2. Enters /\ ~Arrived /\ ProfileOk(walk.current) /\ walk \in Walks /\ ~walk.revoked
  BY DEF Follow, SoundWalk
<1>3. Near \in Seq(Certs)
  <2>1. AnchorSeq(walk.for) \in Seq(Certs)
    BY DocumentSigningAssumption DEF AnchorSeq
  <2>2. trail \in Seq(Certs) /\ Len(trail) > 0
    BY EntersLast
  <2> HIDE DEF trail
  <2>3. Head(trail) \in Certs /\ Tail(trail) \in Seq(Certs)
    BY <2>2
  <2>4. Embedded[Head(trail)] \in Seq(Certs)
    BY <2>3, DocumentSigningAssumption
  <2>5. Candidates = <<Head(trail)>> \o (IF walk.for = "signer" THEN <<>> ELSE Embedded[Head(trail)]) \o Tail(trail)
    BY DEF Candidates, trail, Trail
  <2>6. Candidates \in Seq(Certs)
    BY <2>3, <2>4, <2>5
  <2> QED
    BY <2>1, <2>6 DEF Near
<1>4. issuer \in Certs /\ Issues(issuer, walk.current, walk.time, Below, roots) /\ walk.current \in Certs
  BY <1>2, <1>3, FoundIssues DEF Walks
<1>5. Below = SubordinatesIn(trail, Len(trail)) /\ Below \in Nat
  <2>1. /\ SubordinatesIn(trail, Len(walk.path) + 1) =
             SubordinatesIn(trail, Len(walk.path)) + (IF Subordinate(trail[Len(walk.path) + 1]) THEN 1 ELSE 0)
        /\ SubordinatesIn(trail, Len(walk.path)) \in Nat
    BY EntersLast, SubordinatesGrow
  <2> QED
    BY <2>1, EntersLast DEF SoundWalk, Below
<1>6. /\ ~step.revoked /\ step.status \subseteq Evidence
      /\ walk.for # "path" => \E e \in step.status : e.of = walk.current /\ e.by = issuer
  <2>1. CASE walk.for = "path"
    BY <2>1 DEF StatusSteps
  <2>2. CASE walk.for # "path"
    <3>1. PICK q \in OcspAnswers \X CrlAnswers :
            /\ StatusOf(NoncePolicy(walk.for), issuer, q[1], q[2]) \in {"ocsp", "crl"}
            /\ step = [status |-> {[of |-> walk.current, by |-> issuer]},
                       revoked |-> Usable(NoncePolicy(walk.for), q[1]) /\ q[1].says = "revoked"]
      BY <2>2 DEF StatusSteps
    <3>2. ~(Usable(NoncePolicy(walk.for), q[1]) /\ q[1].says = "revoked")
      BY <3>1, AnsweredIsGood
    <3>3. [of |-> walk.current, by |-> issuer] \in Evidence
      BY <1>4 DEF Evidence
    <3> QED
      BY <3>1, <3>2, <3>3
  <2> QED
    BY <2>1, <2>2
<1>7. /\ walk'.path = trail /\ walk'.current = issuer /\ walk'.below = Below
      /\ walk'.status = walk.status \cup step.status /\ walk'.revoked = (walk.revoked \/ step.revoked)
      /\ walk'.for = walk.for /\ walk'.token = walk.token /\ walk'.time = walk.time
  BY <1>1, <1>2 DEF Walks, Trail
<1>8. walk' \in Walks
  <2>1. trail \in Seq(Certs) /\ walk.status \cup step.status \in SUBSET Evidence
    BY <1>2, <1>6, EntersLast DEF Walks
  <2>2. (walk.revoked \/ step.revoked) \in BOOLEAN
    OBVIOUS
  <2> DEFINE path == Append(walk.path, walk.current)
             status == walk.status \cup step.status
             revoked == walk.revoked \/ step.revoked
  <2>3. path \in Seq(Certs) /\ status \in SUBSET Evidence /\ revoked \in BOOLEAN
    BY <2>1 DEF Trail
  <2>4. walk' = [walk EXCEPT !.path = path, !.current = issuer, !.below = Below,
                             !.status = status, !.revoked = revoked]
    BY <1>1
  <2> HIDE DEF path, status, revoked
  <2> QED
    BY <1>2, <1>4, <1>5, <2>3, <2>4 DEF Walks
<1>9. /\ Trail(walk') = Append(trail, issuer)
      /\ trail \in Seq(Certs) /\ Len(trail) \in Nat /\ Len(trail) > 0 /\ Len(trail) <= MaxDepth
      /\ trail[Len(trail)] = walk.current
  BY <1>2, <1>7, EntersLast DEF Trail, LastEnters
<1> DEFINE next == Append(trail, issuer)
<1> HIDE DEF trail
<1>10. /\ next[Len(trail) + 1] = issuer /\ Len(next) = Len(trail) + 1
       /\ \A i \in 1..Len(trail) : next[i] = trail[i]
  BY <1>4, <1>9
<1>11. Walked(next, walk.time, roots)
  <2>1. Walked(trail, walk.time, roots) /\ LastEnters(trail, walk.time) /\ walk.current \notin roots
    BY <1>2, EntersLast DEF SoundWalk, trail, Arrived
  <2> QED
    BY <1>2, <1>4, <1>5, <1>9, <2>1, WalkedFurther
<1>12. SubordinatesIn(next, Len(trail)) = SubordinatesIn(trail, Len(trail))
  <2>1. {j \in 1..Len(trail) : Subordinate(next[j])} = {j \in 1..Len(trail) : Subordinate(trail[j])}
    BY <1>10
  <2> QED
    BY <2>1 DEF SubordinatesIn
<1>13. walk.for # "path" => StatusAlong(next, walk.status \cup step.status)
  <2> SUFFICES ASSUME walk.for # "path", NEW i \in 1..Len(trail)
               PROVE  \E e \in walk.status \cup step.status : e.of = next[i] /\ e.by = next[i + 1]
    BY <1>9, <1>10 DEF StatusAlong
  <2>1. CASE i = Len(trail)
    BY <1>6, <1>9, <1>10, <2>1
  <2>2. CASE i # Len(trail)
    <3>1. i \in 1..(Len(trail) - 1) /\ i + 1 \in 1..Len(trail)
      BY <1>9, <2>2
    <3>2. StatusAlong(trail, walk.status)
      BY DEF SoundWalk, trail
    <3> QED
      BY <1>10, <3>1, <3>2 DEF StatusAlong
  <2> QED
    BY <2>1, <2>2
<1>14. next[1] = walk.token.cert
  BY <1>9, <1>10 DEF SoundWalk, trail
<1> HIDE DEF next
<1>15. SoundWalk(walk')
  <2>1. Trail(walk') = next /\ walk'.path = trail
    BY <1>7, <1>9 DEF next, trail
  <2> QED
    BY <1>2, <1>5, <1>6, <1>7, <1>8, <1>11, <1>12, <1>13, <1>14, <2>1 DEF SoundWalk
<1> QED
  BY <1>7, <1>9, <1>15 DEF trail

\* A walk that has reached an anchor.
LEMMA ArriveSound ==
  ASSUME SoundWalk(walk), Enters, Arrived
  PROVE  /\ ValidPath(Trail(walk), walk.token.time, Anchors(walk.for))
         /\ Trail(walk)[1] = walk.token.cert /\ Len(Trail(walk)) <= MaxDepth /\ Len(Trail(walk)) \in Nat \ {0}
         /\ Trail(walk) \in Seq(Certs) /\ (walk.for # "path" => StatusAlong(Trail(walk), walk.status))
<1>1. LastEnters(Trail(walk), walk.time) /\ Trail(walk)[Len(Trail(walk))] \in Anchors(walk.for)
  BY EntersLast DEF Arrived
<1>2. ValidPath(Trail(walk), walk.time, Anchors(walk.for))
  BY <1>1, WalkedIsValid DEF SoundWalk
<1> QED
  BY <1>1, <1>2, EntersLast DEF SoundWalk, LastEnters

\* Some token has the earliest time.
HasEarliest(ts) == ts # <<>> => \E i \in DOMAIN ts : \A j \in DOMAIN ts : ts[i].time <= ts[j].time

\* It still is one when a token is added.
LEMMA EarliestGrows ==
  ASSUME NEW ts \in Seq(Tokens), HasEarliest(ts), NEW token \in Tokens
  PROVE  /\ HasEarliest(Append(ts, token)) /\ Append(ts, token) \in Seq(Tokens) /\ Append(ts, token) # <<>>
         /\ Len(Append(ts, token)) = Len(ts) + 1
         /\ \A i \in DOMAIN Append(ts, token) : Append(ts, token)[i] = token \/ \E j \in DOMAIN ts : Append(ts, token)[i] = ts[j]
<1> DEFINE more == Append(ts, token)
           n == Len(ts)
<1>1. /\ more \in Seq(Tokens) /\ more # <<>> /\ Len(more) = n + 1 /\ DOMAIN more = 1..(n + 1)
      /\ more[n + 1] = token /\ (\A i \in 1..n : more[i] = ts[i]) /\ n \in Nat /\ DOMAIN ts = 1..n
  OBVIOUS
<1>2. token.time \in Int /\ \A i \in 1..n : ts[i].time \in Int
  <2>1. \A i \in 1..n : ts[i] \in Tokens
    OBVIOUS
  <2> QED
    BY <2>1 DEF Tokens
<1> HIDE DEF more
<1>3. ASSUME ts = <<>>
      PROVE  HasEarliest(more)
  <2>1. n = 0
    BY <1>3
  <2>2. 1 \in DOMAIN more /\ \A j \in DOMAIN more : j = 1
    BY <1>1, <2>1
  <2>3. more[1] = token
    BY <1>1, <2>1
  <2> QED
    BY <1>2, <2>2, <2>3 DEF HasEarliest
<1>4. ASSUME ts # <<>>
      PROVE  HasEarliest(more)
  <2>1. PICK i \in 1..n : \A j \in 1..n : ts[i].time <= ts[j].time
    BY <1>1, <1>4 DEF HasEarliest
  <2>2. CASE ts[i].time <= token.time
    <3>1. i \in DOMAIN more /\ \A j \in DOMAIN more : more[i].time <= more[j].time
      BY <1>1, <2>1, <2>2
    <3> QED
      BY <3>1 DEF HasEarliest
  <2>3. CASE ~(ts[i].time <= token.time)
    <3>1. n + 1 \in DOMAIN more /\ \A j \in DOMAIN more : more[n + 1].time <= more[j].time
      BY <1>1, <1>2, <2>1, <2>3
    <3> QED
      BY <3>1 DEF HasEarliest
  <2> QED
    BY <2>2, <2>3
<1>5. \A i \in DOMAIN more : more[i] = token \/ \E j \in DOMAIN ts : more[i] = ts[j]
  BY <1>1
<1> QED
  BY <1>1, <1>3, <1>4, <1>5 DEF more

\* The time the signer's path is judged at.
LEMMA EarliestTime ==
  ASSUME tokens \in Seq(Tokens), tokens # <<>>, HasEarliest(tokens)
  PROVE  Earliest \in Int /\ \A i \in DOMAIN tokens : Earliest <= tokens[i].time
<1>1. PICK i \in DOMAIN tokens : \A j \in DOMAIN tokens : tokens[i].time <= tokens[j].time
  BY DEF HasEarliest
<1>2. \A j \in DOMAIN tokens : tokens[j].time \in Int
  <2>1. \A j \in DOMAIN tokens : tokens[j] \in Tokens
    OBVIOUS
  <2> QED
    BY <2>1 DEF Tokens
<1> DEFINE times == {tokens[j].time : j \in DOMAIN tokens}
<1>3. tokens[i].time \in times
  OBVIOUS
<1>4. Earliest \in times /\ \A j \in DOMAIN tokens : Earliest <= tokens[j].time
  BY <1>1, <1>3 DEF Earliest
<1> QED
  BY <1>2, <1>4

\* Evidence is never taken out of the store.
LEMMA EvidencedGrows ==
  ASSUME NEW path, NEW store, NEW more, NEW first, Evidenced(path, store, first),
         store.certs \subseteq more.certs, store.status \subseteq more.status
  PROVE  Evidenced(path, more, first)
BY DEF Evidenced

\* A path that was followed leaves its evidence in the store.
LEMMA MergedEvidenced ==
  ASSUME material \in Stores, walk \in Walks, walk.for # "path", NEW path \in Seq(Certs), path # <<>>,
         StatusAlong(path, walk.status)
  PROVE  /\ Merged(path) \in Stores
         /\ material.certs \subseteq Merged(path).certs /\ material.status \subseteq Merged(path).status
         /\ Evidenced(path, Merged(path), IF walk.for = "signer" THEN 2 ELSE 1)
<1> DEFINE kept_ == {path[i] : i \in IF walk.for = "signer" /\ Len(path) > 1 THEN 2..Len(path) ELSE DOMAIN path}
<1>1. Merged(path).certs = material.certs \cup kept_ /\ Merged(path).status = material.status \cup walk.status
  BY DEF Merged
<1>2. DOMAIN path = 1..Len(path) /\ Len(path) \in Nat /\ \A i \in 1..Len(path) : path[i] \in Certs
  OBVIOUS
<1>3. kept_ \subseteq Certs /\ walk.status \subseteq Evidence
  BY <1>2 DEF Walks
<1>4. \A i \in (IF walk.for = "signer" THEN 2 ELSE 1)..Len(path) : path[i] \in kept_
  BY <1>2
<1>5. Merged(path) \in Stores
  BY <1>3 DEF Merged, Stores
<1> HIDE DEF kept_
<1>6. Evidenced(path, Merged(path), IF walk.for = "signer" THEN 2 ELSE 1)
  BY <1>1, <1>4 DEF Evidenced, StatusAlong
<1> QED
  BY <1>1, <1>5, <1>6

-----------------------------------------------------------------------------
(* The evidence of a job, step by step.                                      *)

Asks == [for : {"signature", "archive"}, left : Seq(Authorities), since : Nat]

\* A token with a valid path from its certificate and all its evidence.
Proved(token, store) ==
  /\ ValidPath(token.path, token.time, Anchors("token")) /\ token.path[1] = token.cert
  /\ ~token.revoked /\ Evidenced(token.path, store, 1)

TokensOK ==
  /\ tokens \in Seq(Tokens) /\ material \in Stores /\ HasEarliest(tokens)
  /\ \A i \in DOMAIN tokens : Len(tokens[i].path) <= MaxDepth
  /\ at # "idle" =>
       /\ Len(tokens) <= Len(Asked)
       /\ LongTerm => \A i \in DOMAIN tokens : Proved(tokens[i], material)
  /\ at \in CardPoints \cup {"done"} => tokens = <<>>

\* No authority is asked twice for the signature timestamps.
AskOK ==
  at \in {"stamp", "walk"} =>
    /\ ask \in Asks
    /\ ask.for = "signature" => Len(tokens) + Len(ask.left) <= Len(Asked)

WalkOK ==
  /\ at # "walk" => walk.path = <<>>
  /\ at = "walk" =>
       /\ SoundWalk(walk) /\ Len(walk.path) <= MaxDepth /\ LongTerm
       /\ walk.for = "token" => ask.for = "signature" /\ ask.left # <<>> /\ walk.token \in Tokens
       /\ walk.for = "signer" =>
            /\ ask.for = "signature" /\ tokens # <<>> /\ walk.token.cert = plan
            /\ \A i \in DOMAIN tokens : walk.token.time <= tokens[i].time
       /\ walk.for \in {"path", "archive"} => ask.for = "archive" /\ ask.left # <<>>
       /\ walk.for = "archive" => PathWithin(material.certs, walk.token, Anchors("token"))

SignerDone ==
  /\ tokens # <<>> /\ ValidPath(own.path, own.time, Anchors("signer")) /\ own.path[1] = plan
  /\ ~own.revoked /\ Evidenced(own.path, material, 2)
  /\ \A i \in DOMAIN tokens : own.time <= tokens[i].time

ArchiveDone ==
  /\ ValidPath(outer.path, outer.time, Anchors("token")) /\ outer.path[1] = outer.cert
  /\ ~outer.revoked /\ PathWithin(material.certs, outer, Anchors("token"))

\* What is done before the archive timestamp is asked for, and before the
\* document is written.
StagesOK ==
  /\ at \in {"stamp", "walk"} /\ ask.for = "archive" => request.level = "LTA" /\ SignerDone
  /\ at = "finish" =>
       /\ Asked # <<>> => tokens # <<>>
       /\ LongTerm => SignerDone
       /\ request.level = "LTA" => ArchiveDone

EvidenceInv == TokensOK /\ AskOK /\ WalkOK /\ StagesOK /\ LevelKept

\* A step of the world, or none.
LEMMA EvidenceSame ==
  ASSUME EvidenceInv, UNCHANGED <<at, request, plan, ask, walk, kept, output>>
  PROVE  EvidenceInv'
<1>1. UNCHANGED <<at, request, plan, ask, walk, tokens, material, own, outer, output>>
  BY DEF kept
<1>2. TokensOK'
  BY <1>1 DEF EvidenceInv, TokensOK, Asked, LongTerm
<1>3. AskOK' /\ WalkOK'
  BY <1>1 DEF EvidenceInv, AskOK, WalkOK, Asked, LongTerm
<1>4. StagesOK'
  BY <1>1 DEF EvidenceInv, StagesOK, SignerDone, ArchiveDone, Asked, LongTerm
<1>5. LevelKept'
  BY <1>1 DEF EvidenceInv, LevelKept
<1> QED
  BY <1>2, <1>3, <1>4, <1>5 DEF EvidenceInv

\* Nothing has been collected: the tokens are none and no walk is under way.
LEMMA NothingCollected ==
  ASSUME tokens' = <<>>, material' \in Stores, walk'.path = <<>>, LevelKept',
         at' \in CardPoints \cup {"done"}, at' # "idle" => request' \in Requests
  PROVE  EvidenceInv'
<1>1. at' \notin {"stamp", "walk", "finish"}
  BY DEF CardPoints
<1>2. <<>> \in Seq(Tokens) /\ DOMAIN <<>> = {} /\ Len(<<>>) = 0
  OBVIOUS
<1>3. at' # "idle" => Len(Asked') \in Nat
  BY DocumentSigningAssumption DEF Asked, RequestType
<1>4. TokensOK'
  BY <1>2, <1>3 DEF TokensOK, HasEarliest
<1> QED
  BY <1>1, <1>4 DEF EvidenceInv, AskOK, WalkOK, StagesOK

\* A job that returns drops what it collected.
LEMMA ReturnDrops ==
  ASSUME CardInv, Returns, at # "idle", LevelKept'
  PROVE  EvidenceInv'
<1>1. tokens' = <<>> /\ at' = "done" /\ walk'.path = <<>> /\ request' \in Requests
  BY DEF Returns, NotWalking, CardInv, RequestOK
<1>2. material' \in Stores
  BY DEF Returns, NoMaterial, Stores
<1> QED
  BY <1>1, <1>2, NothingCollected

\* A job that fails, whatever it was at.
LEMMA FailDrops ==
  ASSUME CardInv, EvidenceInv, Fails, at # "idle"
  PROVE  EvidenceInv'
<1>1. LevelKept'
  BY DEF Fails, EvidenceInv, LevelKept
<1> QED
  BY <1>1, ReturnDrops DEF Fails

\* Up to the PIN nothing is collected.
LEMMA EarlyKeeps ==
  ASSUME CardInv, CardInv', EvidenceInv, (\E r \in Requests : Begin(r)) \/ Open \/ Bind \/ Present
  PROVE  EvidenceInv'
<1>1. at \in CardPoints
  BY DEF Begin, Open, Bind, Present, CardPoints
<1>2. CASE Fails /\ at # "idle"
  BY <1>2, FailDrops
<1>3. CASE Returns /\ at # "idle" /\ output' = output
  <2>1. LevelKept'
    BY <1>3 DEF EvidenceInv, LevelKept
  <2> QED
    BY <1>3, <2>1, ReturnDrops
<1>4. CASE at' \in CardPoints \ {"idle"} /\ UNCHANGED <<walk, kept, output>>
  <2>1. tokens' = <<>> /\ material' \in Stores /\ walk'.path = <<>>
    BY <1>1, <1>4 DEF kept, EvidenceInv, TokensOK, WalkOK, CardPoints
  <2>2. LevelKept'
    BY <1>4 DEF EvidenceInv, LevelKept
  <2>3. request' \in Requests
    BY <1>4 DEF CardInv, RequestOK
  <2> QED
    BY <1>4, <2>1, <2>2, <2>3, NothingCollected
<1>5. \A r \in Requests : Begin(r) => at' \in CardPoints \ {"idle"} /\ UNCHANGED <<walk, kept, output>>
  BY DEF Begin, CardPoints
<1>6. Open => Fails \/ (at' \in CardPoints \ {"idle"} /\ UNCHANGED <<walk, kept, output>>)
  BY DEF Open, CardPoints
<1>7. Bind => Fails \/ (at' \in CardPoints \ {"idle"} /\ UNCHANGED <<walk, kept, output>>)
  BY DEF Bind, CardPoints
<1>8. Present => \/ Fails \/ (Returns /\ output' = output)
                 \/ (at' \in CardPoints \ {"idle"} /\ UNCHANGED <<walk, kept, output>>)
  BY DEF Present, CardPoints
<1>9. Open \/ Bind \/ Present => at # "idle"
  BY DEF Open, Bind, Present
<1> QED
  BY <1>2, <1>3, <1>4, <1>5, <1>6, <1>7, <1>8, <1>9

\* The signature is there, and its timestamps are to be asked for.
LEMMA SignKeeps ==
  ASSUME CardInv, EvidenceInv, Sign
  PROVE  EvidenceInv'
<1>1. CASE Fails
  BY <1>1, FailDrops DEF Sign
<1>2. CASE ~Fails
  <2>1. /\ at = "sign" /\ UNCHANGED <<world, request, plan, walk, kept, output>>
        /\ \/ request.format = "raw" /\ at' = "finish"
           \/ at' = "stamp" /\ ask' = Asking("signature")
    BY <1>2 DEF Sign
  <2>2. /\ tokens' = <<>> /\ material' \in Stores /\ walk'.path = <<>> /\ UNCHANGED request
        /\ request \in Requests /\ now \in Nat
    BY <2>1, DocumentSigningAssumption
       DEF kept, EvidenceInv, TokensOK, WalkOK, CardPoints, CardInv, RequestOK, WorldOK
  <2>3. request.authorities \in Seq(Authorities) /\ Len(Asked') \in Nat /\ Len(Asked') = Len(Asked)
    BY <2>2, DocumentSigningAssumption DEF RequestType, Asked
  <2>4. <<>> \in Seq(Tokens) /\ DOMAIN <<>> = {} /\ Len(<<>>) = 0
    OBVIOUS
  <2>5. TokensOK'
    BY <2>1, <2>2, <2>3, <2>4 DEF TokensOK, HasEarliest, CardPoints
  <2>6. LevelKept' /\ WalkOK'
    BY <2>1, <2>2 DEF EvidenceInv, LevelKept, WalkOK
  <2>7. AskOK' /\ StagesOK'
    <3>1. CASE request.format = "raw" /\ at' = "finish"
      <4>1. Asked' = <<>> /\ ~LongTerm' /\ request'.level # "LTA"
        BY <2>2, <3>1, DocumentSigningAssumption DEF Asked, LongTerm
      <4> QED
        BY <3>1, <4>1 DEF AskOK, StagesOK
    <3>2. CASE at' = "stamp" /\ ask' = Asking("signature")
      <4>1. ask' \in Asks /\ ask'.for = "signature" /\ ask'.left = Asked
        BY <2>2, <2>3, <3>2 DEF Asks, Asking, Asked
      <4> QED
        BY <2>2, <2>3, <2>4, <3>2, <4>1 DEF AskOK, StagesOK
    <3> QED
      BY <2>1, <3>1, <3>2
  <2> QED
    BY <2>5, <2>6, <2>7 DEF EvidenceInv
<1> QED
  BY <1>1, <1>2

\* The next authority.
LEMMA NextStep ==
  ASSUME ask \in Asks, ask.left # <<>>, now \in Nat, NextAuthority
  PROVE  ask' \in Asks /\ ask'.for = ask.for /\ Len(ask'.left) = Len(ask.left) - 1 /\ Len(ask.left) \in Nat
<1>1. ask.left \in Seq(Authorities)
  BY DEF Asks
<1>2. Tail(ask.left) \in Seq(Authorities) /\ Len(Tail(ask.left)) = Len(ask.left) - 1 /\ Len(ask.left) \in Nat
  BY <1>1
<1> QED
  BY <1>2 DEF NextAuthority, Asks

\* A token and its evidence are kept, or the authority passed over, and the
\* next one is asked.
LEMMA BackToAsking ==
  ASSUME CardInv, EvidenceInv, at \in {"stamp", "walk"}, ask.left # <<>>, NextAuthority,
         at' = "stamp", walk'.path = <<>>, TokensOK', UNCHANGED <<request, plan, own, output>>,
         \/ UNCHANGED <<tokens, material>>
         \/ ask.for = "signature" /\ Len(tokens') = Len(tokens) + 1
  PROVE  EvidenceInv'
<1>1. ask' \in Asks /\ ask'.for = ask.for /\ Len(ask'.left) = Len(ask.left) - 1 /\ Len(ask.left) \in Nat
  <2>1. ask \in Asks /\ now \in Nat
    BY DocumentSigningAssumption DEF EvidenceInv, AskOK, CardInv, WorldOK
  <2> QED
    BY <2>1, NextStep
<1>2. Len(tokens) \in Nat /\ Len(tokens') \in Nat /\ Len(Asked) \in Nat /\ Asked' = Asked
  <2>1. tokens \in Seq(Tokens) /\ tokens' \in Seq(Tokens) /\ request \in Requests
    BY DEF EvidenceInv, TokensOK, CardInv, RequestOK
  <2>2. request.authorities \in Seq(Authorities)
    BY <2>1, DocumentSigningAssumption DEF RequestType
  <2> QED
    BY <2>1, <2>2 DEF Asked
<1>3. AskOK'
  BY <1>1, <1>2 DEF EvidenceInv, AskOK
<1>4. StagesOK'
  BY <1>1 DEF EvidenceInv, StagesOK, SignerDone
<1>5. LevelKept' /\ WalkOK'
  BY DEF EvidenceInv, LevelKept, WalkOK
<1> QED
  BY <1>3, <1>4, <1>5 DEF EvidenceInv

\* A signature timestamp is kept.
LEMMA TokenAdded ==
  ASSUME CardInv, EvidenceInv, at \in {"stamp", "walk"}, ask.for = "signature", ask.left # <<>>,
         NEW token \in Tokens, Len(token.path) <= MaxDepth, LongTerm => Proved(token, material'),
         material' \in Stores, material.certs \subseteq material'.certs, material.status \subseteq material'.status,
         tokens' = Append(tokens, token), at' = "stamp", UNCHANGED request
  PROVE  TokensOK' /\ Len(tokens') = Len(tokens) + 1
<1>1. tokens \in Seq(Tokens) /\ HasEarliest(tokens) /\ request \in Requests /\ ask.left \in Seq(Authorities)
  BY DEF EvidenceInv, TokensOK, CardInv, RequestOK, AskOK, Asks
<1>2. /\ HasEarliest(tokens') /\ tokens' \in Seq(Tokens) /\ Len(tokens') = Len(tokens) + 1
      /\ \A i \in DOMAIN tokens' : tokens'[i] = token \/ \E j \in DOMAIN tokens : tokens'[i] = tokens[j]
  BY <1>1, EarliestGrows
<1>3. Len(tokens') <= Len(Asked')
  <2>1. Len(tokens) + Len(ask.left) <= Len(Asked) /\ Asked' = Asked
    BY DEF EvidenceInv, AskOK, Asked
  <2>2. Len(ask.left) > 0 /\ Len(ask.left) \in Nat /\ Len(tokens) \in Nat
    BY <1>1
  <2>3. Len(Asked) \in Nat
    BY <1>1, DocumentSigningAssumption DEF Asked, RequestType
  <2> QED
    BY <1>2, <2>1, <2>2, <2>3
<1>4. \A i \in DOMAIN tokens' : Len(tokens'[i].path) <= MaxDepth
  BY <1>2 DEF EvidenceInv, TokensOK
<1>5. ASSUME LongTerm', NEW i \in DOMAIN tokens'
      PROVE  Proved(tokens'[i], material')
  <2>1. LongTerm /\ at # "idle"
    BY <1>5 DEF LongTerm
  <2>2. ASSUME NEW j \in DOMAIN tokens
        PROVE  Proved(tokens[j], material')
    <3>1. Proved(tokens[j], material)
      BY <2>1 DEF EvidenceInv, TokensOK
    <3> QED
      BY <3>1, EvidencedGrows DEF Proved
  <2> QED
    BY <1>2, <1>5, <2>1, <2>2
<1> QED
  BY <1>2, <1>3, <1>4, <1>5 DEF TokensOK, CardPoints

\* What holds of the tokens while they stay.
LEMMA TokensStay ==
  ASSUME EvidenceInv, at \notin {"idle"}, at' \in {"stamp", "walk", "finish"}, UNCHANGED <<request, tokens>>,
         material' \in Stores, material.certs \subseteq material'.certs, material.status \subseteq material'.status
  PROVE  TokensOK'
<1>1. ASSUME LongTerm, NEW i \in DOMAIN tokens
      PROVE  Proved(tokens[i], material')
  <2>1. Proved(tokens[i], material)
    BY <1>1 DEF EvidenceInv, TokensOK
  <2> QED
    BY <2>1, EvidencedGrows DEF Proved
<1> QED
  BY <1>1 DEF EvidenceInv, TokensOK, CardPoints, Asked, LongTerm

\* An authority is asked.
LEMMA AskKeeps ==
  ASSUME CardInv, EvidenceInv, AskAuthority
  PROVE  EvidenceInv'
<1> DEFINE a == Head(ask.left)
<1>1. /\ at = "stamp" /\ ask.left # <<>> /\ UNCHANGED <<world, request, plan, signature, output>>
      /\ walk.path = <<>> /\ ask \in Asks /\ request \in Requests /\ material \in Stores
  BY DEF AskAuthority, EvidenceInv, WalkOK, AskOK, CardInv, RequestOK, TokensOK
<1>2. CASE NextAuthority /\ UNCHANGED <<at, walk, kept>>
  <2>1. UNCHANGED <<tokens, material, own, outer>> /\ TokensOK'
    BY <1>1, <1>2, TokensStay DEF kept
  <2> QED
    BY <1>1, <1>2, <2>1, BackToAsking
<1>3. ASSUME NEW time \in {now, now + Skew}, NEW token,
             token = [by |-> a, cert |-> signer[a], time |-> time, path |-> <<>>, revoked |-> FALSE],
             \/ /\ LongTerm /\ StartWalk(IF ask.for = "archive" THEN "path" ELSE "token", token)
                /\ UNCHANGED <<ask, kept>>
             \/ /\ ~LongTerm /\ tokens' = Append(tokens, token) /\ NextAuthority
                /\ UNCHANGED <<at, walk, material, own, outer>>
      PROVE  EvidenceInv'
  <2>1. token \in Tokens /\ token.path = <<>>
    <3>1. a \in Authorities
      BY <1>1 DEF Asks
    <3>2. signer[a] \in Certs /\ time \in Int
      BY <1>3, <3>1, DocumentSigningAssumption DEF CardInv, WorldOK
    <3> HIDE DEF a
    <3> QED
      BY <1>3, <3>1, <3>2 DEF Tokens
  <2>2. token \in AnyTokens
    BY <2>1 DEF Tokens, AnyTokens
  <2>3. CASE LongTerm /\ StartWalk(IF ask.for = "archive" THEN "path" ELSE "token", token) /\ UNCHANGED <<ask, kept>>
    <3> DEFINE for == IF ask.for = "archive" THEN "path" ELSE "token"
    <3>1. /\ SoundWalk(walk') /\ walk'.for = for /\ walk'.token = token /\ walk'.path = <<>> /\ at' = "walk"
      BY <2>2, <2>3, StartSound
    <3>2. UNCHANGED <<tokens, material, own, outer>> /\ TokensOK'
      BY <1>1, <2>3, <3>1, TokensStay DEF kept
    <3>3. AskOK' /\ StagesOK' /\ LevelKept'
      BY <1>1, <2>3, <3>1, <3>2 DEF EvidenceInv, AskOK, StagesOK, SignerDone, LevelKept, Asked
    <3>4. Len(walk'.path) <= MaxDepth
      BY <3>1, CertPathAssumption
    <3>5. ask.for \in {"signature", "archive"}
      BY <1>1 DEF Asks
    <3>6. WalkOK'
      BY <1>1, <2>1, <2>3, <3>1, <3>4, <3>5 DEF WalkOK, LongTerm
    <3> QED
      BY <3>2, <3>3, <3>6 DEF EvidenceInv
  <2>4. CASE ~LongTerm /\ tokens' = Append(tokens, token) /\ NextAuthority
             /\ UNCHANGED <<at, walk, material, own, outer>>
    <3>1. ask.for = "signature"
      BY <1>1, <2>4 DEF EvidenceInv, StagesOK, LongTerm, Asks
    <3>2. Len(token.path) <= MaxDepth
      BY <2>1, CertPathAssumption
    <3>3. TokensOK' /\ Len(tokens') = Len(tokens) + 1
      BY <1>1, <2>1, <2>4, <3>1, <3>2, TokenAdded
    <3> QED
      BY <1>1, <2>4, <3>1, <3>3, BackToAsking
  <2> QED
    BY <1>3, <2>3, <2>4
<1> QED
  BY <1>2, <1>3 DEF AskAuthority

\* The signature timestamps are collected, and the signer's path begins.
LEMMA StampedKeeps ==
  ASSUME CardInv, EvidenceInv, Stamped \/ Unarchived
  PROVE  EvidenceInv'
<1>1. at = "stamp" /\ request \in Requests /\ material \in Stores /\ walk.path = <<>>
  BY DEF Stamped, Unarchived, EvidenceInv, TokensOK, WalkOK, CardInv, RequestOK
<1>2. CASE Fails
  BY <1>1, <1>2, FailDrops
<1>3. CASE /\ Stamped /\ tokens # <<>> /\ LongTerm
           /\ StartWalk("signer", [NoToken EXCEPT !.cert = plan, !.time = Earliest])
           /\ UNCHANGED <<world, request, plan, signature, ask, kept, output>>
  <2> DEFINE token == [NoToken EXCEPT !.cert = plan, !.time = Earliest]
  <2>1. Earliest \in Int /\ \A i \in DOMAIN tokens : Earliest <= tokens[i].time
    BY <1>3, EarliestTime DEF EvidenceInv, TokensOK
  <2>2. plan \in Certs
    BY <1>1, DocumentSigningAssumption DEF CardInv, CardOK
  <2>3. token \in AnyTokens /\ token.cert = plan /\ token.time = Earliest
    <3> DEFINE Base == [by : Authorities \cup {"none"}, cert : Certs \cup {"none"}, time : Int,
                        path : Seq(Certs), revoked : BOOLEAN]
    <3>1. NoToken \in Base
      BY DEF NoToken
    <3>2. token \in Base /\ token.cert = plan /\ token.time = Earliest
      BY <2>1, <2>2, <3>1
    <3> HIDE DEF token
    <3> QED
      BY <2>2, <3>2 DEF AnyTokens
  <2> HIDE DEF token
  <2>4. /\ SoundWalk(walk') /\ walk'.for = "signer" /\ walk'.token = token /\ walk'.path = <<>> /\ at' = "walk"
    BY <1>3, <2>3, StartSound DEF token
  <2>5. UNCHANGED <<tokens, material, own, outer>> /\ TokensOK'
    BY <1>1, <1>3, <2>4, TokensStay DEF kept
  <2>6. AskOK' /\ StagesOK' /\ LevelKept'
    BY <1>1, <1>3, <2>4, <2>5 DEF EvidenceInv, AskOK, StagesOK, SignerDone, LevelKept, Asked
  <2>7. Len(walk'.path) <= MaxDepth
    BY <2>4, CertPathAssumption
  <2>8. ask'.for = "signature"
    BY <1>3 DEF Stamped
  <2>9. WalkOK'
    BY <1>3, <2>1, <2>3, <2>4, <2>5, <2>7, <2>8 DEF WalkOK, LongTerm
  <2> QED
    BY <2>5, <2>6, <2>9 DEF EvidenceInv
<1>4. CASE /\ (tokens # <<>> \/ Asked = <<>>) /\ ~LongTerm /\ at' = "finish"
           /\ UNCHANGED <<world, request, plan, signature, ask, walk, kept, output>>
  <2>1. UNCHANGED <<tokens, material, own, outer>> /\ TokensOK'
    BY <1>1, <1>4, TokensStay DEF kept
  <2>2. AskOK' /\ WalkOK' /\ LevelKept'
    BY <1>1, <1>4 DEF EvidenceInv, AskOK, WalkOK, LevelKept
  <2>3. StagesOK'
    BY <1>4, <2>1 DEF StagesOK, LongTerm, Asked
  <2> QED
    BY <2>1, <2>2, <2>3 DEF EvidenceInv
<1> QED
  BY <1>2, <1>3, <1>4 DEF Stamped, Unarchived

\* A walk goes on, or fails.
LEMMA WalkKeeps ==
  ASSUME CardInv, EvidenceInv, Follow \/ WalkFails
  PROVE  EvidenceInv'
<1>1. /\ at = "walk" /\ SoundWalk(walk) /\ material \in Stores /\ ask \in Asks
      /\ walk.for \in {"token", "signer", "path", "archive"}
  BY DEF Follow, WalkFails, EvidenceInv, TokensOK, WalkOK, AskOK, SoundWalk, Walks
<1>2. CASE Fails
  BY <1>1, <1>2, FailDrops
<1>3. CASE Follow
  <2>1. UNCHANGED <<at, request, plan, ask, tokens, material, own, outer, output>>
    BY <1>3 DEF Follow, kept
  <2>2. /\ SoundWalk(walk') /\ walk'.for = walk.for /\ walk'.token = walk.token
        /\ Len(walk'.path) <= MaxDepth
    BY <1>1, <1>3, FollowSound
  <2>3. WalkOK'
    BY <1>1, <2>1, <2>2 DEF EvidenceInv, WalkOK, LongTerm
  <2>4. TokensOK'
    BY <1>1, <2>1, TokensStay
  <2>5. AskOK' /\ StagesOK' /\ LevelKept'
    BY <2>1 DEF EvidenceInv, AskOK, StagesOK, SignerDone, ArchiveDone, LevelKept, Asked, LongTerm
  <2> QED
    BY <2>3, <2>4, <2>5 DEF EvidenceInv
<1>4. CASE /\ walk.for # "signer" /\ at' = "stamp" /\ walk' = NotWalking /\ NextAuthority
           /\ UNCHANGED <<world, request, plan, signature, kept, output>>
  <2>1. UNCHANGED <<tokens, material, own, outer>> /\ TokensOK'
    BY <1>1, <1>4, TokensStay DEF kept
  <2>2. ask.left # <<>> /\ walk'.path = <<>>
    BY <1>1, <1>4 DEF EvidenceInv, WalkOK, NotWalking
  <2> QED
    BY <1>1, <1>4, <2>1, <2>2, BackToAsking
<1> QED
  BY <1>2, <1>3, <1>4 DEF WalkFails

\* A walk reaches its anchor: its evidence is kept, or its token chosen.
LEMMA ArriveKeeps ==
  ASSUME CardInv, EvidenceInv, Arrive
  PROVE  EvidenceInv'
<1> DEFINE path == Trail(walk)
           token == [walk.token EXCEPT !.path = path, !.revoked = walk.revoked]
<1>1. /\ at = "walk" /\ Enters /\ Arrived /\ SoundWalk(walk) /\ material \in Stores /\ ask \in Asks /\ LongTerm
      /\ walk \in Walks /\ ~walk.revoked /\ UNCHANGED <<world, request, plan, signature, output>>
      /\ request \in Requests /\ now \in Nat
  BY DocumentSigningAssumption
     DEF Arrive, EvidenceInv, TokensOK, WalkOK, AskOK, SoundWalk, CardInv, RequestOK, WorldOK
<1>2. /\ ValidPath(path, walk.token.time, Anchors(walk.for)) /\ path[1] = walk.token.cert
      /\ Len(path) <= MaxDepth /\ Len(path) \in Nat \ {0} /\ path \in Seq(Certs)
      /\ walk.for # "path" => StatusAlong(path, walk.status)
  BY <1>1, ArriveSound
<1>3. path # <<>> /\ DOMAIN path = 1..Len(path)
  BY <1>2
<1>4. /\ token.path = path /\ token.revoked = walk.revoked /\ token.cert = walk.token.cert
      /\ token.time = walk.token.time
  BY <1>1 DEF Walks, AnyTokens
<1>5. Anchors("path") = Anchors("token") /\ Anchors("archive") = Anchors("token")
  BY DEF Anchors, AnchorSeq
<1>6. CASE /\ walk.for = "token"
           /\ tokens' = Append(tokens, token) /\ material' = Merged(path)
           /\ at' = "stamp" /\ walk' = NotWalking /\ NextAuthority /\ UNCHANGED <<own, outer>>
  <2>1. token \in Tokens
    <3>1. walk.token \in Tokens /\ walk.revoked \in BOOLEAN
      BY <1>1, <1>6 DEF EvidenceInv, WalkOK, Walks
    <3> HIDE DEF path
    <3> QED
      BY <1>2, <3>1 DEF Tokens
  <2>2. /\ material' \in Stores /\ material.certs \subseteq material'.certs
        /\ material.status \subseteq material'.status /\ Evidenced(path, material', 1)
    BY <1>1, <1>2, <1>3, <1>6, MergedEvidenced
  <2> HIDE DEF token, path
  <2>3. Proved(token, material')
    BY <1>1, <1>2, <1>4, <1>6, <2>2 DEF Proved
  <2>4. ask.for = "signature" /\ ask.left # <<>>
    BY <1>1, <1>6 DEF EvidenceInv, WalkOK
  <2>5. TokensOK' /\ Len(tokens') = Len(tokens) + 1
    BY <1>1, <1>2, <1>4, <1>6, <2>1, <2>2, <2>3, <2>4, TokenAdded
  <2>6. walk'.path = <<>>
    BY <1>6 DEF NotWalking
  <2> QED
    BY <1>1, <1>6, <2>4, <2>5, <2>6, BackToAsking
<1>7. CASE /\ walk.for = "signer"
           /\ material' = Merged(path) /\ walk' = NotWalking
           /\ IF request.level = "LTA"
              THEN at' = "stamp" /\ ask' = Asking("archive")
              ELSE at' = "finish" /\ UNCHANGED ask
           /\ own' = token /\ UNCHANGED <<tokens, outer>>
  <2>1. /\ material' \in Stores /\ material.certs \subseteq material'.certs
        /\ material.status \subseteq material'.status /\ Evidenced(path, material', 2)
    BY <1>1, <1>2, <1>3, <1>7, MergedEvidenced
  <2> HIDE DEF token, path
  <2>2. TokensOK'
    BY <1>1, <1>7, <2>1, TokensStay
  <2>3. /\ tokens # <<>> /\ walk.token.cert = plan
        /\ \A i \in DOMAIN tokens : walk.token.time <= tokens[i].time
    BY <1>1, <1>7 DEF EvidenceInv, WalkOK
  <2>4. SignerDone'
    BY <1>1, <1>2, <1>4, <1>7, <2>1, <2>3 DEF SignerDone
  <2>5. WalkOK' /\ LevelKept'
    BY <1>1, <1>7 DEF EvidenceInv, WalkOK, LevelKept, NotWalking
  <2>6. CASE request.level = "LTA"
    <3>1. Asked \in Seq(Authorities)
      BY <1>1, DocumentSigningAssumption DEF Asked, RequestType
    <3>2. ask' \in Asks /\ ask'.for = "archive" /\ at' = "stamp"
      BY <1>1, <1>7, <2>6, <3>1 DEF Asking, Asks
    <3>3. AskOK' /\ StagesOK'
      BY <1>1, <2>4, <2>6, <3>2 DEF AskOK, StagesOK
    <3> QED
      BY <2>2, <2>5, <3>3 DEF EvidenceInv
  <2>7. CASE request.level # "LTA"
    <3>1. AskOK' /\ StagesOK'
      BY <1>1, <1>7, <2>3, <2>4, <2>7 DEF AskOK, StagesOK
    <3> QED
      BY <2>2, <2>5, <3>1 DEF EvidenceInv
  <2> QED
    BY <2>6, <2>7
<1>8. CASE walk.for \in {"path", "archive"} /\ UNCHANGED <<tokens, material, own>> /\ at' \in {"stamp", "walk", "finish"}
  <2>1. TokensOK' /\ ask.for = "archive" /\ ask.left # <<>> /\ request.level = "LTA" /\ SignerDone
    BY <1>1, <1>8, TokensStay DEF EvidenceInv, WalkOK, StagesOK
  <2>2. SignerDone' /\ LevelKept'
    BY <1>1, <1>8, <2>1 DEF SignerDone, EvidenceInv, LevelKept
  <2>3. CASE walk.for = "path" /\ Covered(path, material.certs) /\ StartWalk("archive", walk.token) /\ UNCHANGED ask
    <3>1. walk.token \in AnyTokens
      BY <1>1 DEF Walks
    <3>2. /\ SoundWalk(walk') /\ walk'.for = "archive" /\ walk'.token = walk.token /\ walk'.path = <<>> /\ at' = "walk"
      BY <2>3, <3>1, StartSound
    <3>3. PathWithin(material.certs, walk.token, Anchors("token"))
      <4>1. path \in [1..Len(path) -> material.certs] /\ Len(path) \in 1..MaxDepth
        BY <1>2, <1>3, <2>3, CertPathAssumption DEF Covered
      <4> HIDE DEF path
      <4>2. ValidPath(path, walk.token.time, Anchors("token"))
        BY <1>2, <1>5, <2>3
      <4> QED
        BY <1>2, <4>1, <4>2 DEF PathWithin
    <3>4. Len(walk'.path) <= MaxDepth
      BY <3>2, CertPathAssumption
    <3>5. WalkOK'
      BY <1>1, <1>8, <2>1, <2>3, <3>2, <3>3, <3>4 DEF WalkOK, LongTerm
    <3>6. AskOK' /\ StagesOK'
      BY <1>1, <1>8, <2>1, <2>2, <2>3, <3>2 DEF AskOK, StagesOK
    <3> QED
      BY <2>1, <2>2, <3>5, <3>6 DEF EvidenceInv
  <2>4. CASE walk.for = "path" /\ at' = "stamp" /\ walk' = NotWalking /\ NextAuthority
    <3>1. walk'.path = <<>>
      BY <2>4 DEF NotWalking
    <3> QED
      BY <1>1, <1>8, <2>1, <2>4, <3>1, BackToAsking
  <2>5. CASE walk.for = "archive" /\ outer' = token /\ at' = "finish" /\ walk' = NotWalking /\ UNCHANGED ask
    <3>1. PathWithin(material.certs, token, Anchors("token"))
      <4>1. PathWithin(material.certs, walk.token, Anchors("token"))
        BY <1>1, <2>5 DEF EvidenceInv, WalkOK
      <4> HIDE DEF token
      <4> QED
        BY <1>4, <4>1 DEF PathWithin
    <3> HIDE DEF token, path
    <3>2. ArchiveDone'
      BY <1>1, <1>2, <1>4, <1>5, <1>8, <2>5, <3>1 DEF ArchiveDone
    <3>3. WalkOK' /\ AskOK'
      BY <2>5 DEF WalkOK, AskOK, NotWalking
    <3>4. StagesOK'
      BY <1>1, <1>8, <2>1, <2>2, <2>5, <3>2 DEF StagesOK, SignerDone
    <3> QED
      BY <2>1, <2>2, <3>3, <3>4 DEF EvidenceInv
  <2> QED
    BY <1>8, <2>3, <2>4, <2>5 DEF Arrive, Trail
<1> QED
  BY <1>6, <1>7, <1>8 DEF Arrive, Trail, StartWalk, kept

\* A document is written with what was collected for its level.
LEMMA WriteKeeps ==
  ASSUME CardInv, EvidenceInv, Write
  PROVE  EvidenceInv'
<1>1. CASE Fails
  BY <1>1, FailDrops DEF Write
<1>2. CASE ~Fails
  <2>1. /\ at = "finish" /\ Returns
        /\ output'.request = request /\ output'.plan = plan /\ output'.tokens = tokens
        /\ output'.material = material /\ output'.own = own /\ output'.outer = outer
    BY <1>2 DEF Write
  <2>2. /\ Asked # <<>> => tokens # <<>>
        /\ LongTerm => SignerDone
        /\ request.level = "LTA" => ArchiveDone
        /\ LongTerm => \A i \in DOMAIN tokens : Proved(tokens[i], material)
        /\ tokens \in Seq(Tokens)
    BY <2>1 DEF EvidenceInv, StagesOK, TokensOK
  <2> DEFINE all == {tokens[i] : i \in DOMAIN tokens}
  <2>3. request.authorities # <<>> => all # {}
    <3> SUFFICES ASSUME request.authorities # <<>>
                 PROVE  1 \in DOMAIN tokens
      OBVIOUS
    <3>1. tokens # <<>>
      BY <2>2 DEF Asked
    <3> QED
      BY <2>2, <3>1
  <2>4. request.level # "B" =>
          /\ \A t \in all : /\ ValidPath(t.path, t.time, Anchors("token")) /\ t.path[1] = t.cert
                            /\ Evidenced(t.path, material, 1) /\ ~t.revoked
          /\ \A t \in all : own.time <= t.time
    BY <2>2 DEF Proved, SignerDone, LongTerm
  <2>5. request.level # "B" =>
          /\ own.path[1] = plan /\ ~own.revoked
          /\ ValidPath(own.path, own.time, Anchors("signer")) /\ Evidenced(own.path, material, 2)
    BY <2>2 DEF SignerDone, LongTerm
  <2>6. request.level = "LTA" =>
          /\ ValidPath(outer.path, outer.time, Anchors("token")) /\ outer.path[1] = outer.cert
          /\ ~outer.revoked /\ PathWithin(material.certs, outer, Anchors("token"))
    BY <2>2 DEF ArchiveDone
  <2>7. {output'.tokens[i] : i \in DOMAIN output'.tokens} = all
    BY <2>1
  <2> HIDE DEF all
  <2>8. LevelKept'
    BY <2>1, <2>3, <2>4, <2>5, <2>6, <2>7 DEF LevelKept
  <2> QED
    BY <2>1, <2>8, ReturnDrops
<1> QED
  BY <1>1, <1>2

-----------------------------------------------------------------------------
(* Theorems.                                                                 *)

\* The job's invariants, step by step.
LEMMA CardNext ==
  ASSUME CardInv, [Next]_vars
  PROVE  CardInv'
<1>1. CASE UNCHANGED vars
  BY <1>1 DEF vars, world, CardInv, WorldOK, RequestOK, CardOK, Fit, SignedByShown
<1> QED
  BY <1>1, WorldKeepsCard, BeginKeepsCard, BindKeepsCard, PresentKeepsCard, SignKeepsCard, LaterKeepsCard
     DEF Next, Job

\* Before anything is asked.
LEMMA InitInv ==
  ASSUME Init
  PROVE  CardInv /\ EvidenceInv
<1>1. WorldOK
  BY DocumentSigningAssumption DEF Init, WorldOK, SoundChips
<1>2. CardInv
  BY <1>1 DEF Init, CardInv, RequestOK, CardOK, SignedByShown, Points, CardPoints
<1>3. material \in Stores /\ <<>> \in Seq(Tokens) /\ DOMAIN <<>> = {} /\ walk.path = <<>>
  BY DEF Init, NoMaterial, Stores, NotWalking
<1>4. EvidenceInv
  BY <1>3 DEF Init, EvidenceInv, TokensOK, HasEarliest, AskOK, WalkOK, StagesOK, LevelKept
<1> QED
  BY <1>2, <1>4

\* The plan follows the card, whatever is done to the reader.
THEOREM CardInvariant == Spec => []CardInv
<1>1. Init => CardInv
  BY InitInv
<1>2. CardInv /\ [Next]_vars => CardInv'
  BY CardNext
<1> QED
  BY <1>1, <1>2, PTL DEF Spec

\* What a job has collected is always evidence for the level it is to reach.
THEOREM EvidenceInvariant == Spec => []EvidenceInv
<1>1. Init => EvidenceInv
  BY InitInv
<1>2. ASSUME CardInv, EvidenceInv, [Next]_vars
      PROVE  EvidenceInv'
  <2>1. CASE UNCHANGED vars
    BY <1>2, <2>1, EvidenceSame DEF vars
  <2>2. CASE World
    BY <1>2, <2>2, WorldKeepsCard, EvidenceSame
  <2>3. CASE (\E r \in Requests : Begin(r)) \/ Open \/ Bind \/ Present
    BY <1>2, <2>3, CardNext, EarlyKeeps
  <2> QED
    BY <1>2, <2>1, <2>2, <2>3, SignKeeps, AskKeeps, StampedKeeps, WalkKeeps, ArriveKeeps, WriteKeeps
       DEF Next, Job
<1>3. CardInv /\ EvidenceInv /\ [Next]_vars => EvidenceInv'
  BY <1>2
<1> QED
  BY <1>1, <1>3, CardInvariant, PTL DEF Spec

\* Every variable of a signing keeps its type, no token more is kept than
\* authorities were asked, and no path outgrows MAX_DEPTH.
THEOREM TypeCorrect == Spec => []TypeOK
<1>1. CardInv /\ EvidenceInv => TypeOK
  <2> SUFFICES ASSUME CardInv, EvidenceInv
               PROVE  TypeOK
    OBVIOUS
  <2>1. chip \in [Cards -> Chips]
    BY DEF CardInv, WorldOK, SoundChips
  <2>2. Len(walk.path) <= MaxDepth
    BY CertPathAssumption DEF EvidenceInv, WalkOK
  <2>3. material.certs \subseteq Certs /\ material.status \subseteq Evidence
    BY DEF EvidenceInv, TokensOK, Stores
  <2>4. \A i \in 1..Len(tokens) : tokens[i] \in Tokens /\ Len(tokens[i].path) <= MaxDepth
    BY DEF EvidenceInv, TokensOK
  <2>5. at # "idle" => request \in Requests /\ Len(tokens) <= Len(Asked)
    BY DEF CardInv, RequestOK, EvidenceInv, TokensOK
  <2> QED
    BY <2>1, <2>2, <2>3, <2>4, <2>5 DEF TypeOK, CardInv, WorldOK, RequestOK
<1> QED
  BY <1>1, CardInvariant, EvidenceInvariant, PTL

\* A document that was written was signed by the card that was shown, with a
\* signature its own certificate verifies, whichever cards come and go.
THEOREM ShownCardSigns == Spec => []SignedByShown
<1>1. CardInv => SignedByShown
  BY DEF CardInv
<1> QED
  BY <1>1, CardInvariant, PTL

\* Only the step that presents PIN 2 moves a counter, one of the session's card.
LEMMA OnlyPresentSpends ==
  ASSUME CardInv, Next, NEW k \in Cards, chip'[k].tries # chip[k].tries
  PROVE  /\ at = "present" /\ k = session /\ ServedByFloor("pin2", PinStatus(chip[k], "pin2"))
         /\ chip' = [chip EXCEPT ![k] = Verified(chip[k], "pin2", request.pin = "right")]
<1>1. chip \in [Cards -> SoundChips] /\ reader \in Cards \cup {NoCard} /\ session \in Cards \cup {NoCard}
  BY DEF CardInv, WorldOK
<1>2. ~(chip' = chip)
  OBVIOUS
<1>3. \A c \in Cards : ~(chip' = [chip EXCEPT ![c] = Selected(chip[c])] \/ chip' = [chip EXCEPT ![c] = Unpowered(chip[c])])
  BY <1>1, SelectedSound
<1>4. ~World
  BY <1>1, <1>2, <1>3 DEF World, Insert, Remove, Tick, Changes, Recovers
<1>5. ~(\E r \in Requests : Begin(r)) /\ ~Open /\ ~Bind /\ ~Sign
  BY <1>1, <1>2, <1>3 DEF Begin, Open, Bind, Sign, Fails, world
<1>6. ~(AskAuthority \/ Stamped \/ Unarchived \/ Follow \/ WalkFails \/ Arrive \/ Write)
  BY <1>2 DEF AskAuthority, Stamped, Unarchived, Follow, WalkFails, Arrive, Write, Fails, world
<1>7. Present
  BY <1>4, <1>5, <1>6 DEF Next, Job
<1>8. /\ at = "present" /\ session \in Cards /\ ServedByFloor("pin2", PinStatus(chip[session], "pin2"))
      /\ chip' = [chip EXCEPT ![session] = Verified(@, "pin2", request.pin = "right")]
  BY <1>1, <1>2, <1>7 DEF Present, Fails
<1>9. k = session
  BY <1>1, <1>8
<1> QED
  BY <1>8, <1>9

\* A try is spent only on the card the finished plan is of, and on the card
\* that was shown where one was, for a request that can be carried out.
THEOREM ShownCardPays == Spec => SpentOnShown
<1>1. ASSUME CardInv, [Next]_vars
      PROVE  [\A k \in Cards : chip'[k].tries # chip[k].tries =>
                /\ plan = CardCert[k] /\ Policy(request) /\ Plannable(request)
                /\ request.shown # NoCard => k = request.shown]_vars
  <2> SUFFICES ASSUME Next, NEW k \in Cards, chip'[k].tries # chip[k].tries
               PROVE  /\ plan = CardCert[k] /\ Policy(request) /\ Plannable(request)
                      /\ request.shown # NoCard => k = request.shown
    BY <1>1
  <2>1. at = "present" /\ k = session
    BY <1>1, OnlyPresentSpends
  <2> QED
    BY <1>1, <2>1, DocumentSigningAssumption DEF CardInv, CardOK, RequestOK, Fit
<1>2. CardInv /\ [Next]_vars =>
        [\A k \in Cards : chip'[k].tries # chip[k].tries =>
           /\ plan = CardCert[k] /\ Policy(request) /\ Plannable(request)
           /\ request.shown # NoCard => k = request.shown]_vars
  BY <1>1
<1> QED
  BY <1>2, CardInvariant, PTL DEF Spec, SpentOnShown

\* The abstract specification's credentials are these.
LEMMA TriesNames ==
  /\ Tries!FlooredCredentials = FlooredCredentials /\ Tries!PinSlots = PinSlots
  /\ Tries!RetriesPristine = RetriesPristine
BY DEF Tries!FlooredCredentials, FlooredCredentials, Tries!PinSlots, PinSlots,
       Tries!RetriesPristine, RetriesPristine

\* The PIN's step is one the promise has: PIN 2 is accepted or refused from three
\* tries up.
LEMMA PresentPromised ==
  ASSUME CardInv, Next, NEW k \in Cards, chip'[k].tries # chip[k].tries
  PROVE  Tries!Next
<1> DEFINE right == request.pin = "right"
           after == Verified(chip[k], "pin2", right)
           tries == [c \in Cards |-> chip[c].tries]
           left  == [c \in Cards |-> chip'[c].tries]
<1>1. ServedByFloor("pin2", PinStatus(chip[k], "pin2")) /\ chip' = [chip EXCEPT ![k] = after]
  BY OnlyPresentSpends
<1>2. /\ chip \in [Cards -> SoundChips] /\ chip[k] \in SoundChips
      /\ "pin2" \in PinSlots /\ "pin2" \in FlooredCredentials /\ right \in BOOLEAN
  BY DEF CardInv, WorldOK, FlooredCredentials, PinSlots
<1>3. chip[k].tries["pin2"] >= 3
  BY <1>1, <1>2, FlooredPin
<1>4. Comparison(chip[k], after, "pin2", right)
  BY <1>2, VerifiedSound
<1> HIDE DEF after, right
<1>5. /\ chip[k].tries \in [FlooredCredentials -> 0..RetriesPristine]
      /\ after.tries \in [FlooredCredentials -> 0..RetriesPristine]
      /\ \A j \in FlooredCredentials \ {"pin2"} : after.tries[j] = chip[k].tries[j]
  BY <1>2, <1>4 DEF Comparison, SoundChips, Chips
<1>6. left = [tries EXCEPT ![k] = after.tries] /\ tries[k] = chip[k].tries
  BY <1>1, <1>2
<1>7. CASE Answer(chip[k], "pin2", right) = "wrong"
  <2>1. after.tries = [chip[k].tries EXCEPT !["pin2"] = @ - 1]
    BY <1>4, <1>5, <1>7 DEF Comparison
  <2>2. left = [tries EXCEPT ![k]["pin2"] = @ - 1]
    BY <1>6, <2>1
  <2>3. Tries!Refused(k, "pin2")
    BY <1>3, <1>6, <2>2 DEF Tries!Refused, Tries!AboveLastTwo
  <2> QED
    BY <1>2, <2>3, TriesNames DEF Tries!Next
<1>8. CASE Answer(chip[k], "pin2", right) = "ok"
  <2>1. after.tries = [chip[k].tries EXCEPT !["pin2"] = RetriesPristine]
    BY <1>4, <1>5, <1>8 DEF Comparison
  <2>2. left = [tries EXCEPT ![k]["pin2"] = RetriesPristine]
    BY <1>6, <2>1
  <2>3. Tries!Accepted(k, "pin2")
    BY <1>3, <1>6, <2>2, TriesNames DEF Tries!Accepted, Tries!AboveLastTwo
  <2> QED
    BY <1>2, <2>3, TriesNames DEF Tries!Next
<1> QED
  BY <1>3, <1>7, <1>8 DEF Answer

\* A signing moves the cards' counters only as CardTries promises, from any
\* counters and whatever cards are exchanged: PIN 2 is presented from three
\* tries up, and nothing else is.
THEOREM SigningKeepsTries == Spec => KeepsTries
<1>1. Init => Tries!Init
  <2> SUFFICES ASSUME Init
               PROVE  Tries!Init
    OBVIOUS
  <2>1. chip \in [Cards -> SoundChips]
    BY InitInv DEF CardInv, WorldOK
  <2>2. [k \in Cards |-> chip[k].tries] \in [Cards -> [FlooredCredentials -> 0..RetriesPristine]]
    BY <2>1 DEF SoundChips, Chips
  <2> QED
    BY <2>2, TriesNames DEF Tries!Init
<1>2. ASSUME CardInv, [Next]_vars
      PROVE  [Tries!Next]_(Tries!vars)
  <2>1. CASE \A k \in Cards : chip'[k].tries = chip[k].tries
    BY <2>1 DEF Tries!vars
  <2>2. CASE ~\A k \in Cards : chip'[k].tries = chip[k].tries
    <3>1. Next
      BY <1>2, <2>2 DEF vars, world
    <3> QED
      BY <1>2, <2>2, <3>1, PresentPromised
  <2> QED
    BY <2>1, <2>2
<1>3. CardInv /\ [Next]_vars => [Tries!Next]_(Tries!vars)
  BY <1>2
<1> QED
  BY <1>1, <1>3, CardInvariant, PTL DEF Spec, KeepsTries, Tries!Spec

\* A document that was written has the level it was asked for, for any
\* certificates and any answers of the network: every kept timestamp and the
\* signer at the earliest attested time with a valid path to a pinned root and
\* its evidence in the store, and the archive timestamp with a path within it.
THEOREM LevelReached == Spec => []LevelKept
<1>1. EvidenceInv => LevelKept
  BY DEF EvidenceInv
<1> QED
  BY <1>1, EvidenceInvariant, PTL

=============================================================================
