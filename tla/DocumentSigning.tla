-------------------------- MODULE DocumentSigning --------------------------
(* One signing with the card's qualified key, as sign_qualified of            *)
(* crates/refineid-doc-sign/src/service.rs runs it: the card is bound and the *)
(* PIN presented, then the timestamps and the evidence of the long-term       *)
(* levels are fetched from the network with the card session still open, and  *)
(* the document is written.                                                   *)
(*                                                                            *)
(* Beside it runs what it cannot hold still: the card is exchanged, time      *)
(* passes, an authority goes away or takes a new certificate between two of   *)
(* its answers, and every answer about a certificate may be anything.         *)
EXTENDS CertPath, CardChip

CONSTANTS
  Cards, NoCard,  \* the cards, and an empty reader
  CardCert,       \* CardCert[k]: the signature certificate on card k
  Nameless,       \* the cards that publish no serial
  Starts,         \* the states a card may start in
  Contactless,    \* whether the reader is: the card then answers only after PACE
  Authorities,    \* timestamp authorities
  TsaCerts,       \* TsaCerts[a]: the certificates authority a may sign with
  FirstSigners,   \* the certificates the authorities may start with
  Embedded,       \* Embedded[c]: the certificates a token signed with c carries
  SignerRoots, TsaRoots,  \* PINNED_ROOT_DER, PINNED_TSA_ROOT_DER
  Requests,       \* what may be asked
  Skew,           \* MAX_TIMESTAMP_CLOCK_SKEW
  MaxTime,        \* bound: the clock
  MaxSwaps,       \* bound: cards inserted
  MaxOutages      \* bound: an authority goes away, or changes its certificate

Formats == {"cades", "pades", "asic_cades", "asic_xades"}

\* A raw signature is a request without a document, which holds all but the PIN
\* and the access number (SignOptions).  authorities: in the order given; shown:
\* the card displayed when the request was made, NoCard when the caller passes
\* no serial; pin: whether the PIN typed is right; can: whether the access
\* number is given, and right.
RequestType ==
  [format : Formats \cup {"raw"}, level : {"B", "LT", "LTA"}, authorities : Seq(Authorities),
   credentials : {"none", "https", "http"}, files : 1..2, shown : Cards \cup {NoCard},
   pin : {"right", "wrong"}, can : {"none", "right", "wrong"}]

ASSUME DocumentSigningAssumption ==
  /\ NoCard \notin Cards /\ CardCert \in [Cards -> Certs] /\ Nameless \subseteq Cards
  /\ Starts \subseteq {c \in Chips : VerifiedIsFull(c)}
  /\ Contactless \in BOOLEAN /\ TsaCerts \in [Authorities -> SUBSET Certs]
  /\ FirstSigners \subseteq [Authorities -> Certs]
  /\ \A f \in FirstSigners, a \in Authorities : f[a] \in TsaCerts[a]
  /\ Embedded \in [Certs -> Seq(Certs)] /\ SignerRoots \in Seq(Certs) /\ TsaRoots \in Seq(Certs)
  /\ Requests \subseteq RequestType
  /\ \A r \in Requests : r.format = "raw" =>
       /\ r.level = "B" /\ r.authorities = <<>> /\ r.credentials = "none"
       /\ r.files = 1 /\ r.shown = NoCard
  /\ \A n \in {Skew, MaxTime, MaxSwaps, MaxOutages} : n \in Nat

VARIABLES
  chip,      \* chip[k]: the state of each card
  reader,    \* the card in the reader
  session,   \* the card of the open session; NoCard once it was taken out
  now,       \* the clock
  signer,    \* signer[a]: the certificate authority a signs with
  down,      \* the authorities that fail in a way worth a retry
  swaps, outages,  \* counts against the bounds
  at,        \* where the job is
  request,   \* what it was asked
  plan,      \* the certificate its document is built around
  signature, \* what the card returned
  ask,       \* the timestamp being asked for
  walk,      \* the path being followed
  tokens,    \* the signature timestamps kept
  material,  \* the evidence merged so far
  own,       \* the signer's own path
  outer,     \* the archive timestamp
  output     \* the document at the output path

world == <<chip, reader, session, now, signer, down, swaps, outages>>
kept == <<tokens, material, own, outer>>
vars == <<world, at, request, plan, signature, ask, walk, kept, output>>

\* Cards are moved while a step of the job may still read one; after the
\* signature none does.
CardPoints == {"idle", "open", "bind", "present", "sign"}
Points == CardPoints \cup {"stamp", "walk", "finish", "done"}

Tokens == [by : Authorities, cert : Certs, time : Int, path : Seq(Certs), revoked : BOOLEAN]
NoToken == [by |-> "none", cert |-> "none", time |-> 0, path |-> <<>>, revoked |-> FALSE]

\* An OCSP response or a CRL: who it is about and whose word it is.
Evidence == [of : Certs, by : Certs]
NoMaterial == [certs |-> {}, status |-> {}]

NoSignature == [by |-> NoCard, good |-> TRUE]

\* for: a signature timestamp or the archive timestamp; left: the authorities
\* not yet asked; since: when the one being asked was first asked.
NotAsking == [for |-> "none", left |-> <<>>, since |-> 0]

\* for: a token's evidence, the signer's, the archive token's bare path, or its
\* evidence.  revoked: an answer on this path said so.
NotWalking == [for |-> "none", token |-> NoToken, path |-> <<>>, current |-> "none",
               below |-> 0, time |-> 0, status |-> {}, revoked |-> FALSE]

\* The job's own record of a document, with the contents its archive token
\* was computed over.
NoDocument == [request |-> "none"]

Asked == request.authorities
LongTerm == request.level # "B"

TypeOK ==
  /\ chip \in [Cards -> Chips] /\ reader \in Cards \cup {NoCard} /\ session \in Cards \cup {NoCard}
  /\ now \in 0..MaxTime /\ signer \in [Authorities -> Certs] /\ down \subseteq Authorities
  /\ swaps \in 0..MaxSwaps /\ outages \in 0..MaxOutages /\ at \in Points
  /\ at # "idle" => request \in Requests /\ Len(tokens) <= Len(Asked)
  /\ Len(walk.path) <= MaxDepth
  /\ material.certs \subseteq Certs /\ material.status \subseteq Evidence
  /\ \A i \in 1..Len(tokens) : tokens[i] \in Tokens /\ Len(tokens[i].path) <= MaxDepth

-----------------------------------------------------------------------------
(* The world.                                                                *)

Insert(k) ==
  /\ at \in CardPoints /\ reader = NoCard /\ reader' = k /\ swaps < MaxSwaps /\ swaps' = swaps + 1
  /\ UNCHANGED <<chip, session, now, signer, down, outages, at, request, plan, signature, ask,
                 walk, kept, output>>

\* The session is to the card it was opened on; taking it out ends the session.
Remove ==
  /\ at \in CardPoints /\ reader # NoCard /\ reader' = NoCard /\ session' = NoCard
  /\ chip' = [chip EXCEPT ![reader] = Unpowered(@)]
  /\ UNCHANGED <<now, signer, down, swaps, outages, at, request, plan, signature, ask, walk, kept,
                 output>>

Tick ==
  /\ now < MaxTime /\ now' = now + 1
  /\ UNCHANGED <<chip, reader, session, signer, down, swaps, outages, at, request, plan, signature,
                 ask, walk, kept, output>>

\* An authority stops answering, or signs with another certificate from now on.
Changes(a) ==
  /\ outages < MaxOutages /\ outages' = outages + 1
  /\ \/ down' = down \cup {a} /\ UNCHANGED signer
     \/ \E c \in TsaCerts[a] : signer' = [signer EXCEPT ![a] = c] /\ UNCHANGED down
  /\ UNCHANGED <<chip, reader, session, now, swaps, at, request, plan, signature, ask, walk, kept,
                 output>>

Recovers(a) ==
  /\ a \in down /\ down' = down \ {a}
  /\ UNCHANGED <<chip, reader, session, now, signer, swaps, outages, at, request, plan, signature,
                 ask, walk, kept, output>>

World ==
  \/ \E k \in Cards : Insert(k)
  \/ Remove
  \/ Tick
  \/ \E a \in Authorities : Changes(a) \/ Recovers(a)

-----------------------------------------------------------------------------
(* The card.                                                                 *)

\* The job returns; what it held is dropped, its session with it.
Returns ==
  /\ at' = "done" /\ UNCHANGED request /\ plan' = "none" /\ signature' = NoSignature
  /\ ask' = NotAsking /\ walk' = NotWalking
  /\ tokens' = <<>> /\ material' = NoMaterial /\ own' = NoToken /\ outer' = NoToken
  /\ session' = NoCard
  /\ UNCHANGED <<reader, now, signer, down, swaps, outages>>

Fails == Returns /\ UNCHANGED <<chip, output>>

\* validate_signing_policy.
Policy(r) ==
  /\ r.level # "B" => r.authorities # <<>>
  /\ r.credentials # "none" => Len(r.authorities) = 1 /\ r.credentials = "https"
  /\ r.level = "LTA" => r.format \in {"pades", "asic_cades"}

\* A request whose level is impossible returns before the reader is opened.
Begin(r) ==
  /\ at = "idle" /\ (r.format = "raw" \/ Policy(r))
  /\ at' = "open" /\ request' = r
  /\ UNCHANGED <<world, plan, signature, ask, walk, kept, output>>

\* signed_qualified up to sign_chain.  A contactless card answers SELECT with
\* SecurityNotSatisfied and is reached through PACE with the access number.
Open ==
  /\ at = "open"
  /\ \/ /\ reader # NoCard /\ (Contactless => request.can = "right")
        /\ at' = "bind" /\ session' = reader
        /\ chip' = [chip EXCEPT ![reader] = Selected(@)]
        /\ UNCHANGED <<reader, now, signer, down, swaps, outages, request, plan, signature, ask,
                       walk, kept, output>>
     \/ Fails

\* Mutant: only a PDF is held to the card that was shown.
DisplayedIfPdf(r, k) == r.format = "pades" /\ r.shown # NoCard => k = r.shown /\ k \notin Nameless

\* ensure_displayed_card and ensure_expected_serial.
Displayed(r, k) == r.shown # NoCard => k = r.shown /\ k \notin Nameless

\* document::plan takes one file, but for a container.
Plannable(r) == r.files > 1 => r.format \in {"asic_cades", "asic_xades"}

\* sign_chain up to the PIN: the certificate is read and the document built
\* around it.  A document the format cannot hold fails here too.
Bind ==
  /\ at = "bind"
  /\ \/ /\ session # NoCard
        /\ request.format # "raw" => Displayed(request, session) /\ Plannable(request)
        /\ at' = "present" /\ plan' = CardCert[session]
        /\ UNCHANGED <<world, request, signature, ask, walk, kept, output>>
     \/ Fails

\* resolve_pin_reference_scheme, signing_pin_retry_floor and VERIFY.
Present ==
  /\ at = "present"
  /\ \/ /\ session # NoCard /\ ServedByFloor("pin2", PinStatus(chip[session], "pin2"))
        /\ LET right == request.pin = "right" IN
           /\ chip' = [chip EXCEPT ![session] = Verified(@, "pin2", right)]
           /\ IF Answer(chip[session], "pin2", right) = "ok"
              THEN /\ at' = "sign"
                   /\ UNCHANGED <<reader, session, now, signer, down, swaps, outages, request, plan,
                                  signature, ask, walk, kept>>
              ELSE Returns
        /\ UNCHANGED output
     \/ Fails

\* Mutant: the signature is taken as the card gave it.
Unverified(good) == TRUE

\* The check against the certificate's key at the end of sign_dispatch_by_alg.
LocallyVerified(good) == good

Asking(for) == [for |-> for, left |-> Asked, since |-> now]

\* sign_dispatch_by_alg.  The card may fail, and may answer with something its
\* certificate does not verify.
Sign ==
  /\ at = "sign"
  /\ \/ \E good \in BOOLEAN :
          /\ session # NoCard /\ LocallyVerified(good)
          /\ signature' = [by |-> session, good |-> good]
          /\ IF request.format = "raw"
             THEN at' = "finish" /\ UNCHANGED ask
             ELSE at' = "stamp" /\ ask' = Asking("signature")
          /\ UNCHANGED <<world, request, plan, walk, kept, output>>
     \/ Fails

-----------------------------------------------------------------------------
(* Timestamps.                                                               *)

\* Mutant: every authority is waited for.
WaitsForAny(authorities) == TRUE

\* retry_transient_authority_failures: the only authority is waited for, without
\* an end.
RetriesTransient(authorities) == Len(authorities) = 1

\* require_live_timestamp_time.
LiveTime(time) == ask.since - Skew <= time /\ time <= now + Skew

NextAuthority == ask' = [ask EXCEPT !.left = Tail(@), !.since = now]

\* The path an answer starts: ChainStart, or the leaf of verify_chain_to_approved_anchor.
StartWalk(for, token) ==
  /\ at' = "walk"
  /\ walk' = [NotWalking EXCEPT !.for = for, !.token = token, !.current = token.cert,
                                !.time = token.time]

\* fetch_timestamp and request_token: retry_timestamp_query stays with an
\* authority that is down; any other failure moves to the next.
AskAuthority ==
  /\ at = "stamp" /\ ask.left # <<>>
  /\ LET a == Head(ask.left) IN
     /\ a \in down => ~RetriesTransient(Asked)
     /\ \/ NextAuthority /\ UNCHANGED <<at, walk, kept>>
        \/ \E time \in {now, now + Skew} :
             LET token == [by |-> a, cert |-> signer[a], time |-> time, path |-> <<>>,
                           revoked |-> FALSE]
             IN /\ a \notin down /\ LiveTime(time)
                /\ \/ /\ LongTerm
                      /\ StartWalk(IF ask.for = "archive" THEN "path" ELSE "token", token)
                      /\ UNCHANGED <<ask, kept>>
                   \/ /\ ~LongTerm /\ tokens' = Append(tokens, token) /\ NextAuthority
                      /\ UNCHANGED <<at, walk, material, own, outer>>
  /\ UNCHANGED <<world, request, plan, signature, output>>

\* The signer's path is judged at the earliest attested time.
Earliest == CHOOSE t \in {tokens[i].time : i \in DOMAIN tokens} : \A i \in DOMAIN tokens : t <= tokens[i].time

\* The end of collect_document_timestamps: authorities are alternatives, but
\* one must have answered; then the signer's own path (assemble_document).
Stamped ==
  /\ at = "stamp" /\ ask.left = <<>> /\ ask.for = "signature"
  /\ \/ /\ tokens # <<>> /\ LongTerm
        /\ StartWalk("signer", [NoToken EXCEPT !.cert = plan, !.time = Earliest])
        /\ UNCHANGED <<world, request, plan, signature, ask, kept, output>>
     \/ /\ (tokens # <<>> \/ Asked = <<>>) /\ ~LongTerm
        /\ at' = "finish"
        /\ UNCHANGED <<world, request, plan, signature, ask, walk, kept, output>>
     \/ tokens = <<>> /\ Asked # <<>> /\ Fails

\* first_answering_token has no authority left.
Unarchived == at = "stamp" /\ ask.left = <<>> /\ ask.for = "archive" /\ Fails

-----------------------------------------------------------------------------
(* Paths and their evidence.                                                 *)

AnchorSeq(for) == IF for = "signer" THEN SignerRoots ELSE TsaRoots
Anchors(for) == {AnchorSeq(for)[i] : i \in DOMAIN AnchorSeq(for)}

NoncePolicy(for) == IF for = "signer" THEN "require_echo" ELSE "allow_missing"

\* What find_issuer looks through before it asks the network: the leaf, what the
\* token carried, and the issuers this walk has found.
Candidates ==
  LET found == Append(walk.path, walk.current)
  IN <<Head(found)>> \o (IF walk.for = "signer" THEN <<>> ELSE Embedded[Head(found)]) \o Tail(found)

\* Mutant: a path may be one certificate too long.
EntersDeeper ==
  /\ TimeOk(walk.current, walk.time) /\ Len(walk.path) <= MaxDepth
  /\ \A i \in DOMAIN walk.path : walk.path[i] # walk.current

\* validate_certificate_time and WalkGuard::enter.
Enters ==
  /\ TimeOk(walk.current, walk.time) /\ Len(walk.path) < MaxDepth
  /\ \A i \in DOMAIN walk.path : walk.path[i] # walk.current

Arrived == walk.current \in Anchors(walk.for)

\* The CA certificates so far, and where find_issuer looks before it asks the
\* network.
Below == walk.below + (IF Subordinate(walk.current) THEN 1 ELSE 0)
Near == AnchorSeq(walk.for) \o Candidates

\* A walk that fails costs its token the authority's place, or the job its
\* signer path.  Short of the anchor, silence about a status always may.
WalkFails ==
  /\ at = "walk"
  /\ \/ ~Enters
     \/ /\ ~Arrived
        /\ \/ ~ProfileOk(walk.current)
           \/ walk.for # "path"
           \/ KnownIssuers(walk.current, walk.time, Below, Anchors(walk.for), Near) = {}
  /\ IF walk.for = "signer" THEN Fails
     ELSE /\ at' = "stamp" /\ walk' = NotWalking /\ NextAuthority
          /\ UNCHANGED <<world, request, plan, signature, kept, output>>

\* The evidence an answered status adds, and whether an answer that counts said
\* revoked; verify_chain_with asks for none.
StatusSteps(issuer) ==
  LET policy == NoncePolicy(walk.for)
      Answers == {p \in OcspAnswers \X CrlAnswers :
                    StatusOf(policy, issuer, p[1], p[2]) \in {"ocsp", "crl"}}
  IN IF walk.for = "path" THEN {[status |-> {}, revoked |-> FALSE]}
     ELSE {[status |-> {[of |-> walk.current, by |-> issuer]},
            revoked |-> Usable(policy, p[1]) /\ p[1].says = "revoked"] : p \in Answers}

\* One turn of the loop of walk and verify_chain_with, below the anchor.
Follow ==
  /\ at = "walk" /\ Enters /\ ~Arrived /\ ProfileOk(walk.current)
  /\ \E issuer \in FindIssuer(walk.current, walk.time, Below, Anchors(walk.for), Near) :
       \E step \in StatusSteps(issuer) :
         walk' = [walk EXCEPT !.path = Append(@, walk.current), !.current = issuer,
                    !.below = Below, !.status = @ \cup step.status,
                    !.revoked = @ \/ step.revoked]
  /\ UNCHANGED <<world, at, request, plan, signature, ask, kept, output>>

\* Mutant: the outer token's certificates need not be in the store it covers.
Uncovered(path, certs) == TRUE

\* require_archive_path_covered.
Covered(path, certs) == path # <<>> /\ \A i \in DOMAIN path : path[i] \in certs

\* merge_material, with the certificates include_leaf and include_anchor keep.
Merged(path) ==
  [certs |-> material.certs \cup
               {path[i] : i \in IF walk.for = "signer" /\ Len(path) > 1 THEN 2..Len(path) ELSE DOMAIN path},
   status |-> material.status \cup walk.status]

\* The walk has reached an anchor.
Arrive ==
  /\ at = "walk" /\ Enters /\ Arrived
  /\ LET path == Append(walk.path, walk.current)
         token == [walk.token EXCEPT !.path = path, !.revoked = walk.revoked]
     IN \/ /\ walk.for = "token"
           /\ tokens' = Append(tokens, token) /\ material' = Merged(path)
           /\ at' = "stamp" /\ walk' = NotWalking /\ NextAuthority /\ UNCHANGED <<own, outer>>
        \/ /\ walk.for = "signer"
           /\ material' = Merged(path) /\ walk' = NotWalking
           /\ IF request.level = "LTA"
              THEN at' = "stamp" /\ ask' = Asking("archive")
              ELSE at' = "finish" /\ UNCHANGED ask
           /\ own' = token /\ UNCHANGED <<tokens, outer>>
        \/ /\ walk.for = "path"
           /\ IF Covered(path, material.certs)
              THEN StartWalk("archive", walk.token) /\ UNCHANGED ask
              ELSE at' = "stamp" /\ walk' = NotWalking /\ NextAuthority
           /\ UNCHANGED kept
        \/ /\ walk.for = "archive"
           /\ outer' = token /\ at' = "finish" /\ walk' = NotWalking
           /\ UNCHANGED <<ask, tokens, material, own>>
  /\ UNCHANGED <<world, request, plan, signature, output>>

-----------------------------------------------------------------------------
(* The document.                                                             *)

\* What cades::signed_data makes of the signature: tokens and evidence beside
\* it; and for_cms, the signature value alone.
SignedData == [value |-> signature, tokens |-> tokens, material |-> material]
ForCms == [value |-> signature, tokens |-> <<>>, material |-> NoMaterial]

\* The entries of the document: one revision of a PDF, the files of a container.
Entries(content) ==
  IF request.format = "asic_cades"
  THEN [data |-> "data", manifest |-> "manifest", signature |-> content]
  ELSE [revision |-> content]

\* What the archive timestamp is over: the finished PDF, or the archive manifest
\* of the container, which archive_manifest builds from the signature value.
Digested == Entries(IF request.format = "asic_cades" THEN ForCms ELSE SignedData)

\* finish, finish_archived, and the write to the output path; any of them may
\* fail.
Write ==
  /\ at = "finish"
  /\ \/ /\ output' = [request |-> request, plan |-> plan, value |-> signature, tokens |-> tokens,
                       material |-> material, own |-> own, outer |-> outer,
                       entries |-> Entries(SignedData), digested |-> Digested]
        /\ Returns /\ UNCHANGED chip
     \/ Fails

-----------------------------------------------------------------------------
Init ==
  /\ chip \in [Cards -> Starts] /\ reader = NoCard /\ session = NoCard /\ now = 0
  /\ signer \in FirstSigners /\ down = {} /\ swaps = 0 /\ outages = 0
  /\ at = "idle" /\ request = NoDocument.request /\ plan = "none" /\ signature = NoSignature
  /\ ask = NotAsking /\ walk = NotWalking
  /\ tokens = <<>> /\ material = NoMaterial /\ own = NoToken /\ outer = NoToken
  /\ output = NoDocument

\* The job's thread.
Job ==
  \/ Open \/ Bind \/ Present \/ Sign
  \/ AskAuthority \/ Stamped \/ Unarchived
  \/ Follow \/ WalkFails \/ Arrive
  \/ Write

Next == World \/ Job \/ \E r \in Requests : Begin(r)

Spec == Init /\ [][Next]_vars

\* The job is one thread: card commands return, and every exchange of http.rs
\* has a deadline.  Nothing says that an authority comes back.
FairSpec == Spec /\ WF_vars(Job)

-----------------------------------------------------------------------------
(* Properties                                                                *)

\* Every certificate of a path but the leaf a signature carries itself, and a
\* status for each certificate below the anchor, given by its issuer.
Evidenced(path, store, first) ==
  /\ \A i \in first..Len(path) : path[i] \in store.certs
  /\ \A i \in 1..(Len(path) - 1) :
       \E e \in store.status : e.of = path[i] /\ e.by = path[i + 1]

\* Some valid path of a token's certificate is made of certs.
PathWithin(certs, token, roots) ==
  \E n \in 1..MaxDepth : \E path \in [1..n -> certs] :
    path[1] = token.cert /\ ValidPath(path, token.time, roots)

\* A document that was written has the level it was asked for: a timestamp when
\* one was, and at LT and LTA for each timestamp and for the signer at the
\* earliest attested time a valid path with all its evidence in the store, none
\* of it collected past an answer that said revoked; at LTA the archive
\* timestamp's certificate has such a path too, whose evidence is not kept
\* (authenticate_archive_timestamp), and a valid path within the store that
\* timestamp covers, whatever certificate the authority has changed to in
\* between.  The two are one path only while the addresses answer the same.
LevelKept ==
  output # NoDocument =>
    LET r == output.request
        kept_ == {output.tokens[i] : i \in DOMAIN output.tokens}
        roots == Anchors("token")
    IN /\ r.authorities # <<>> => kept_ # {}
       /\ r.level # "B" =>
            /\ \A t \in kept_ : /\ ValidPath(t.path, t.time, roots) /\ t.path[1] = t.cert
                               /\ Evidenced(t.path, output.material, 1) /\ ~t.revoked
            /\ output.own.path[1] = output.plan /\ ~output.own.revoked
            /\ \A t \in kept_ : output.own.time <= t.time
            /\ ValidPath(output.own.path, output.own.time, Anchors("signer"))
            /\ Evidenced(output.own.path, output.material, 2)
       /\ r.level = "LTA" =>
            /\ ValidPath(output.outer.path, output.outer.time, roots)
            /\ output.outer.path[1] = output.outer.cert /\ ~output.outer.revoked
            /\ PathWithin(output.material.certs, output.outer, roots)

\* A document is signed by the card that was shown when it was asked for, with
\* a signature the certificate in it verifies, though cards are exchanged while
\* the request waits and between two steps of it.
SignedByShown ==
  output # NoDocument =>
    /\ output.value.good /\ output.plan = CardCert[output.value.by]
    /\ output.request.format # "raw" /\ output.request.shown # NoCard =>
         output.value.by = output.request.shown

\* A PIN is presented only to the card the finished plan was built around, and
\* where a card was shown, to that card: no exchange of cards and no request
\* that cannot be carried out costs a try.
SpentOnShown ==
  [][\A k \in Cards : chip'[k].tries # chip[k].tries =>
       /\ plan = CardCert[k] /\ Policy(request) /\ Plannable(request)
       /\ request.shown # NoCard => k = request.shown]_vars

Tries == INSTANCE CardTries WITH tries <- [k \in Cards |-> chip[k].tries], others <- 0

\* Whatever cards are exchanged between the judgement of one and the PIN, the
\* counters move as the floor promises: PIN 2 is presented only from three tries
\* up.
KeepsTries == Tries!Spec

\* The archive timestamp is over every entry of the document it is written into.
ArchiveCovers ==
  output # NoDocument => (output.request.level = "LTA" => output.digested = output.entries)

\* The only authority fails in a way worth a retry.
Waiting == at = "stamp" /\ ask.left # <<>> /\ Len(Asked) = 1 /\ Head(ask.left) \in down

\* Every job returns, unless it waits for the one authority it was given: with
\* a second authority none is waited for.
JobReturns == at # "idle" ~> (at = "done" \/ Waiting)

=============================================================================
