------------------------------ MODULE CertPath ------------------------------
(* The certificate paths of crates/refineid-doc-sign/src/material.rs: who may *)
(* issue whom, the choice of the next certificate, and what an answer about   *)
(* revocation is worth.  A certificate is its encoding; Pki says what is in   *)
(* it.                                                                        *)
EXTENDS Integers, Sequences, FiniteSets

CONSTANTS
  Certs,      \* certificates
  Pki,        \* Pki[c]: what certificate c says
  Published,  \* Published[c]: the certificates at the addresses c gives for its issuer
  MaxDepth    \* certificates a path may have

\* A Basic Constraints without pathLen.
NoLimit == -1

\* key and signedBy stand for the key pair a certificate is about and the one
\* it is signed with; wellFormed: no extension is malformed, duplicated, or
\* critical and unknown (path_extension_profile).
Contents ==
  [subject : STRING, issuer : STRING, key : STRING, signedBy : STRING,
   from : Nat, until : Nat, ca : BOOLEAN, critical : BOOLEAN, pathLen : Nat \cup {NoLimit},
   certSign : BOOLEAN, crlSign : BOOLEAN, eku : SUBSET {"time", "ocsp", "other"},
   nameConstraints : BOOLEAN, wellFormed : BOOLEAN]

ASSUME CertPathAssumption ==
  /\ DOMAIN Pki = Certs /\ DOMAIN Published = Certs /\ MaxDepth \in Nat \ {0}
  /\ \A c \in Certs : Pki[c] \in Contents /\ Published[c] \in Seq(Certs)

\* validate_certificate_time.
TimeOk(c, time) == Pki[c].from <= time /\ time <= Pki[c].until

\* validate_path_extensions, asked of every certificate but an anchor: a CA may
\* be restricted to time stamping and to no other purpose.
ProfileOk(c) ==
  /\ Pki[c].wellFormed /\ ~Pki[c].nameConstraints
  /\ Pki[c].ca /\ Pki[c].eku # {} => "time" \in Pki[c].eku /\ "other" \notin Pki[c].eku

\* A CA certificate that is not self-issued counts against the pathLen above it.
Subordinate(c) == Pki[c].ca /\ Pki[c].issuer # Pki[c].subject

\* enforce_path_length.
PathLenOk(c, below) == Pki[c].pathLen = NoLimit \/ below <= Pki[c].pathLen

\* validate_issuing_certificate.
MayIssue(c, time, below) ==
  /\ TimeOk(c, time) /\ ProfileOk(c)
  /\ Pki[c].ca /\ Pki[c].critical /\ PathLenOk(c, below) /\ Pki[c].certSign

\* validate_direct_issuer_for_path.
Issues(issuer, subject, time, below, anchors) ==
  /\ Pki[subject].issuer = Pki[issuer].subject
  /\ IF issuer \in anchors THEN TimeOk(issuer, time)
     ELSE /\ MayIssue(issuer, time, below)
          /\ "time" \in Pki[issuer].eku => ProfileOk(subject) /\ "time" \in Pki[subject].eku
  /\ Pki[subject].signedBy = Pki[issuer].key

\* The loop of find_issuer through what it has: the first that may issue, at
\* most one.
KnownIssuers(subject, time, below, anchors, near) ==
  LET fits == {i \in DOMAIN near : near[i] # subject /\ Issues(near[i], subject, time, below, anchors)}
  IN {near[i] : i \in {i \in fits : \A j \in fits : i <= j}}

\* The loop through the addresses the subject names: the first that answers
\* with a certificate that may issue, and any of them may be the first.
FetchedIssuers(subject, time, below, anchors) ==
  {c \in {Published[subject][i] : i \in DOMAIN Published[subject]} :
     Issues(c, subject, time, below, anchors)}

\* find_issuer: of the anchors and the candidates, and only when none fits from
\* the network.  No later choice is tried when the first leads nowhere.
FindIssuer(subject, time, below, anchors, near) ==
  IF KnownIssuers(subject, time, below, anchors, near) # {}
  THEN KnownIssuers(subject, time, below, anchors, near)
  ELSE FetchedIssuers(subject, time, below, anchors)

-----------------------------------------------------------------------------
(* Revocation.                                                               *)

\* An answer of the OCSP responders a certificate names, as a whole: whether it
\* repeats the nonce, and what it says.  "none": every one is unreachable,
\* signed by nobody known, about another certificate, too old, or unknowing.
OcspAnswers == [echoed : BOOLEAN, says : {"good", "revoked"}] \cup {[echoed |-> FALSE, says |-> "none"]}

CrlAnswers == {"good", "revoked", "none"}

\* check_response: NoncePolicy decides whether a missing echo is an answer.
Usable(policy, ocsp) == ocsp.says # "none" /\ (ocsp.echoed \/ policy = "allow_missing")

\* collect_status: the responders, then the lists the issuer may sign.  Revoked
\* ends the collection; silence does too, after the last source.
StatusOf(policy, issuer, ocsp, crl) ==
  CASE Usable(policy, ocsp) -> IF ocsp.says = "good" THEN "ocsp" ELSE "revoked"
    [] ~Usable(policy, ocsp) /\ Pki[issuer].crlSign ->
         IF crl = "good" THEN "crl" ELSE crl
    [] OTHER -> "none"

-----------------------------------------------------------------------------
(* What a path is, apart from how it is found.                               *)

\* RFC 5280's rules as far as material.rs has them: a path of distinct
\* certificates, each valid at the time and issued by the next, to the first
\* anchor on it.
ValidPath(path, time, anchors) ==
  /\ path # <<>> /\ Len(path) <= MaxDepth
  /\ \A i, j \in 1..Len(path) : path[i] = path[j] => i = j
  /\ \A i \in 1..Len(path) : TimeOk(path[i], time) /\ (path[i] \in anchors <=> i = Len(path))
  /\ \A i \in 1..(Len(path) - 1) :
       /\ ProfileOk(path[i])
       /\ Issues(path[i + 1], path[i], time,
                 Cardinality({j \in 1..i : Subordinate(path[j])}), anchors)

=============================================================================
