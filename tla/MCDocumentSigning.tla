------------------------- MODULE MCDocumentSigning -------------------------
(* Certificates, cards and requests for the runs of DocumentSigning.          *)
EXTENDS DocumentSigning, TLC

Cert(subject, issuer, from, until) ==
  [subject |-> subject, issuer |-> issuer, key |-> subject, signedBy |-> issuer,
   from |-> from, until |-> until, ca |-> FALSE, critical |-> FALSE, pathLen |-> NoLimit,
   certSign |-> FALSE, crlSign |-> FALSE, eku |-> {}, nameConstraints |-> FALSE,
   wellFormed |-> TRUE]

Ca(subject, issuer, pathLen, eku) ==
  [Cert(subject, issuer, 0, 9) EXCEPT !.ca = TRUE, !.critical = TRUE, !.pathLen = pathLen,
     !.certSign = TRUE, !.crlSign = TRUE, !.eku = eku]

Stamping(issuer) == [Cert("stamping", issuer, 0, 9) EXCEPT !.eku = {"time"}]

\* A timestamp root with an authority's CA below it, before and after its
\* renewal and in a second certificate beside it, and two certificates of that
\* CA; a longer chain, whose middle CA
\* once allowed no CA below it; a self-signed CA that is no root here and is
\* published at its own address; the signer's root and CA, which no token
\* carries; and the certificates of two cards, one young and one about to expire.
MCPki ==
  [root     |-> Ca("root", "root", NoLimit, {}),
   ca       |-> [Ca("ca", "root", 0, {}) EXCEPT !.crlSign = FALSE],
   own1     |-> Cert("one", "ca", 1, 9),
   own2     |-> Cert("two", "ca", 0, 1),
   tsaRoot  |-> Ca("tsaRoot", "tsaRoot", NoLimit, {}),
   tsaCaOld |-> [Ca("tsaCa", "tsaRoot", 0, {"time"}) EXCEPT !.until = 0],
   tsaCa2   |-> Ca("tsaCa", "tsaRoot", NoLimit, {"time"}),
   tsaCa    |-> Ca("tsaCa", "tsaRoot", 0, {"time"}),
   leaf1    |-> Stamping("tsaCa"),
   leaf2    |-> [Stamping("tsaCa") EXCEPT !.key = "stamping2"],
   midOld   |-> Ca("mid", "tsaRoot", 0, {}),
   mid      |-> Ca("mid", "tsaRoot", NoLimit, {}),
   subCa    |-> Ca("subCa", "mid", NoLimit, {"time"}),
   leaf3    |-> Stamping("subCa"),
   lone     |-> Ca("lone", "lone", NoLimit, {}),
   leaf4    |-> Stamping("lone")]

MCPublished ==
  [c \in Certs |-> CASE c \in {"own1", "own2"} -> <<"tsaCa", "ca">>
                     [] c = "leaf2" -> <<"tsaCa2", "tsaCa">>
                     [] c \in {"lone", "leaf4"} -> <<"lone">>
                     [] OTHER -> <<>>]

MCEmbedded ==
  [c \in Certs |-> CASE c = "leaf1" -> <<"tsaCaOld", "tsaCa">>
                     [] c = "leaf3" -> <<"subCa", "midOld", "mid">>
                     [] OTHER -> <<>>]

CONSTANTS k1, k2, a1, a2

MCCardCert == [k \in Cards |-> IF k = k1 THEN "own1" ELSE "own2"]

MCTsaCerts == [a \in Authorities |-> IF a = a1 THEN {"leaf1", "leaf2"} ELSE {"leaf1", "leaf3", "leaf4"}]

MCFirstSigners ==
  {[a \in Authorities |-> IF a = a1 THEN "leaf1" ELSE c] : c \in TsaCerts[a2]}

MCSignerRoots == <<"root">>
MCTsaRoots == <<"tsaRoot">>

\* An activated card, one try above the floor and at it.
MCStarts ==
  {[profile |-> [numbering |-> "citizen", scheme |-> "preset", flagged |-> PinSlots,
                 silent |-> {}, keeps |-> {}],
    fresh |-> {}, verified |-> {}, tries |-> [x \in FlooredCredentials |-> n]] : n \in {3}}

Request(format, level, authorities, shown) ==
  [format |-> format, level |-> level, authorities |-> authorities, credentials |-> "none",
   files |-> 1, shown |-> shown, pin |-> "right", can |-> "none"]

\* Every level with one authority and with two, and the requests that fail on
\* the way: a wrong PIN, two files in one PDF, a level without an authority.
MCRequests ==
  LET Good == {Request("cades", "B", <<a1, a2>>, k1), Request("asic_xades", "LT", <<a1>>, k2),
               Request("pades", "LTA", <<a1, a2>>, k1), Request("asic_cades", "LTA", <<a1>>, k1)}
  IN Good \cup
     {Request("raw", "B", <<>>, NoCard),
      [Request("cades", "B", <<>>, k1) EXCEPT !.pin = "wrong"],
      [Request("pades", "B", <<>>, NoCard) EXCEPT !.files = 2],
      Request("cades", "LT", <<>>, k1), Request("cades", "LTA", <<a1>>, k1),
      [Request("pades", "B", <<a1, a2>>, k1) EXCEPT !.credentials = "https"]}

\* A card with any counters, and one another program left verified.
MCAnyCounter ==
  LET Card(n, verified, keeps) ==
        [profile |-> [numbering |-> "citizen", scheme |-> "preset", flagged |-> PinSlots,
                      silent |-> {}, keeps |-> keeps],
         fresh |-> {}, verified |-> verified, tries |-> [x \in FlooredCredentials |-> n]]
  IN {Card(n, {}, {}) : n \in 0..RetriesPristine} \cup
     {Card(RetriesPristine, {"pin2"}, keeps) : keeps \in {{}, {"pin2"}}}

\* A signature without timestamps or evidence, with the right PIN and a wrong one.
MCPlain ==
  {[Request(format, "B", <<>>, NoCard) EXCEPT !.pin = pin] :
     format \in {"raw", "cades"}, pin \in {"right", "wrong"}}
  \cup {Request("pades", "B", <<>>, k1)}

=============================================================================
