SPECIFICATION FairSpec
CONSTANTS
  k1 = k1
  k2 = k2
  a1 = a1
  a2 = a2
  NoCard = NoCard
  Cards = {k1, k2}
  Authorities = {a1, a2}
  Certs = {"root", "ca", "own1", "own2", "tsaRoot", "tsaCaOld", "tsaCa", "tsaCa2", "leaf1", "leaf2", "midOld", "mid", "subCa", "leaf3", "lone", "leaf4"}
  Pki <- MCPki
  Published <- MCPublished
  Embedded <- MCEmbedded
  MaxDepth = 3
  CardCert <- MCCardCert
  Nameless = {}
  Starts <- MCStarts
  Contactless = FALSE
  TsaCerts <- MCTsaCerts
  FirstSigners <- MCFirstSigners
  SignerRoots <- MCSignerRoots
  TsaRoots <- MCTsaRoots
  Requests <- MCRequests
  Skew = 1
  MaxTime = 1
  MaxSwaps = 2
  MaxOutages = 1
INVARIANTS TypeOK  SignedByShown
PROPERTIES SpentOnShown JobReturns
CHECK_DEADLOCK FALSE
