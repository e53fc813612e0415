CONSTANTS
  Certificate = {c1}
  Wallet = {w1, w2}
  Lookup = {"id", "hash"}
  Reader = {r1, r2}
  Call = {k1, k2}
  CERT_TTL = 60
  Many = 2
  None = None
  CertificateOf <- TheCertificate
  MintLookups = {"hash"}
SPECIFICATION Spec
SYMMETRY Symmetry
INVARIANTS
  TypeOK
  ShownWasBurned
  BurnsMatchRows
CHECK_DEADLOCK FALSE
