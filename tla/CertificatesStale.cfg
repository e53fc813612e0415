CONSTANTS
  Certificate = {c1}
  Wallet = {w1}
  Lookup = {"id"}
  Reader = {r1}
  Call = {k1}
  CERT_TTL = 60
  Many = 2
  None = None
  CertificateOf <- TheCertificate
  MintLookups = {}
SPECIFICATION Spec
PROPERTIES
  RetirementShows
CHECK_DEADLOCK FALSE
