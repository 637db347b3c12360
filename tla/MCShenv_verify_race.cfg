SPECIFICATION Spec
CONSTANTS
  alice = alice
  bob = bob
  ka = ka
  kb = kb
  k3 = k3
  sa = sa
  sb = sb
  s2 = s2
  P = P
  Q = Q
  e1 = e1
  e2 = e2
  Name = {alice, bob}
  Key = {ka, kb, k3}
  SignKey = {sa, sb, s2}
  Look <- MCLook
  Env = {e1}
  Project = {}
  NoProject = NoProject
  NoSigner = NoSigner
  Heading <- MCHeading
  Beneath <- MCBeneath
  User = {alice}
  Proc = {1}
  Owner <- BothAlice
  KeyOf <- MCKeyOf
  Derive <- MCDerive
  Ops = {"open"}
  NoBlob = NoBlob
  NoEnv = NoEnv
  NoPin = NoPin
  Unrecorded = Unrecorded
  InitBlobs <- ByB2
  InitPins <- NoPins
  RepoFiles <- Drifting
  MaxSeals = 1
  MaxMoves = 1
  Quiet = FALSE
PROPERTY TrustedVerification
