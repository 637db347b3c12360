SPECIFICATION Spec
CONSTANTS
  alice = alice
  bob = bob
  ka = ka
  kb = kb
  k3 = k3
  sa = sa
  sb = sb
  s2 = s2
  P = P
  Q = Q
  e1 = e1
  e2 = e2
  Name = {alice, bob}
  Key = {ka, kb, k3}
  SignKey = {sa, sb, s2}
  Look <- MCLook
  Env = {e1, e2}
  Project = {P}
  NoProject = NoProject
  NoSigner = NoSigner
  Heading <- MCHeading
  Beneath <- MCBeneath
  User = {alice, bob}
  Proc = {1, 2}
  Owner <- OneEach
  KeyOf <- MCKeyOf
  Derive <- MCDerive
  Ops = {"edit"}
  NoBlob = NoBlob
  NoEnv = NoEnv
  NoPin = NoPin
  Unrecorded = Unrecorded
  InitBlobs <- ForBoth
  InitPins <- NoPins
  RepoFiles <- Team
  MaxSeals = 2
  MaxMoves = 0
  Quiet = TRUE
CHECK_DEADLOCK FALSE
PROPERTY EditWarnsOfReseal
