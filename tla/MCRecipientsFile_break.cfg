SPECIFICATION Spec
CONSTANTS
  alice = alice
  al1ce = al1ce
  bob = bob
  ka = ka
  kb = kb
  sa = sa
  sb = sb
  xa = xa
  xx = xx
  Name = {alice, al1ce, bob}
  Key = {ka, kb}
  SignKey = {sa, sb, xa, xx}
  Look <- MCLook
  Reads <- MCReads
  Torn = Torn
  Proc = {p1, p2}
  Outside <- MCOutside
PROPERTY NeverRejected
