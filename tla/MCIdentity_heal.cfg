SPECIFICATION Spec
CONSTANTS
  k0 = k0
  s1 = s1
  s2 = s2
  Proc = {p1, p2}
  Id = {k0, k1, k2}
  Pass = {s1, s2}
  NoPass = NoPass
  NoComment = NoComment
  NoId = NoId
  Absent = Absent
  Empty = Empty
  InitFiles <- Legacy
  MaxRemovals = 1
SYMMETRY MCSymmetry
CHECK_DEADLOCK FALSE
INVARIANT KeyKept
