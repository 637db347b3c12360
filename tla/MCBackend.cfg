SPECIFICATION Spec
CONSTANTS
  c1 = c1
  big = big
  Proc = {p1, p2}
  Command = {c1, c2}
  Blob = {b1, big}
  Big = {big}
  NoBlob = NoBlob
  Torn = Torn
  InitFile <- MCInitFile
  InitRemote = {NoBlob, b1, big}
  InitConfig <- MCInitConfig
  MaxMoves = 1
  MaxCommands = 2
INVARIANTS Inv GetTrue RunsApproved
PROPERTIES ImplementsBlobStore StaysReadable CallsReturn
