SPECIFICATION Spec
CONSTANTS
  Proc = {p1, p2}
  Ident <- MCIdent
  Zero = "0"
  NaN = NaN
  Num <- MCNum
  Bytes <- MCBytes
  Version <- MCVersion
  Installed <- MCInstalled
  Order <- MCOrder
  Answers <- MCAnswers
  None = None
  Bad = Bad
  MaxCommands = 3
INVARIANTS Inv VerdictsBySemver OnlyReleased NeverWithout NoticeTrue NewsKept OncePerWindow
PROPERTIES Upgrades CommandsEnd
CHECK_DEADLOCK FALSE
