SPECIFICATION Spec
CONSTANTS
  p1 = p1
  p2 = p2
  Proc = {p1, p2}
  Dir = {".", "sub"}
  Root = "."
  Dest = {".env", "sub/.env", "/tmp/.env"}
  Outside = {"/tmp/.env"}
  Temp = {"temp", "sub/temp"}
  DirOf <- MCDirOf
  Entry <- MCEntry
  Fold <- MCFold
  Rule = {".env", "!.env", "temp*", "!temp*", "!env.shenv", "/.env", "/temp*", "/sub/.env", "/sub/temp*"}
  Negated = {"!.env", "!temp*", "!env.shenv"}
  Matches <- MCMatches
  RuleFor <- MCRuleFor
  InitRules = {".env", "temp*", "!env.shenv"}
  UserLines <- MCUserLines
  NoDest = "none"
  MaxCommands = 2
  MaxMoves = 1
SYMMETRY MCSymmetry
INVARIANT NeverCommittable
