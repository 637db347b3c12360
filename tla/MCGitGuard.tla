---------------------------- MODULE MCGitGuard ----------------------------
(* A .env at the root of a worktree, one in a subdirectory, and one        *)
(* outside; .ENV is another name in the index.                             *)
EXTENDS GitGuard, TLC

CONSTANTS p1, p2

MCDirOf == [x \in {".env", "temp"} |-> "."] @@ [x \in {"sub/.env", "sub/temp"} |-> "sub"]
MCEntry == {".env", ".ENV", "sub/.env"}
MCFold  == [e \in MCEntry |-> IF e = ".ENV" THEN ".env" ELSE e]

MCMatches == [r \in {".env", "!.env"} |-> {".env", "sub/.env"}]
             @@ [r \in {"temp*", "!temp*"} |-> {"temp", "sub/temp"}]
             @@ [r \in {"!env.shenv"} |-> {}]
             @@ [r \in {"/.env"} |-> {".env"}]
             @@ [r \in {"/temp*"} |-> {"temp"}]
             @@ [r \in {"/sub/.env"} |-> {"sub/.env"}]
             @@ [r \in {"/sub/temp*"} |-> {"sub/temp"}]
MCRuleFor == (".env" :> "/.env") @@ ("temp" :> "/temp*")
             @@ ("sub/.env" :> "/sub/.env") @@ ("sub/temp" :> "/sub/temp*")

(* Nothing, init's lines, a rule that a later line takes back, and, in a   *)
(* subdirectory, a line that takes the root's rules back.                  *)
MCUserLines == ("." :> {<<>>, <<".env", "temp*">>, <<"/.env", "!.env">>})
               @@ ("sub" :> {<<>>, <<"!.env">>, <<"!temp*">>})

MCSymmetry == Permutations(Proc)
============================================================================
