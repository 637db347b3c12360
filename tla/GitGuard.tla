----------------------------- MODULE GitGuard -----------------------------
(***************************************************************************)
(* How open and edit put decrypted secrets into a git worktree:            *)
(* ensureIgnored, then writePlaintext (command/gitguard.go, plaintext.go), *)
(* with the .gitignore that init prepares.  Every question to git, every   *)
(* read and every write is a step of its own.                              *)
(*                                                                         *)
(* A command that is refused, fails, is declined or is killed is Stop: it  *)
(* leaves the files as they are, a temporary file included.  A user runs   *)
(* "git add -A" at any moment, and edits .gitignore, the index and files   *)
(* only between commands, never so as to expose decrypted secrets: what    *)
(* they do on purpose is not shenv's to prevent.                           *)
(***************************************************************************)
EXTENDS Naturals, SequencesExt

CONSTANTS Proc,
          Dir, Root,    \* directories of the worktree
          Dest,         \* where secrets may be written
          Outside,      \* those of Dest that are in no worktree
          Temp,         \* temporary files: one per destination stands for all
          DirOf,        \* of a destination or a temporary file
          Entry, Fold,  \* names in the index, and the name each folds to
          Rule,         \* lines of a .gitignore
          Negated,      \* the lines that start with "!"
          Matches,      \* the paths a line matches
          RuleFor,      \* ignorePattern, and the pattern of temporary files
          InitRules,    \* the lines init adds
          UserLines,    \* what a user may make of a .gitignore
          NoDest,
          MaxCommands, MaxMoves  \* bounds on the commands and on the user's own moves

TempOf(d) == CHOOSE t \in Temp : DirOf[t] = DirOf[d]

Path == (Dest \ Outside) \cup Temp

ASSUME PathAssumption == /\ Outside \subseteq Dest /\ Dest \ Outside \subseteq Entry
                         /\ Temp \cap Dest = {}
                         /\ Root \in Dir /\ DirOf \in [Path -> Dir]
                         /\ \A dir \in Dir : \E t \in Temp : DirOf[t] = dir
                         /\ Fold \in [Entry -> Dest] /\ NoDest \notin Dest
                         /\ \A d \in Dest \ Outside : Fold[d] = d
ASSUME BoundAssumption == MaxCommands \in Nat /\ MaxMoves \in Nat
ASSUME RuleAssumption == /\ Negated \subseteq Rule /\ InitRules \subseteq Rule
                         /\ IsFiniteSet(InitRules)
                         /\ Matches \in [Rule -> SUBSET Path]
                         /\ RuleFor \in [Path -> Rule \ Negated]
                         /\ \A r \in InitRules \cap Negated : Matches[r] = {}
                         /\ \A x \in Path : x \in Matches[RuleFor[x]]
                         /\ \A dir \in Dir : UserLines[dir] \subseteq Seq(Rule)

VARIABLES ignore,    \* the .gitignore of each directory
          index,     \* what git tracks
          icase,     \* core.ignorecase
          file,      \* at each destination: nothing, the user's own, decrypted secrets
          left,      \* temporary files with secrets that a killed command left
          swept,     \* destinations that "git add -A" took while a command that had
                     \* found them untracked was at work; history
          commands, moves,  \* so far
          at, dst,   \* per command: its next step, its destination
          asked, rules, into  \* paths asked about, rules to add, and to which .gitignore

git  == <<index, icase, swept>>
args == <<dst, asked, rules, into>>
vars == <<ignore, git, file, left, commands, moves, at, args>>

Steps == {"idle", "exact", "folded", "asks", "reads", "appends", "verifies",
          "verifies temp", "create", "fill", "rename"}

TypeOK == /\ ignore \in [Dir -> Seq(Rule)]
          /\ index \in SUBSET Entry
          /\ icase \in BOOLEAN
          /\ file \in [Dest -> {"none", "own", "secret"}]
          /\ left \in SUBSET Temp
          /\ swept \in SUBSET Dest
          /\ commands \in 0..MaxCommands
          /\ moves \in 0..MaxMoves
          /\ at \in [Proc -> Steps]
          /\ dst \in [Proc -> Dest \cup {NoDest}]
          /\ asked \in [Proc -> SUBSET Path]
          /\ rules \in [Proc -> SUBSET Rule]
          /\ into \in [Proc -> Dir]

Init == /\ ignore \in [Dir -> UNION {UserLines[dir] : dir \in Dir}]
        /\ \A dir \in Dir : ignore[dir] \in UserLines[dir]
        /\ index \in SUBSET Entry
        /\ icase \in BOOLEAN
        /\ file \in {f \in [Dest -> {"none", "own"}] : \A d \in Outside : f[d] = "none"}
        /\ left = {} /\ swept = {} /\ commands = 0 /\ moves = 0
        /\ at = [p \in Proc |-> "idle"]
        /\ dst = [p \in Proc |-> NoDest]
        /\ asked = [p \in Proc |-> {}]
        /\ rules = [p \in Proc |-> {}]
        /\ into = [p \in Proc |-> Root]

----------------------------------------------------------------------------
(* The last line that matches decides, and a directory's own file comes    *)
(* after the root's.                                                       *)
Lines(x) == IF DirOf[x] = Root THEN ignore[Root] ELSE ignore[Root] \o ignore[DirOf[x]]

Ignored(x) == \E i \in DOMAIN Lines(x) :
                 /\ x \in Matches[Lines(x)[i]] /\ Lines(x)[i] \notin Negated
                 /\ \A j \in DOMAIN Lines(x) : j > i => x \notin Matches[Lines(x)[j]]

SameFile(e, d) == e = d \/ (icase /\ Fold[e] = d)
Tracked(d) == \E e \in index : SameFile(e, d)

Writing(p) == at[p] \in {"fill", "rename"}

(* The paths in the worktree that hold decrypted secrets.  A temporary     *)
(* file counts from its creation, since git would track what it sees then. *)
Secrets == {d \in Dest \ Outside : file[d] = "secret"} \cup left
              \cup {TempOf(dst[p]) : p \in {q \in Proc : Writing(q) /\ dst[q] \notin Outside}}

Goes(p, from, to) == at[p] = from /\ at' = [at EXCEPT ![p] = to]

Begins(p, to) == /\ commands < MaxCommands
                 /\ commands' = commands + 1
                 /\ Goes(p, "idle", to)
                 /\ UNCHANGED moves

counts == <<commands, moves>>

Ends(p) == /\ at' = [at EXCEPT ![p] = "idle"]
           /\ dst' = [dst EXCEPT ![p] = NoDest]
           /\ asked' = [asked EXCEPT ![p] = {}]
           /\ rules' = [rules EXCEPT ![p] = {}]
           /\ into' = [into EXCEPT ![p] = Root]

Stop(p) == /\ at[p] # "idle"
           /\ left' = IF Writing(p) /\ dst[p] \notin Outside
                      THEN left \cup {TempOf(dst[p])} ELSE left
           /\ Ends(p)
           /\ UNCHANGED <<ignore, git, file, counts>>

(* A write, sync or rename that fails removes the temporary file. *)
Fails(p) == /\ Writing(p)
            /\ Ends(p)
            /\ UNCHANGED <<ignore, git, file, left, counts>>

----------------------------------------------------------------------------
(* resolveGitTarget: with no worktree around it there is nothing to guard. *)
Resolves(p, d) == /\ Begins(p, IF d \in Outside THEN "create" ELSE "exact")
                  /\ dst' = [dst EXCEPT ![p] = d]
                  /\ UNCHANGED <<ignore, git, file, left, asked, rules, into>>

(* Mutant: git's answer about the exact spelling is enough. *)
FindsNoExactEntryAtAll(p) == /\ Goes(p, "exact", "asks")
                             /\ dst[p] \notin index
                             /\ UNCHANGED <<ignore, git, file, left, args, counts>>

(* trackedAs: ls-files finds no such entry, and then, if git ignores case, *)
(* no entry of the whole index folds to the destination.                   *)
FindsNoExactEntry(p) == /\ Goes(p, "exact", IF icase THEN "folded" ELSE "asks")
                        /\ dst[p] \notin index
                        /\ UNCHANGED <<ignore, git, file, left, args, counts>>

FindsNoFoldedEntry(p) == /\ Goes(p, "folded", "asks")
                         /\ ~Tracked(dst[p])
                         /\ UNCHANGED <<ignore, git, file, left, args, counts>>

(* Which of the two paths need a rule; the code asks in map order. *)
Asks(p, x) == /\ at[p] = "asks"
              /\ x \in {dst[p], TempOf(dst[p])} \ asked[p]
              /\ asked' = [asked EXCEPT ![p] = @ \cup {x}]
              /\ rules' = [rules EXCEPT ![p] = IF Ignored(x) THEN @ ELSE @ \cup {RuleFor[x]}]
              /\ at' = [at EXCEPT ![p] = IF asked[p] = {} THEN "asks" ELSE "reads"]
              /\ UNCHANGED <<ignore, git, file, left, dst, into, counts>>

----------------------------------------------------------------------------
(* init's ensureGitignore, in the directory it is run in. *)
Inits(p, dir) == /\ Begins(p, "reads")
                 /\ rules' = [rules EXCEPT ![p] = InitRules]
                 /\ into' = [into EXCEPT ![p] = dir]
                 /\ UNCHANGED <<ignore, git, file, left, dst, asked>>

(* appendGitignore: lines that are in the file, wherever, are not added. *)
AppendReads(p) ==
    LET new == rules[p] \ ToSet(ignore[into[p]])
    IN  /\ at[p] = "reads"
        /\ IF new # {}
           THEN /\ at' = [at EXCEPT ![p] = "appends"]
                /\ rules' = [rules EXCEPT ![p] = new]
                /\ UNCHANGED <<dst, asked, into>>
           ELSE IF dst[p] # NoDest
           THEN at' = [at EXCEPT ![p] = "verifies"] /\ UNCHANGED args
           ELSE Ends(p)
        /\ UNCHANGED <<ignore, git, file, left, counts>>

AppendWrites(p) ==
    /\ at[p] = "appends"
    /\ ignore' = [ignore EXCEPT ![into[p]] = @ \o SetToSeq(rules[p])]
    /\ IF dst[p] # NoDest
       THEN at' = [at EXCEPT ![p] = "verifies"] /\ UNCHANGED args
       ELSE Ends(p)
    /\ UNCHANGED <<git, file, left, counts>>

(* Mutant: a rule in the file is taken for git ignoring the file. *)
VerifiesNothing(p) == /\ Goes(p, "verifies", "verifies temp")
                      /\ UNCHANGED <<ignore, git, file, left, args, counts>>

(* Git's effective answer, for the destination and the temporary file. *)
Verifies(p) == /\ Goes(p, "verifies", "verifies temp")
               /\ Ignored(dst[p])
               /\ UNCHANGED <<ignore, git, file, left, args, counts>>

VerifiesTemp(p) == /\ Goes(p, "verifies temp", "create")
                   /\ Ignored(TempOf(dst[p]))
                   /\ UNCHANGED <<ignore, git, file, left, args, counts>>

----------------------------------------------------------------------------
(* writePlaintext: an exclusive temporary file, secured while empty, then  *)
(* filled, synced, and renamed.                                            *)
Creates(p) == /\ Goes(p, "create", "fill")
              /\ UNCHANGED <<ignore, git, file, left, args, counts>>

Fills(p) == /\ Goes(p, "fill", "rename")
            /\ UNCHANGED <<ignore, git, file, left, args, counts>>

Renames(p) == /\ at[p] = "rename"
              /\ file' = [file EXCEPT ![dst[p]] = "secret"]
              /\ Ends(p)
              /\ UNCHANGED <<ignore, git, left, counts>>

----------------------------------------------------------------------------
Idle == \A p \in Proc : at[p] = "idle"

Moves == /\ Idle
         /\ moves < MaxMoves
         /\ moves' = moves + 1
         /\ UNCHANGED <<commands, at, args>>

(* "git add -A" stages what it does not ignore and what it tracks, and the *)
(* removal of what is gone.                                                *)
Passed == {"asks", "reads", "appends", "verifies", "verifies temp", "create", "fill", "rename"}

GitAddAll ==
    LET new == {d \in Dest \ Outside : file[d] # "none" /\ ~Ignored(d) /\ ~Tracked(d)}
    IN  /\ index' = new \cup {e \in index : \A d \in Dest : SameFile(e, d) => file[d] # "none"}
        /\ swept' = swept \cup {d \in new : \E p \in Proc : dst[p] = d /\ at[p] \in Passed}
        /\ UNCHANGED <<ignore, icase, file, left, counts, at, args>>

UserEditsIgnore(dir) == /\ Moves
                        /\ ignore' \in {[ignore EXCEPT ![dir] = s] : s \in UserLines[dir]}
                        /\ \A x \in Secrets : Ignored(x)'
                        /\ UNCHANGED <<git, file, left>>

(* "git add -f" and "git rm --cached" *)
UserTracks(e) == /\ Moves
                 /\ \A x \in Secrets \ Temp : ~SameFile(e, x)
                 /\ index' = index \cup {e}
                 /\ UNCHANGED <<ignore, icase, swept, file, left>>

UserUntracks(e) == /\ Moves
                   /\ index' = index \ {e}
                   /\ swept' = {d \in swept : \E f \in index \ {e} : SameFile(f, d)}
                   /\ UNCHANGED <<ignore, icase, file, left>>

UserWrites(d, c) == /\ Moves
                    /\ file' = [file EXCEPT ![d] = c]
                    /\ swept' = swept \ {d}
                    /\ UNCHANGED <<ignore, index, icase, left>>

UserCleans(t) == /\ Moves
                 /\ left' = left \ {t}
                 /\ UNCHANGED <<ignore, git, file>>

Next == \/ \E p \in Proc :
              \/ \E d \in Dest : Resolves(p, d)
              \/ \E dir \in Dir : Inits(p, dir)
              \/ FindsNoExactEntry(p) \/ FindsNoFoldedEntry(p)
              \/ \E x \in Path : Asks(p, x)
              \/ AppendReads(p) \/ AppendWrites(p)
              \/ Verifies(p) \/ VerifiesTemp(p)
              \/ Creates(p) \/ Fills(p) \/ Renames(p)
              \/ Fails(p) \/ Stop(p)
        \/ GitAddAll
        \/ \E dir \in Dir : UserEditsIgnore(dir)
        \/ \E e \in Entry : UserTracks(e) \/ UserUntracks(e)
        \/ \E d \in Dest \ Outside, c \in {"none", "own"} : UserWrites(d, c)
        \/ \E t \in Temp : UserCleans(t)

Spec == Init /\ [][Next]_vars

----------------------------------------------------------------------------
(* What a command has found out stays so until it writes, whatever other   *)
(* commands append: the destination, and then the temporary file, is       *)
(* ignored, and what was untracked is untracked unless "git add -A" took   *)
(* an earlier, unignored file (gitguard.go:42, 76).                        *)
Found(p) == dst[p] \in Dest \ Outside =>
    /\ at[p] \in Passed => ~Tracked(dst[p]) \/ dst[p] \in swept
    /\ at[p] \in {"verifies temp", "create", "fill", "rename"} => Ignored(dst[p])
    /\ at[p] \in {"create", "fill", "rename"} => Ignored(TempOf(dst[p]))

Inv == TypeOK /\ \A p \in Proc : Found(p)

(* Decrypted secrets are never committable: every file shenv has put them  *)
(* in, temporary ones and those a kill left behind included, is ignored by *)
(* git's own judgement, and is untracked under every spelling that names   *)
(* the same file, unless it was swept (gitguard.go:26-32).                 *)
Guarded == \A x \in Secrets : Ignored(x) /\ (x \in Dest => ~Tracked(x) \/ x \in swept)

(* Nothing git takes in holds secrets, or is about to: once git's answer   *)
(* has been verified, no spelling of the destination enters the index any  *)
(* more, although the write is still to come (gitguard.go:76-80).          *)
VerifiedStaysOut ==
    [][\A e \in index' \ index, d \in Dest \ Outside : SameFile(e, d) =>
          /\ file[d] # "secret"
          /\ \A p \in Proc : dst[p] = d =>
                at[p] \notin {"verifies temp", "create", "fill", "rename"}]_vars

(* The same without the exception: "open only writes once git itself       *)
(* confirms the destination is ignored and untracked" (README.md:244).     *)
NeverCommittable == \A x \in Secrets : Ignored(x) /\ (x \in Dest => ~Tracked(x))
============================================================================
