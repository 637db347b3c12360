--------------------------- MODULE GitGuardProofs ---------------------------
(* Decrypted secrets in a git worktree are ignored, and untracked unless   *)
(* "git add -A" was faster, for every number of commands and directories,  *)
(* every set of ignore rules, and a kill at any moment.                    *)
EXTENDS GitGuard, FiniteSetTheorems, SequenceTheorems,
        WellFoundedInduction, TLAPS

(* Where each step's destination may be; and the rules a command adds are  *)
(* finitely many, and take nothing back.                                   *)
Locals(p) ==
    /\ at[p] = "idle" => dst[p] = NoDest
    /\ at[p] \in {"exact", "folded", "asks", "verifies", "verifies temp"} =>
          dst[p] \in Dest \ Outside
    /\ at[p] \in {"reads", "appends"} => dst[p] \in (Dest \ Outside) \cup {NoDest}
    /\ at[p] \in {"create", "fill", "rename"} => dst[p] \in Dest
    /\ IsFiniteSet(rules[p])
    /\ \A r \in rules[p] \cap Negated : Matches[r] = {}

IInv == Inv /\ Guarded /\ \A p \in Proc : Locals(p)

----------------------------------------------------------------------------
(* Sequences and sets                                                      *)

(* A nonempty set of numbers up to n has a largest one. *)
LEMMA Largest == ASSUME NEW n \in Nat, NEW T \in SUBSET (1..n), T # {}
                 PROVE  \E m \in T : \A k \in T : k <= m
<1> DEFINE Below == {n - k : k \in T}
<1>1. PICK t \in T : TRUE
  OBVIOUS
<1>2. Below # {}
  BY <1>1
<1>3. \A k \in T : n - k \in Nat
  OBVIOUS
<1>4. Below \subseteq Nat /\ Below # {}
  BY <1>2, <1>3
<1>5. PICK b \in Below : \A c \in Below : ~(<<c, b>> \in OpToRel(<, Nat))
  BY <1>4, NatLessThanWellFounded, WFMin
<1>6. \A c \in Below : ~(c < b)
  BY <1>4, <1>5 DEF OpToRel
<1>7. PICK m \in T : b = n - m
  BY <1>5
<1>8. \A k \in T : k <= m
  <2> TAKE k \in T
  <2>1. n - k \in Below /\ n - m = b
    BY <1>7
  <2>2. ~(n - k < n - m)
    BY <1>6, <2>1
  <2> QED
    BY <2>2
<1> QED
  BY <1>8

(* A finite set of rules, written out line by line. *)
LEMMA LinesOfRules ==
    ASSUME NEW R \in SUBSET Rule, IsFiniteSet(R)
    PROVE  /\ SetToSeq(R) \in Seq(Rule)
           /\ \A i \in 1..Len(SetToSeq(R)) : SetToSeq(R)[i] \in R
<1> DEFINE n == Cardinality(R)
<1>1. n \in Nat /\ Bijection(1..n, R) # {}
  BY FS_CardinalityType DEF ExistsBijection
<1>2. PICK g \in Bijection(1..n, R) : TRUE
  BY <1>1
<1>3. g \in [1..n -> R] /\ IsInjective(g)
  BY <1>2 DEF Bijection, Injection
<1>4. SetToSeq(R) \in [1..n -> R]
  BY <1>3 DEF SetToSeq
<1>5. SetToSeq(R) \in Seq(R)
  BY <1>1, <1>4
<1> QED
  BY <1>5, SeqMonotonic, ElementOfSeq

----------------------------------------------------------------------------
(* What git answers                                                        *)

(* Ignored, of lines that need not be in a file. *)
Ignores(s, x) == \E i \in DOMAIN s :
                    /\ x \in Matches[s[i]] /\ s[i] \notin Negated
                    /\ \A j \in DOMAIN s : j > i => x \notin Matches[s[j]]

Harmless(s) == \A i \in 1..Len(s) : s[i] \in Negated => Matches[s[i]] = {}

(* Lines that take nothing back, put anywhere, leave what is ignored so:   *)
(* the last line that matches is one of them, or the one it was.           *)
LEMMA HarmlessLines ==
    ASSUME NEW a \in Seq(Rule), NEW t \in Seq(Rule), NEW b \in Seq(Rule), NEW x,
           Harmless(t), Ignores(a \o b, x)
    PROVE  Ignores((a \o t) \o b, x)
<1> DEFINE s == a \o b
           u == (a \o t) \o b
           Moved(k) == IF k <= Len(a) THEN k ELSE k + Len(t)
           T == {k \in 1..Len(u) : x \in Matches[u[k]]}
<1>1. /\ Len(a) \in Nat /\ Len(t) \in Nat /\ Len(b) \in Nat
      /\ s \in Seq(Rule) /\ u \in Seq(Rule)
      /\ Len(s) = Len(a) + Len(b)
      /\ Len(u) = Len(a) + Len(t) + Len(b)
      /\ \A k \in 1..Len(s) : s[k] = IF k <= Len(a) THEN a[k] ELSE b[k - Len(a)]
      /\ \A k \in 1..Len(u) : u[k] = IF k <= Len(a) THEN a[k]
                                     ELSE IF k <= Len(a) + Len(t) THEN t[k - Len(a)]
                                     ELSE b[k - Len(a) - Len(t)]
  <2>1. /\ a \o t \in Seq(Rule) /\ Len(a \o t) = Len(a) + Len(t)
        /\ \A k \in 1..Len(a) + Len(t) : (a \o t)[k] = IF k <= Len(a) THEN a[k]
                                                       ELSE t[k - Len(a)]
    BY ConcatProperties
  <2>2. /\ u \in Seq(Rule) /\ Len(u) = Len(a \o t) + Len(b)
        /\ \A k \in 1..Len(a \o t) + Len(b) :
              u[k] = IF k <= Len(a \o t) THEN (a \o t)[k] ELSE b[k - Len(a \o t)]
    BY <2>1, ConcatProperties
  <2>3. /\ s \in Seq(Rule) /\ Len(s) = Len(a) + Len(b)
        /\ \A k \in 1..Len(a) + Len(b) :
              s[k] = IF k <= Len(a) THEN a[k] ELSE b[k - Len(a)]
    BY ConcatProperties
  <2>4. Len(a) \in Nat /\ Len(t) \in Nat /\ Len(b) \in Nat
    BY LenProperties
  <2> HIDE DEF s, u
  <2> QED
    BY <2>1, <2>2, <2>3, <2>4
<1>2. DOMAIN s = 1..Len(s) /\ DOMAIN u = 1..Len(u)
  BY <1>1, LenProperties
<1> HIDE DEF s, u
<1>3. PICK i \in 1..Len(s) : /\ x \in Matches[s[i]] /\ s[i] \notin Negated
                             /\ \A j \in 1..Len(s) : j > i => x \notin Matches[s[j]]
  BY <1>2 DEF Ignores, s
<1>4. \A k \in 1..Len(s) : Moved(k) \in 1..Len(u) /\ u[Moved(k)] = s[k]
  <2> TAKE k \in 1..Len(s)
  <2>1. CASE k <= Len(a)
    <3>1. Moved(k) = k /\ k \in 1..Len(u)
      BY <1>1, <2>1
    <3>2. u[k] = a[k] /\ s[k] = a[k]
      BY <1>1, <2>1, <3>1
    <3> QED
      BY <3>1, <3>2
  <2>2. CASE k > Len(a)
    <3>1. Moved(k) = k + Len(t) /\ Moved(k) \in 1..Len(u)
      BY <1>1, <2>2
    <3>2. k + Len(t) > Len(a) + Len(t) /\ (k + Len(t)) - Len(a) - Len(t) = k - Len(a)
      BY <1>1, <2>2
    <3>3. u[k + Len(t)] = b[k - Len(a)]
      BY <1>1, <3>1, <3>2
    <3> QED
      BY <1>1, <2>2, <3>1, <3>3
  <2> QED
    BY <1>1, <2>1, <2>2
<1>5. Moved(i) \in T
  BY <1>3, <1>4
<1>6. PICK m \in T : \A k \in T : k <= m
  <2>1. T \in SUBSET (1..Len(u))
    OBVIOUS
  <2>2. Len(u) \in Nat
    BY <1>1
  <2> HIDE DEF T
  <2> QED
    BY <1>5, <2>1, <2>2, Largest
<1>7. \A j \in 1..Len(u) : j > m => x \notin Matches[u[j]]
  BY <1>1, <1>6
<1>8. u[m] \notin Negated
  <2>1. CASE m \in Len(a) + 1..Len(a) + Len(t)
    <3>1. m - Len(a) \in 1..Len(t) /\ u[m] = t[m - Len(a)]
      BY <1>1, <2>1
    <3> QED
      BY <1>6, <3>1 DEF Harmless
  <2>2. CASE m \notin Len(a) + 1..Len(a) + Len(t)
    <3>1. PICK k \in 1..Len(s) : m = Moved(k)
      <4>1. CASE m <= Len(a)
        BY <1>1, <4>1
      <4>2. CASE m > Len(a) + Len(t)
        <5>1. m - Len(t) \in 1..Len(s) /\ m - Len(t) > Len(a)
          BY <1>1, <4>2
        <5>2. m = Moved(m - Len(t))
          BY <1>1, <5>1
        <5> QED
          BY <5>1, <5>2
      <4> QED
        BY <1>1, <2>2, <4>1, <4>2
    <3>2. x \in Matches[s[k]]
      BY <1>4, <1>6, <3>1
    <3>3. ~(k > i)
      BY <1>3, <3>2
    <3>4. Moved(i) <= Moved(k)
      BY <1>5, <1>6, <3>1
    <3>5. k = i
      BY <1>1, <3>3, <3>4
    <3> QED
      BY <1>3, <1>4, <3>1, <3>5
  <2> QED
    BY <2>1, <2>2
<1> QED
  BY <1>2, <1>6, <1>7, <1>8 DEF Ignores, u

LEMMA StillIgnored ==
    ASSUME TypeOK, NEW x \in Path, NEW dir \in Dir, NEW t \in Seq(Rule), Harmless(t),
           ignore' = [ignore EXCEPT ![dir] = @ \o t], Ignored(x)
    PROVE  Ignored(x)'
<1> DEFINE a == ignore[Root]
           b == ignore[DirOf[x]]
<1>1. a \in Seq(Rule) /\ b \in Seq(Rule) /\ DirOf[x] \in Dir /\ Root \in Dir
  BY PathAssumption DEF TypeOK
<1>2. \A d \in Dir : ignore'[d] = IF d = dir THEN ignore[d] \o t ELSE ignore[d]
  BY DEF TypeOK
<1>3. Ignores(Lines(x), x)
  BY DEF Ignored, Ignores
<1>4. SUFFICES Ignores(Lines(x)', x)
  BY DEF Ignored, Ignores
<1>5. \A s \in Seq(Rule) : Ignores(s, x) => Ignores(s \o t, x)
  <2> TAKE s \in Seq(Rule)
  <2>1. s \o << >> = s /\ (s \o t) \o << >> = s \o t /\ << >> \in Seq(Rule)
    BY ConcatProperties, ConcatEmptySeq
  <2>2. HAVE Ignores(s, x)
  <2> QED
    BY <2>1, <2>2, HarmlessLines
<1>6. CASE DirOf[x] = Root
  BY <1>1, <1>2, <1>3, <1>5, <1>6 DEF Lines
<1>7. CASE DirOf[x] # Root
  <2>1. Ignores(a \o b, x)
    BY <1>3, <1>7 DEF Lines
  <2>2. Lines(x)' = ignore'[Root] \o ignore'[DirOf[x]]
    BY <1>7 DEF Lines
  <2>3. CASE dir = Root
    BY <1>1, <1>2, <1>7, <2>1, <2>2, <2>3, HarmlessLines
  <2>4. CASE dir = DirOf[x]
    <3>1. Lines(x)' = a \o (b \o t)
      BY <1>1, <1>2, <1>7, <2>2, <2>4
    <3>2. Lines(x)' = (a \o b) \o t
      <4> HIDE DEF a, b
      <4>1. a \o (b \o t) = (a \o b) \o t
        BY <1>1, ConcatAssociative
      <4> QED
        BY <3>1, <4>1
    <3> QED
      BY <1>1, <1>5, <2>1, <3>2, ConcatProperties
  <2>5. CASE dir # Root /\ dir # DirOf[x]
    BY <1>1, <1>2, <2>1, <2>2, <2>5
  <2> QED
    BY <2>3, <2>4, <2>5
<1> QED
  BY <1>6, <1>7

(* The temporary file of a destination is next to it. *)
LEMMA TempIsNear ==
    ASSUME NEW d \in Dest \ Outside
    PROVE  /\ d \in Path /\ TempOf(d) \in Temp /\ TempOf(d) \in Path
           /\ TempOf(d) \notin Dest /\ DirOf[TempOf(d)] = DirOf[d]
<1>1. d \in Path /\ DirOf[d] \in Dir
  BY PathAssumption DEF Path
<1>2. \E t \in Temp : DirOf[t] = DirOf[d]
  BY <1>1, PathAssumption
<1> QED
  BY <1>1, <1>2, PathAssumption DEF TempOf, Path

----------------------------------------------------------------------------
(* Types                                                                   *)

LEMMA EndsTyped ==
    ASSUME TypeOK, NEW p \in Proc, Ends(p)
    PROVE  /\ at' \in [Proc -> Steps]
           /\ dst' \in [Proc -> Dest \cup {NoDest}]
           /\ asked' \in [Proc -> SUBSET Path]
           /\ rules' \in [Proc -> SUBSET Rule]
           /\ into' \in [Proc -> Dir]
BY PathAssumption DEF TypeOK, Ends, Steps

LEMMA Counted ==
    ASSUME NEW m \in Nat, NEW n \in 0..m
    PROVE  n < m => n + 1 \in 0..m
OBVIOUS

LEMMA InitIInv == Init => IInv
<1> SUFFICES ASSUME Init PROVE IInv
  OBVIOUS
<1>1. ignore \in [Dir -> Seq(Rule)]
  BY RuleAssumption DEF Init
<1>2. TypeOK
  BY <1>1, BoundAssumption, PathAssumption DEF Init, TypeOK, Steps
<1>3. Secrets = {}
  BY DEF Init, Secrets, Writing
<1>4. Guarded
  BY <1>3 DEF Guarded
<1>5. \A p \in Proc : Found(p) /\ Locals(p)
  <2> TAKE p \in Proc
  <2>1. at[p] = "idle" /\ dst[p] = NoDest /\ rules[p] = {}
    BY DEF Init
  <2>2. IsFiniteSet(rules[p])
    BY <2>1, FS_EmptySet
  <2> QED
    BY <2>1, <2>2, PathAssumption DEF Found, Locals
<1> QED
  BY <1>2, <1>4, <1>5 DEF IInv, Inv

LEMMA NextType ==
    ASSUME IInv, [Next]_vars
    PROVE  TypeOK'
<1> USE BoundAssumption DEF IInv, Inv, TypeOK, git, args, counts
<1>1. ASSUME NEW p \in Proc, NEW d \in Dest, Resolves(p, d) PROVE TypeOK'
  <2>1. commands' \in 0..MaxCommands /\ moves' \in 0..MaxMoves
    BY <1>1, Counted DEF Resolves, Begins
  <2>2. at' \in [Proc -> Steps]
    BY <1>1 DEF Resolves, Begins, Goes, Steps
  <2> QED
    BY <1>1, <2>1, <2>2 DEF Resolves
<1>2. ASSUME NEW p \in Proc, NEW dir \in Dir, Inits(p, dir) PROVE TypeOK'
  <2>1. commands' \in 0..MaxCommands /\ moves' \in 0..MaxMoves
    BY <1>2, Counted DEF Inits, Begins
  <2>2. at' \in [Proc -> Steps]
    BY <1>2 DEF Inits, Begins, Goes, Steps
  <2>3. rules' \in [Proc -> SUBSET Rule]
    BY <1>2, RuleAssumption DEF Inits
  <2> QED
    BY <1>2, <2>1, <2>2, <2>3 DEF Inits
<1>3. ASSUME NEW p \in Proc, FindsNoExactEntry(p) PROVE TypeOK'
  BY <1>3 DEF FindsNoExactEntry, Goes, Steps
<1>4. ASSUME NEW p \in Proc, FindsNoFoldedEntry(p) PROVE TypeOK'
  BY <1>4 DEF FindsNoFoldedEntry, Goes, Steps
<1>5. ASSUME NEW p \in Proc, NEW x \in Path, Asks(p, x) PROVE TypeOK'
  <2>1. RuleFor[x] \in Rule
    BY RuleAssumption
  <2>2. rules' \in [Proc -> SUBSET Rule]
    BY <1>5, <2>1 DEF Asks
  <2>3. asked' \in [Proc -> SUBSET Path] /\ at' \in [Proc -> Steps]
    BY <1>5 DEF Asks, Steps
  <2> QED
    BY <1>5, <2>2, <2>3 DEF Asks
<1>6. ASSUME NEW p \in Proc, AppendReads(p) PROVE TypeOK'
  <2>1. /\ at' \in [Proc -> Steps] /\ dst' \in [Proc -> Dest \cup {NoDest}]
        /\ asked' \in [Proc -> SUBSET Path] /\ rules' \in [Proc -> SUBSET Rule]
        /\ into' \in [Proc -> Dir]
    BY <1>6, EndsTyped DEF AppendReads, Steps
  <2> QED
    BY <1>6, <2>1 DEF AppendReads
<1>7. ASSUME NEW p \in Proc, AppendWrites(p) PROVE TypeOK'
  <2>1. /\ at' \in [Proc -> Steps] /\ dst' \in [Proc -> Dest \cup {NoDest}]
        /\ asked' \in [Proc -> SUBSET Path] /\ rules' \in [Proc -> SUBSET Rule]
        /\ into' \in [Proc -> Dir]
    BY <1>7, EndsTyped DEF AppendWrites, Steps
  <2>2. SetToSeq(rules[p]) \in Seq(Rule)
    BY LinesOfRules DEF Locals
  <2>3. ignore[into[p]] \o SetToSeq(rules[p]) \in Seq(Rule)
    BY <2>2, ConcatProperties
  <2>4. ignore' \in [Dir -> Seq(Rule)]
    BY <1>7, <2>3 DEF AppendWrites
  <2> QED
    BY <1>7, <2>1, <2>4 DEF AppendWrites
<1>8. ASSUME NEW p \in Proc, Verifies(p) PROVE TypeOK'
  BY <1>8 DEF Verifies, Goes, Steps
<1>9. ASSUME NEW p \in Proc, VerifiesTemp(p) PROVE TypeOK'
  BY <1>9 DEF VerifiesTemp, Goes, Steps
<1>10. ASSUME NEW p \in Proc, Creates(p) PROVE TypeOK'
  BY <1>10 DEF Creates, Goes, Steps
<1>11. ASSUME NEW p \in Proc, Fills(p) PROVE TypeOK'
  BY <1>11 DEF Fills, Goes, Steps
<1>12. ASSUME NEW p \in Proc, Renames(p) PROVE TypeOK'
  <2>1. /\ at' \in [Proc -> Steps] /\ dst' \in [Proc -> Dest \cup {NoDest}]
        /\ asked' \in [Proc -> SUBSET Path] /\ rules' \in [Proc -> SUBSET Rule]
        /\ into' \in [Proc -> Dir]
    BY <1>12, EndsTyped DEF Renames
  <2> QED
    BY <1>12, <2>1 DEF Renames
<1>13. ASSUME NEW p \in Proc, Fails(p) PROVE TypeOK'
  <2>1. /\ at' \in [Proc -> Steps] /\ dst' \in [Proc -> Dest \cup {NoDest}]
        /\ asked' \in [Proc -> SUBSET Path] /\ rules' \in [Proc -> SUBSET Rule]
        /\ into' \in [Proc -> Dir]
    BY <1>13, EndsTyped DEF Fails
  <2> QED
    BY <1>13, <2>1 DEF Fails
<1>14. ASSUME NEW p \in Proc, Stop(p) PROVE TypeOK'
  <2>1. /\ at' \in [Proc -> Steps] /\ dst' \in [Proc -> Dest \cup {NoDest}]
        /\ asked' \in [Proc -> SUBSET Path] /\ rules' \in [Proc -> SUBSET Rule]
        /\ into' \in [Proc -> Dir]
    BY <1>14, EndsTyped DEF Stop
  <2>2. left' \in SUBSET Temp
    <3>1. Writing(p) /\ dst[p] \notin Outside => TempOf(dst[p]) \in Temp
      BY TempIsNear DEF Writing, Locals
    <3> QED
      BY <1>14, <3>1 DEF Stop
  <2> QED
    BY <1>14, <2>1, <2>2 DEF Stop
<1>15. CASE GitAddAll
  <2>1. index' \in SUBSET Entry
    BY <1>15, PathAssumption DEF GitAddAll
  <2>2. swept' \in SUBSET Dest
    BY <1>15 DEF GitAddAll
  <2> QED
    BY <1>15, <2>1, <2>2 DEF GitAddAll
<1>16. ASSUME NEW dir \in Dir, UserEditsIgnore(dir) PROVE TypeOK'
  <2>1. ignore' \in [Dir -> Seq(Rule)]
    <3>1. PICK l \in UserLines[dir] : ignore' = [ignore EXCEPT ![dir] = l]
      BY <1>16 DEF UserEditsIgnore
    <3>2. l \in Seq(Rule)
      BY <3>1, RuleAssumption
    <3> QED
      BY <3>1, <3>2
  <2>2. moves' \in 0..MaxMoves
    BY <1>16, Counted DEF UserEditsIgnore, Moves
  <2> QED
    BY <1>16, <2>1, <2>2 DEF UserEditsIgnore, Moves
<1>17. ASSUME NEW e \in Entry, UserTracks(e) PROVE TypeOK'
  <2>1. moves' \in 0..MaxMoves
    BY <1>17, Counted DEF UserTracks, Moves
  <2> QED
    BY <1>17, <2>1 DEF UserTracks, Moves, SameFile
<1>18. ASSUME NEW e \in Entry, UserUntracks(e) PROVE TypeOK'
  <2>1. moves' \in 0..MaxMoves
    BY <1>18, Counted DEF UserUntracks, Moves
  <2> QED
    BY <1>18, <2>1 DEF UserUntracks, Moves, SameFile
<1>19. ASSUME NEW d \in Dest \ Outside, NEW c \in {"none", "own"}, UserWrites(d, c)
       PROVE  TypeOK'
  <2>1. moves' \in 0..MaxMoves
    BY <1>19, Counted DEF UserWrites, Moves
  <2> QED
    BY <1>19, <2>1 DEF UserWrites, Moves, SameFile
<1>20. ASSUME NEW t \in Temp, UserCleans(t) PROVE TypeOK'
  <2>1. moves' \in 0..MaxMoves
    BY <1>20, Counted DEF UserCleans, Moves
  <2> QED
    BY <1>20, <2>1 DEF UserCleans, Moves, SameFile
<1>21. CASE UNCHANGED vars
  BY <1>21 DEF vars
<1>22. QED
  BY <1>1, <1>2, <1>3, <1>4, <1>5, <1>6, <1>7, <1>8, <1>9, <1>10, <1>11, <1>12,
     <1>13, <1>14, <1>15, <1>16, <1>17, <1>18, <1>19, <1>20, <1>21
  DEF Next

----------------------------------------------------------------------------
(* The steps of a command                                                  *)

Acts(p) == \/ \E d \in Dest : Resolves(p, d)
           \/ \E dir \in Dir : Inits(p, dir)
           \/ FindsNoExactEntry(p) \/ FindsNoFoldedEntry(p)
           \/ \E x \in Path : Asks(p, x)
           \/ AppendReads(p) \/ AppendWrites(p)
           \/ Verifies(p) \/ VerifiesTemp(p)
           \/ Creates(p) \/ Fills(p) \/ Renames(p)
           \/ Fails(p) \/ Stop(p)

(* A command does not touch what another one knows, nor the index. *)
LEMMA ActsAlone ==
    ASSUME TypeOK, NEW p \in Proc, Acts(p)
    PROVE  /\ UNCHANGED git
           /\ \A q \in Proc \ {p} :
                 at'[q] = at[q] /\ dst'[q] = dst[q] /\ rules'[q] = rules[q]
<1> DEFINE Goal == /\ UNCHANGED git
                   /\ \A q \in Proc \ {p} :
                         at'[q] = at[q] /\ dst'[q] = dst[q] /\ rules'[q] = rules[q]
<1> SUFFICES Goal
  OBVIOUS
<1> USE DEF TypeOK, args, Ends
<1>1. ASSUME NEW d \in Dest, Resolves(p, d) PROVE Goal
  BY <1>1 DEF Resolves, Begins, Goes
<1>2. ASSUME NEW dir \in Dir, Inits(p, dir) PROVE Goal
  BY <1>2 DEF Inits, Begins, Goes
<1>3. CASE FindsNoExactEntry(p)
  BY <1>3 DEF FindsNoExactEntry, Goes
<1>4. CASE FindsNoFoldedEntry(p)
  BY <1>4 DEF FindsNoFoldedEntry, Goes
<1>5. ASSUME NEW x \in Path, Asks(p, x) PROVE Goal
  BY <1>5 DEF Asks
<1>6. CASE AppendReads(p)
  BY <1>6 DEF AppendReads
<1>7. CASE AppendWrites(p)
  BY <1>7 DEF AppendWrites
<1>8. CASE Verifies(p)
  BY <1>8 DEF Verifies, Goes
<1>9. CASE VerifiesTemp(p)
  BY <1>9 DEF VerifiesTemp, Goes
<1>10. CASE Creates(p)
  BY <1>10 DEF Creates, Goes
<1>11. CASE Fills(p)
  BY <1>11 DEF Fills, Goes
<1>12. CASE Renames(p)
  BY <1>12 DEF Renames
<1>13. CASE Fails(p)
  BY <1>13 DEF Fails
<1>14. CASE Stop(p)
  BY <1>14 DEF Stop
<1>15. QED
  BY <1>1, <1>2, <1>3, <1>4, <1>5, <1>6, <1>7, <1>8, <1>9, <1>10, <1>11, <1>12,
     <1>13, <1>14
  DEF Acts

(* Whatever is appended, it takes nothing back. *)
LEMMA ActsIgnore ==
    ASSUME IInv, NEW p \in Proc, Acts(p), NEW x \in Path, Ignored(x)
    PROVE  Ignored(x)'
<1>1. CASE UNCHANGED ignore
  BY <1>1 DEF Ignored, Lines
<1>2. CASE AppendWrites(p)
  <2> DEFINE t == SetToSeq(rules[p])
  <2>1. rules[p] \in SUBSET Rule /\ Locals(p) /\ into[p] \in Dir
    BY DEF IInv, Inv, TypeOK
  <2>2. t \in Seq(Rule) /\ \A i \in 1..Len(t) : t[i] \in rules[p]
    BY <2>1, LinesOfRules DEF Locals
  <2>3. Harmless(t)
    BY <2>1, <2>2 DEF Harmless, Locals
  <2>4. ignore' = [ignore EXCEPT ![into[p]] = @ \o t]
    BY <1>2 DEF AppendWrites
  <2> HIDE DEF t
  <2> QED
    BY <2>1, <2>2, <2>3, <2>4, StillIgnored DEF IInv, Inv
<1>3. AppendWrites(p) \/ UNCHANGED ignore
  BY DEF Acts, Resolves, Inits, FindsNoExactEntry, FindsNoFoldedEntry, Asks, AppendReads,
         Verifies, VerifiesTemp, Creates, Fills, Renames, Fails, Stop
<1> QED
  BY <1>1, <1>2, <1>3

(* What a command that ends knows. *)
LEMMA EndsIdle ==
    ASSUME TypeOK, NEW p \in Proc, Ends(p)
    PROVE  at'[p] = "idle" /\ dst'[p] = NoDest /\ rules'[p] = {} /\ Locals(p)'
<1>1. at'[p] = "idle" /\ dst'[p] = NoDest /\ rules'[p] = {}
  BY DEF TypeOK, Ends
<1>2. IsFiniteSet(rules'[p])
  BY <1>1, FS_EmptySet
<1> QED
  BY <1>1, <1>2 DEF Locals

LEMMA OwnLocals ==
    ASSUME IInv, NEW p \in Proc, Acts(p)
    PROVE  Locals(p)'
<1> USE DEF IInv, Inv, TypeOK, args
<1>1. ASSUME NEW d \in Dest, Resolves(p, d) PROVE Locals(p)'
  <2>1. at[p] = "idle" /\ rules'[p] = rules[p] /\ dst'[p] = d
        /\ at'[p] = IF d \in Outside THEN "create" ELSE "exact"
    BY <1>1 DEF Resolves, Begins, Goes
  <2> QED
    BY <2>1 DEF Locals
<1>2. ASSUME NEW dir \in Dir, Inits(p, dir) PROVE Locals(p)'
  <2>1. at[p] = "idle" /\ rules'[p] = InitRules /\ dst'[p] = dst[p] /\ at'[p] = "reads"
    BY <1>2 DEF Inits, Begins, Goes
  <2> QED
    BY <2>1, RuleAssumption DEF Locals
<1>3. CASE FindsNoExactEntry(p)
  BY <1>3 DEF FindsNoExactEntry, Goes, Locals
<1>4. CASE FindsNoFoldedEntry(p)
  BY <1>4 DEF FindsNoFoldedEntry, Goes, Locals
<1>5. ASSUME NEW x \in Path, Asks(p, x) PROVE Locals(p)'
  <2>1. /\ at[p] = "asks" /\ at'[p] \in {"asks", "reads"} /\ dst'[p] = dst[p]
        /\ rules'[p] \in {rules[p], rules[p] \cup {RuleFor[x]}}
    BY <1>5 DEF Asks
  <2>2. IsFiniteSet(rules[p] \cup {RuleFor[x]})
    BY FS_AddElement DEF Locals
  <2>3. RuleFor[x] \notin Negated
    BY RuleAssumption
  <2> QED
    BY <2>1, <2>2, <2>3 DEF Locals
<1>6. CASE AppendReads(p)
  <2> DEFINE new == rules[p] \ ToSet(ignore[into[p]])
  <2>1. /\ at[p] = "reads"
        /\ \/ at'[p] = "appends" /\ rules'[p] = new /\ dst'[p] = dst[p]
           \/ /\ dst[p] # NoDest /\ at'[p] = "verifies"
              /\ dst'[p] = dst[p] /\ rules'[p] = rules[p]
           \/ Ends(p)
    BY <1>6 DEF AppendReads
  <2>2. new \subseteq rules[p] /\ IsFiniteSet(new)
    BY FS_Subset DEF Locals
  <2> HIDE DEF new
  <2> QED
    BY <2>1, <2>2, EndsIdle DEF Locals
<1>7. CASE AppendWrites(p)
  <2>1. /\ at[p] = "appends"
        /\ \/ /\ dst[p] # NoDest /\ at'[p] = "verifies"
              /\ dst'[p] = dst[p] /\ rules'[p] = rules[p]
           \/ Ends(p)
    BY <1>7 DEF AppendWrites
  <2> QED
    BY <2>1, EndsIdle DEF Locals
<1>8. CASE Verifies(p)
  BY <1>8 DEF Verifies, Goes, Locals
<1>9. CASE VerifiesTemp(p)
  BY <1>9 DEF VerifiesTemp, Goes, Locals
<1>10. CASE Creates(p)
  BY <1>10 DEF Creates, Goes, Locals
<1>11. CASE Fills(p)
  BY <1>11 DEF Fills, Goes, Locals
<1>12. CASE Renames(p)
  BY <1>12, EndsIdle DEF Renames
<1>13. CASE Fails(p)
  BY <1>13, EndsIdle DEF Fails
<1>14. CASE Stop(p)
  BY <1>14, EndsIdle DEF Stop
<1>15. QED
  BY <1>1, <1>2, <1>3, <1>4, <1>5, <1>6, <1>7, <1>8, <1>9, <1>10, <1>11, <1>12,
     <1>13, <1>14
  DEF Acts

LEMMA NextLocals ==
    ASSUME IInv, [Next]_vars
    PROVE  \A q \in Proc : Locals(q)'
<1> TAKE q \in Proc
<1>1. ASSUME UNCHANGED <<at, dst, rules>>
      PROVE  Locals(q)'
  BY <1>1 DEF IInv, Locals
<1>2. ASSUME NEW p \in Proc, Acts(p)
      PROVE  Locals(q)'
  <2>1. CASE q = p
    BY <1>2, <2>1, OwnLocals
  <2>2. CASE q # p
    BY <1>2, <2>2, ActsAlone DEF IInv, Inv, Locals
  <2> QED
    BY <2>1, <2>2
<1>3. Next => (\E p \in Proc : Acts(p)) \/ UNCHANGED <<at, dst, rules>>
  BY DEF Next, Acts, GitAddAll, UserEditsIgnore, UserTracks, UserUntracks, UserWrites,
         UserCleans, Moves, args
<1> QED
  BY <1>1, <1>2, <1>3 DEF vars, args

----------------------------------------------------------------------------
(* What commands have found out                                            *)

LEMMA SameAnswers ==
    /\ UNCHANGED git => \A d \in Dest : Tracked(d)' = Tracked(d)
    /\ UNCHANGED ignore => \A x \in Path : Ignored(x)' = Ignored(x)
<1>1. UNCHANGED git => \A d \in Dest : Tracked(d)' = Tracked(d)
  BY DEF git, Tracked, SameFile
<1>2. UNCHANGED ignore => \A x \in Path : Ignored(x)' = Ignored(x)
  BY DEF Ignored, Lines
<1> QED
  BY <1>1, <1>2

LEMMA OwnFound ==
    ASSUME IInv, NEW p \in Proc, Acts(p)
    PROVE  Found(p)'
<1>1. /\ Found(p) /\ Locals(p) /\ TypeOK
      /\ UNCHANGED git /\ \A d \in Dest : Tracked(d)' = Tracked(d)
      /\ \A x \in Path : Ignored(x) => Ignored(x)'
      /\ NoDest \notin Dest
      /\ \A d \in Dest \ Outside : d \in Path /\ TempOf(d) \in Path
  BY ActsAlone, ActsIgnore, SameAnswers, TempIsNear, PathAssumption DEF IInv, Inv
<1>2. ASSUME dst'[p] = dst[p], dst[p] \in Dest \ Outside
      PROVE  /\ Tracked(dst[p])' <=> Tracked(dst[p])
             /\ dst[p] \in swept' <=> dst[p] \in swept
             /\ Ignored(dst[p]) => Ignored(dst[p])'
             /\ Ignored(TempOf(dst[p])) => Ignored(TempOf(dst[p]))'
  BY <1>1, <1>2 DEF git
<1>3. Found(p) /\ Locals(p) /\ TypeOK /\ NoDest \notin Dest
  BY <1>1
<1> USE <1>2, <1>3 DEF Found, Passed
<1>4. ASSUME NEW d \in Dest, Resolves(p, d) PROVE Found(p)'
  <2>1. dst'[p] = d /\ at'[p] = IF d \in Outside THEN "create" ELSE "exact"
    BY <1>4 DEF Resolves, Begins, Goes, TypeOK
  <2> QED
    BY <2>1
<1>5. ASSUME NEW dir \in Dir, Inits(p, dir) PROVE Found(p)'
  <2>1. dst'[p] = NoDest
    BY <1>5 DEF Inits, Begins, Goes, Locals
  <2> QED
    BY <2>1
<1>6. CASE FindsNoExactEntry(p)
  <2>1. dst'[p] = dst[p] /\ at'[p] = IF icase THEN "folded" ELSE "asks"
    BY <1>6 DEF FindsNoExactEntry, Goes, TypeOK, args
  <2>2. dst[p] \notin index
    BY <1>6 DEF FindsNoExactEntry
  <2>3. ~icase => ~Tracked(dst[p])
    BY <2>2 DEF Tracked, SameFile
  <2> QED
    BY <2>1, <2>3
<1>7. CASE FindsNoFoldedEntry(p)
  <2>1. dst'[p] = dst[p] /\ at[p] = "folded" /\ at'[p] = "asks" /\ ~Tracked(dst[p])
    BY <1>7 DEF FindsNoFoldedEntry, Goes, TypeOK, args
  <2> QED
    BY <2>1
<1>8. ASSUME NEW x \in Path, Asks(p, x) PROVE Found(p)'
  <2>1. dst'[p] = dst[p] /\ at[p] = "asks" /\ at'[p] \in {"asks", "reads"}
    BY <1>8 DEF Asks, TypeOK
  <2> QED
    BY <2>1
<1>9. CASE AppendReads(p)
  <2>1. /\ at[p] = "reads"
        /\ \/ dst'[p] = dst[p] /\ at'[p] \in {"appends", "verifies"}
           \/ Ends(p)
    BY <1>9 DEF AppendReads, TypeOK, args
  <2>2. CASE Ends(p)
    BY <2>2, EndsIdle
  <2> QED
    BY <2>1, <2>2
<1>10. CASE AppendWrites(p)
  <2>1. /\ at[p] = "appends"
        /\ \/ dst'[p] = dst[p] /\ at'[p] \in {"appends", "verifies"}
           \/ Ends(p)
    BY <1>10 DEF AppendWrites, TypeOK, args
  <2>2. CASE Ends(p)
    BY <2>2, EndsIdle
  <2> QED
    BY <2>1, <2>2
<1>11. CASE Verifies(p)
  <2>1. /\ dst'[p] = dst[p] /\ at[p] = "verifies" /\ at'[p] = "verifies temp"
        /\ Ignored(dst[p])
    BY <1>11 DEF Verifies, Goes, TypeOK, args
  <2> QED
    BY <2>1
<1>12. CASE VerifiesTemp(p)
  <2>1. /\ dst'[p] = dst[p] /\ at[p] = "verifies temp" /\ at'[p] = "create"
        /\ Ignored(TempOf(dst[p]))
    BY <1>12 DEF VerifiesTemp, Goes, TypeOK, args
  <2> QED
    BY <2>1
<1>13. CASE Creates(p)
  <2>1. dst'[p] = dst[p] /\ at[p] = "create" /\ at'[p] = "fill"
    BY <1>13 DEF Creates, Goes, TypeOK, args
  <2> QED
    BY <2>1
<1>14. CASE Fills(p)
  <2>1. dst'[p] = dst[p] /\ at[p] = "fill" /\ at'[p] = "rename"
    BY <1>14 DEF Fills, Goes, TypeOK, args
  <2> QED
    BY <2>1
<1>15. CASE Renames(p)
  BY <1>15, EndsIdle DEF Renames
<1>16. CASE Fails(p)
  BY <1>16, EndsIdle DEF Fails
<1>17. CASE Stop(p)
  BY <1>17, EndsIdle DEF Stop
<1>18. QED
  BY <1>4, <1>5, <1>6, <1>7, <1>8, <1>9, <1>10, <1>11, <1>12, <1>13, <1>14, <1>15,
     <1>16, <1>17
  DEF Acts

(* What others have found stays so. *)
LEMMA OthersFound ==
    ASSUME IInv, NEW p \in Proc, Acts(p), NEW q \in Proc \ {p}
    PROVE  Found(q)'
<1>1. /\ Found(q) /\ UNCHANGED git /\ at'[q] = at[q] /\ dst'[q] = dst[q]
      /\ \A d \in Dest : Tracked(d)' = Tracked(d)
      /\ \A x \in Path : Ignored(x) => Ignored(x)'
      /\ \A d \in Dest \ Outside : d \in Path /\ TempOf(d) \in Path
  BY ActsAlone, ActsIgnore, SameAnswers, TempIsNear DEF IInv, Inv
<1> QED
  BY <1>1 DEF Found, git

(* Only "git add -A" takes a file behind a command's back, and it knows;   *)
(* a user moves when there is no command.                                  *)
LEMMA NextFound ==
    ASSUME IInv, [Next]_vars
    PROVE  \A q \in Proc : Found(q)'
<1> TAKE q \in Proc
<1> USE DEF IInv, Inv
<1>1. ASSUME NEW p \in Proc, Acts(p)
      PROVE  Found(q)'
  BY <1>1, OwnFound, OthersFound
<1>2. CASE GitAddAll
  <2> DEFINE new == {d \in Dest \ Outside : file[d] # "none" /\ ~Ignored(d) /\ ~Tracked(d)}
  <2>1. /\ UNCHANGED <<ignore, icase, at, dst>>
        /\ index' = new \cup {e \in index : \A d \in Dest : SameFile(e, d) => file[d] # "none"}
        /\ swept' = swept \cup {d \in new : \E p \in Proc : dst[p] = d /\ at[p] \in Passed}
    BY <1>2 DEF GitAddAll, args
  <2>2. SUFFICES ASSUME dst[q] \in Dest \ Outside, at[q] \in Passed, Tracked(dst[q])'
                 PROVE  dst[q] \in swept'
    <3>1. \A x \in Path : Ignored(x)' = Ignored(x)
      BY <2>1, SameAnswers
    <3> QED
      BY <2>1, <2>2, <3>1, TempIsNear DEF Found
  <2>3. PICK e \in index' : SameFile(e, dst[q])
    BY <2>1, <2>2 DEF Tracked, SameFile
  <2>4. CASE e \in index
    BY <2>1, <2>2, <2>3, <2>4 DEF Found, Tracked
  <2>5. CASE e \in new
    <3>1. e = dst[q]
      BY <2>3, <2>5, PathAssumption DEF SameFile
    <3> QED
      BY <2>1, <2>2, <2>5, <3>1
  <2> QED
    BY <2>1, <2>3, <2>4, <2>5
<1>3. CASE UNCHANGED vars
  BY <1>3, SameAnswers, TempIsNear DEF vars, git, args, Found
<1>4. ASSUME Moves
      PROVE  Found(q)'
  BY <1>4 DEF Moves, Idle, args, Found, Passed
<1>5. Next => (\E p \in Proc : Acts(p)) \/ GitAddAll \/ Moves
  BY DEF Next, Acts, UserEditsIgnore, UserTracks, UserUntracks, UserWrites, UserCleans
<1> QED
  BY <1>1, <1>2, <1>3, <1>4, <1>5

----------------------------------------------------------------------------
(* Secrets                                                                 *)

(* Where secrets appear: in the temporary file that is created, and at the *)
(* destination to which it is renamed.                                     *)
LEMMA ActsSecrets ==
    ASSUME IInv, NEW p \in Proc, Acts(p), NEW x \in Secrets'
    PROVE  \/ x \in Secrets
           \/ at[p] = "create" /\ dst[p] \in Dest \ Outside /\ x = TempOf(dst[p])
           \/ at[p] = "rename" /\ dst[p] \in Dest \ Outside /\ x = dst[p]
<1> DEFINE Named  == \A d \in Dest : file'[d] = "secret" =>
                        file[d] = "secret" \/ (at[p] = "rename" /\ d = dst[p])
           Strays == \A y \in left' :
                        \/ y \in left
                        \/ Writing(p) /\ dst[p] \notin Outside /\ y = TempOf(dst[p])
           Writes == at'[p] \in {"fill", "rename"} =>
                        dst'[p] = dst[p] /\ (Writing(p) \/ at[p] = "create")
<1>1. Named /\ Strays /\ Writes
  <2> USE DEF IInv, Inv, TypeOK, Writing
  <2>1. ASSUME NEW d \in Dest, Resolves(p, d) PROVE Named /\ Strays /\ Writes
    BY <2>1 DEF Resolves, Begins, Goes, args
  <2>2. ASSUME NEW dir \in Dir, Inits(p, dir) PROVE Named /\ Strays /\ Writes
    BY <2>2 DEF Inits, Begins, Goes, args
  <2>3. CASE FindsNoExactEntry(p)
    BY <2>3 DEF FindsNoExactEntry, Goes, args
  <2>4. CASE FindsNoFoldedEntry(p)
    BY <2>4 DEF FindsNoFoldedEntry, Goes, args
  <2>5. ASSUME NEW y \in Path, Asks(p, y) PROVE Named /\ Strays /\ Writes
    BY <2>5 DEF Asks, args
  <2>6. CASE AppendReads(p)
    <3>1. /\ UNCHANGED <<file, left>> /\ at[p] = "reads"
          /\ Ends(p) \/ at'[p] \in {"appends", "verifies"}
      BY <2>6 DEF AppendReads
    <3> QED
      BY <3>1, EndsIdle
  <2>7. CASE AppendWrites(p)
    <3>1. /\ UNCHANGED <<file, left>> /\ at[p] = "appends"
          /\ Ends(p) \/ at'[p] = "verifies"
      BY <2>7 DEF AppendWrites
    <3> QED
      BY <3>1, EndsIdle
  <2>8. CASE Verifies(p)
    BY <2>8 DEF Verifies, Goes, args
  <2>9. CASE VerifiesTemp(p)
    BY <2>9 DEF VerifiesTemp, Goes, args
  <2>10. CASE Creates(p)
    BY <2>10 DEF Creates, Goes, args
  <2>11. CASE Fills(p)
    BY <2>11 DEF Fills, Goes, args
  <2>12. CASE Renames(p)
    BY <2>12, EndsIdle DEF Renames
  <2>13. CASE Fails(p)
    BY <2>13, EndsIdle DEF Fails
  <2>14. CASE Stop(p)
    BY <2>14, EndsIdle DEF Stop
  <2>15. QED
    BY <2>1, <2>2, <2>3, <2>4, <2>5, <2>6, <2>7, <2>8, <2>9, <2>10, <2>11, <2>12,
       <2>13, <2>14
    DEF Acts
<1>2. CASE x \in Dest \ Outside /\ file'[x] = "secret"
  BY <1>1, <1>2 DEF Secrets
<1>3. CASE x \in left'
  BY <1>1, <1>3 DEF Secrets
<1>4. ASSUME NEW q \in Proc, Writing(q)', dst'[q] \notin Outside, x = TempOf(dst'[q])
      PROVE  \/ x \in Secrets
             \/ at[p] = "create" /\ dst[p] \in Dest \ Outside /\ x = TempOf(dst[p])
  <2>1. CASE q = p
    <3>1. dst'[p] = dst[p] /\ (Writing(p) \/ at[p] = "create")
      BY <1>1, <1>4, <2>1 DEF Writing
    <3>2. at[p] = "create" => dst[p] \in Dest
      BY DEF IInv, Locals
    <3> QED
      BY <1>4, <2>1, <3>1, <3>2 DEF Secrets
  <2>2. CASE q # p
    <3>1. Writing(q) /\ dst'[q] = dst[q]
      BY <1>4, <2>2, ActsAlone DEF IInv, Inv, Writing
    <3> QED
      BY <1>4, <3>1 DEF Secrets
  <2> QED
    BY <2>1, <2>2
<1>5. \/ x \in Dest \ Outside /\ file'[x] = "secret"
      \/ x \in left'
      \/ \E q \in Proc : Writing(q)' /\ dst'[q] \notin Outside /\ x = TempOf(dst'[q])
  BY DEF Secrets, TempOf
<1> QED
  BY <1>2, <1>3, <1>4, <1>5

LEMMA SecretsArePaths ==
    ASSUME IInv, NEW x \in Secrets
    PROVE  x \in Path
<1>1. \A p \in Proc : Writing(p) => dst[p] \in Dest
  BY DEF IInv, Locals, Writing
<1> QED
  BY <1>1, TempIsNear DEF Secrets, Path, IInv, Inv, TypeOK

LEMMA NextGuarded ==
    ASSUME IInv, [Next]_vars
    PROVE  Guarded'
<1> USE DEF IInv, Inv
<1> DEFINE Safe(y) == Ignored(y) /\ (y \in Dest => ~Tracked(y) \/ y \in swept)
<1>1. \A x \in Secrets : x \in Path /\ Safe(x)
  BY SecretsArePaths DEF Guarded
<1>2. SUFFICES ASSUME NEW x \in Secrets'
               PROVE  Safe(x)'
  BY DEF Guarded
<1>3. ASSUME NEW p \in Proc, Acts(p)
      PROVE  Safe(x)'
  <2>1. x \in Path /\ Safe(x)
    <3>1. CASE x \in Secrets
      BY <1>1, <3>1
    <3>2. CASE at[p] = "create" /\ dst[p] \in Dest \ Outside /\ x = TempOf(dst[p])
      BY <3>2, TempIsNear DEF Found
    <3>3. CASE at[p] = "rename" /\ dst[p] \in Dest \ Outside /\ x = dst[p]
      BY <3>3, TempIsNear DEF Found, Passed
    <3> QED
      BY <1>3, <3>1, <3>2, <3>3, ActsSecrets
  <2>2. Ignored(x)'
    BY <1>3, <2>1, ActsIgnore
  <2>3. UNCHANGED git
    BY <1>3, ActsAlone
  <2>4. x \in Dest => (Tracked(x)' <=> Tracked(x)) /\ (x \in swept' <=> x \in swept)
    BY <2>3, SameAnswers DEF git
  <2> QED
    BY <2>1, <2>2, <2>4
<1>4. CASE GitAddAll
  <2> DEFINE new == {d \in Dest \ Outside : file[d] # "none" /\ ~Ignored(d) /\ ~Tracked(d)}
  <2>1. /\ UNCHANGED <<ignore, icase, at, dst, file, left>>
        /\ index' = new \cup {e \in index : \A d \in Dest : SameFile(e, d) => file[d] # "none"}
        /\ swept \subseteq swept'
    BY <1>4 DEF GitAddAll, args
  <2>2. x \in Secrets
    BY <2>1 DEF Secrets, Writing
  <2>3. Ignored(x)'
    BY <1>1, <2>1, <2>2, SameAnswers
  <2>4. ASSUME x \in Dest, Tracked(x)'
        PROVE  x \in swept'
    <3>1. PICK e \in index' : SameFile(e, x)
      BY <2>1, <2>4 DEF Tracked, SameFile
    <3>2. e \notin new
      <4>1. e \in new => e = x
        BY <3>1, PathAssumption DEF SameFile
      <4> QED
        BY <1>1, <2>2, <4>1
    <3> QED
      BY <1>1, <2>1, <2>2, <2>4, <3>1, <3>2 DEF Tracked
  <2> QED
    BY <2>3, <2>4
<1>5. CASE UNCHANGED vars
  BY <1>1, <1>5, SameAnswers DEF vars, git, args, Secrets, Writing
<1>6. ASSUME Moves, UNCHANGED <<file, left>>
      PROVE  x \in Secrets
  BY <1>6 DEF Secrets, Writing, Moves, args
<1>7. ASSUME NEW dir \in Dir, UserEditsIgnore(dir)
      PROVE  Safe(x)'
  <2>1. x \in Secrets /\ UNCHANGED git
    BY <1>6, <1>7 DEF UserEditsIgnore
  <2>2. Ignored(x)'
    BY <1>7, <2>1 DEF UserEditsIgnore
  <2>3. x \in Dest => (Tracked(x)' <=> Tracked(x)) /\ (x \in swept' <=> x \in swept)
    BY <2>1, SameAnswers DEF git
  <2> QED
    BY <1>1, <2>1, <2>2, <2>3
<1>8. ASSUME NEW e \in Entry, UserTracks(e)
      PROVE  Safe(x)'
  <2>1. x \in Secrets /\ UNCHANGED <<ignore, icase, swept>> /\ index' = index \cup {e}
    BY <1>6, <1>8 DEF UserTracks
  <2>2. Ignored(x)'
    BY <1>1, <2>1, SameAnswers
  <2>3. x \in Dest => ~SameFile(e, x)
    BY <1>8, <2>1, PathAssumption DEF UserTracks
  <2>4. x \in Dest => (Tracked(x)' => Tracked(x))
    BY <2>1, <2>3 DEF Tracked, SameFile
  <2> QED
    BY <1>1, <2>1, <2>2, <2>4
<1>9. ASSUME NEW e \in Entry, UserUntracks(e)
      PROVE  Safe(x)'
  <2>1. /\ x \in Secrets /\ UNCHANGED <<ignore, icase>> /\ index' = index \ {e}
        /\ swept' = {d \in swept : \E f \in index \ {e} : SameFile(f, d)}
    BY <1>6, <1>9 DEF UserUntracks
  <2>2. Ignored(x)'
    BY <1>1, <2>1, SameAnswers
  <2>3. Tracked(x)' => Tracked(x) /\ \E f \in index \ {e} : SameFile(f, x)
    BY <2>1 DEF Tracked, SameFile
  <2> QED
    BY <1>1, <2>1, <2>2, <2>3
<1>10. ASSUME NEW d \in Dest \ Outside, NEW c \in {"none", "own"}, UserWrites(d, c)
       PROVE  Safe(x)'
  <2>1. /\ UNCHANGED <<ignore, index, icase, left, at>>
        /\ \A q \in Proc : at[q] = "idle"
        /\ file' = [file EXCEPT ![d] = c] /\ swept' = swept \ {d}
    BY <1>10 DEF UserWrites, Moves, Idle
  <2>2. x \in Secrets /\ x # d
    BY <2>1, PathAssumption DEF Secrets, Writing, TypeOK
  <2>3. Ignored(x)'
    BY <1>1, <2>1, <2>2, SameAnswers
  <2>4. Tracked(x)' <=> Tracked(x)
    BY <2>1 DEF Tracked, SameFile
  <2> QED
    BY <1>1, <2>1, <2>2, <2>3, <2>4
<1>11. ASSUME NEW t \in Temp, UserCleans(t)
       PROVE  Safe(x)'
  <2>1. UNCHANGED <<ignore, git, file, at, dst>> /\ left' \subseteq left
    BY <1>11 DEF UserCleans, Moves, args
  <2>2. x \in Secrets
    BY <2>1 DEF Secrets, Writing
  <2>3. /\ Ignored(x)' <=> Ignored(x)
        /\ x \in Dest => (Tracked(x)' <=> Tracked(x)) /\ (x \in swept' <=> x \in swept)
    BY <1>1, <2>1, <2>2, SameAnswers DEF git
  <2> QED
    BY <1>1, <2>2, <2>3
<1> QED
  BY <1>3, <1>4, <1>5, <1>7, <1>8, <1>9, <1>10, <1>11 DEF Next, Acts

----------------------------------------------------------------------------
LEMMA GitGuardInvariance == Spec => []IInv
<1>1. IInv /\ [Next]_vars => IInv'
  BY NextType, NextLocals, NextFound, NextGuarded DEF IInv, Inv
<1> QED
  BY InitIInv, <1>1, PTL DEF Spec

(* What a command has found out about its destination holds until it has   *)
(* written, whatever other commands, "git add -A" and a user do.           *)
THEOREM Invariance == Spec => []Inv
<1>1. IInv => Inv
  BY DEF IInv
<1> QED
  BY GitGuardInvariance, <1>1, PTL

(* Decrypted secrets are ignored wherever they are, and untracked unless   *)
(* "git add -A" was faster.                                                *)
THEOREM SecretsGuarded == Spec => []Guarded
<1>1. IInv => Guarded
  BY DEF IInv
<1> QED
  BY GitGuardInvariance, <1>1, PTL

(* No spelling of a file with secrets, nor of a destination git has        *)
(* confirmed, enters the index: what "git add -A" can still stage is a     *)
(* user's own file, before the last answer of git (gitguard.go:76-80).     *)
THEOREM VerifiedNotStaged == Spec => VerifiedStaysOut
<1> DEFINE Late == {"verifies temp", "create", "fill", "rename"}
           Out(e, d) == /\ file[d] # "secret"
                        /\ \A p \in Proc : dst[p] = d => at[p] \notin Late
           StaysOut == \A e \in index' \ index, d \in Dest \ Outside : SameFile(e, d) => Out(e, d)
<1>1. ASSUME IInv, Next PROVE StaysOut
  <2> SUFFICES ASSUME NEW e \in index' \ index, NEW d \in Dest \ Outside, SameFile(e, d)
               PROVE  Out(e, d)
    OBVIOUS
  <2>1. index' # index
    OBVIOUS
  <2>2. ASSUME NEW p \in Proc, Acts(p) PROVE Out(e, d)
    <3>1. UNCHANGED git
      BY <1>1, <2>2, ActsAlone DEF IInv, Inv
    <3> QED
      BY <2>1, <3>1 DEF git
  <2>3. CASE GitAddAll
    <3>1. e \in Dest \ Outside /\ file[e] # "none" /\ ~Ignored(e)
      BY <2>3 DEF GitAddAll
    <3>2. e = d
      BY <3>1, PathAssumption DEF SameFile
    <3>3. file[d] # "secret"
      BY <1>1, <3>1, <3>2 DEF IInv, Guarded, Secrets
    <3>4. \A p \in Proc : dst[p] = d => at[p] \notin Late
      <4>1. \A p \in Proc : Found(p)
        BY <1>1 DEF IInv, Inv
      <4>2. ~Ignored(d)
        BY <3>1, <3>2
      <4> TAKE p \in Proc
      <4> HAVE dst[p] = d
      <4>3. at[p] \in Late => Ignored(dst[p])
        BY <4>1, Zenon DEF Found
      <4> QED
        BY <4>2, <4>3
    <3> QED
      BY <3>3, <3>4
  <2>4. ASSUME NEW f \in Entry, UserTracks(f) PROVE Out(e, d)
    <3>1. e = f
      BY <2>4 DEF UserTracks
    <3>2. d \notin Secrets
      BY <2>4, <3>1, PathAssumption DEF UserTracks
    <3>3. \A p \in Proc : at[p] \notin Late
      BY <2>4 DEF UserTracks, Moves, Idle
    <3> QED
      BY <3>2, <3>3 DEF Secrets
  <2>5. ASSUME NEW f \in Entry, UserUntracks(f) PROVE Out(e, d)
    BY <2>5 DEF UserUntracks
  <2>6. ASSUME NEW dir \in Dir, UserEditsIgnore(dir) PROVE Out(e, d)
    BY <2>1, <2>6 DEF UserEditsIgnore, git
  <2>7. ASSUME NEW f \in Dest \ Outside, NEW c \in {"none", "own"}, UserWrites(f, c) PROVE Out(e, d)
    BY <2>1, <2>7 DEF UserWrites
  <2>8. ASSUME NEW t \in Temp, UserCleans(t) PROVE Out(e, d)
    BY <2>1, <2>8 DEF UserCleans, git
  <2> QED
    BY <1>1, <2>2, <2>3, <2>4, <2>5, <2>6, <2>7, <2>8 DEF Next, Acts
<1>2. IInv /\ [Next]_vars => [StaysOut]_vars
  BY <1>1
<1> QED
  BY GitGuardInvariance, <1>2, PTL DEF Spec, VerifiedStaysOut
============================================================================
