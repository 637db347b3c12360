-------------------------- MODULE SelfUpdateProofs --------------------------
(* What a self-update puts in place, that something is always there, how   *)
(* versions are compared, and what the notice remembers: for every number  *)
(* of commands, every set of semantic versions, and every answer.          *)
EXTENDS SelfUpdate, WellFoundedInduction, TLAPS

(* A command that ends has its locals reset to values of their types. *)
LEMMA EndsTyped ==
    ASSUME TypeOK, NEW p \in Proc, Ends(p)
    PROVE  /\ at' \in [Proc -> Steps]
           /\ op' \in [Proc -> {"none", "update", "other"}]
           /\ ver' \in [Proc -> Version \cup {None, Bad}]
           /\ loc' \in [Proc -> {"exe", "old", "gone"}]
           /\ ans' \in [Proc -> Answer \cup {NoAnswer}]
           /\ st' \in [Proc -> Cache]
BY DEF TypeOK, Ends, Forgets, Steps, Cache, Empty

(* A command that has ended relies on nothing, and the others are as they  *)
(* were.                                                                   *)
LEMMA EndsLocals ==
    ASSUME TypeOK, \A q \in Proc : Locals(q), NEW p \in Proc, Ends(p),
           UNCHANGED <<windows, exe>>
    PROVE  \A q \in Proc : Locals(q)'
<1>1. Locals(p)'
  BY DEF TypeOK, Ends, Forgets, Locals, Updating, Staged, Swapping
<1>2. ASSUME NEW q \in Proc, q # p PROVE Locals(q)'
  BY <1>2 DEF TypeOK, Ends, Forgets, Locals, Swapping
<1>3. QED
  BY <1>1, <1>2

(* What passes both verifications is the archive of the version it claims  *)
(* to be (update.go:540-548).                                              *)
LEMMA VerifiedIsReleased ==
    ASSUME NEW a \in Answers, SignatureOK(a), ChecksumOK(a)
    PROVE  a.archive = a.tag /\ a.archive \in Version
<1>1. a.tag \in Version
  BY AnswersAssumption DEF Answer
<1>2. a.sums.lists = a.tag /\ a.sums.lists = a.archive
  BY DEF SignatureOK, ChecksumOK
<1>3. QED
  BY <1>1, <1>2

LEMMA InitInv == Init => Inv
<1> SUFFICES ASSUME Init PROVE Inv
  OBVIOUS
<1> USE VersionAssumption
<1>1. TypeOK
  <2>1. exe \in Version /\ known \in Version \cup {None}
    BY DEF Init
  <2>2. cache \in Cache /\ Empty \in Cache
    BY <2>1 DEF Init, Cache, Empty
  <2>3. started \in 0..MaxCommands
    BY CommandsAssumption DEF Init
  <2>4. QED
    BY <2>1, <2>2, <2>3 DEF Init, TypeOK, Steps
<1>2. \A p \in Proc : Locals(p)
  BY DEF Init, Locals, Updating, Staged, Swapping
<1>3. OnlyReleased /\ NeverWithout
  BY DEF Init, OnlyReleased, NeverWithout
<1>4. QED
  BY <1>1, <1>2, <1>3 DEF Inv

----------------------------------------------------------------------------
(* No step leaves the types. *)
LEMMA NextType ==
    ASSUME TypeOK, \A q \in Proc : Locals(q), [Next]_vars
    PROVE  TypeOK'
<1> USE DEF disk, notice, locals, TypeOK
<1>1. ASSUME NEW p \in Proc, Stop(p) PROVE TypeOK'
  BY <1>1, CommandsAssumption, EndsTyped
  DEF Stop, Goes, Steps, Updating, Refreshing, Cache, Empty
<1>2. ASSUME NEW p \in Proc, CleanupLeftovers(p) PROVE TypeOK'
  BY <1>2, CommandsAssumption
  DEF CleanupLeftovers, RemovedOld, Locked, Goes, Steps, Updating, Refreshing, Cache,
      Empty
<1>3. ASSUME NEW p \in Proc, Verifies(p) PROVE TypeOK'
  BY <1>3, EndsTyped DEF Verifies, Steps, Updating
<1>4. ASSUME NEW p \in Proc, Stages(p) PROVE TypeOK'
  BY <1>4, CommandsAssumption DEF Stages, Goes, Steps, Updating, Refreshing, Cache, Empty
<1>5. ASSUME NEW p \in Proc, RemovesOld(p) PROVE TypeOK'
  BY <1>5, CommandsAssumption
  DEF RemovesOld, RemovedOld, Locked, Goes, Steps, Updating, Refreshing, Cache, Empty
<1>6. ASSUME NEW p \in Proc, MovesAside(p) PROVE TypeOK'
  BY <1>6, CommandsAssumption
  DEF MovesAside, MovesTo, Locked, Goes, Steps, Updating, Refreshing, Cache, Empty
<1>7. ASSUME NEW p \in Proc, CannotMoveAside(p) PROVE TypeOK'
  BY <1>7, CommandsAssumption, EndsTyped
  DEF CannotMoveAside, Goes, Steps, Updating, Refreshing, Cache, Empty
<1>8. ASSUME NEW p \in Proc, Swaps(p) PROVE TypeOK'
  <2>1. ans[p].archive \in Version
    BY <1>8 DEF Swaps, Locals, Staged, Swapping
  <2>2. QED
    BY <1>8, <2>1 DEF Swaps, Forgets, Steps, Cache, Empty
<1>9. ASSUME NEW p \in Proc, CannotSwap(p) PROVE TypeOK'
  BY <1>9, CommandsAssumption, EndsTyped
  DEF CannotSwap, Goes, Steps, Updating, Refreshing, Cache, Empty
<1>10. ASSUME NEW p \in Proc, Restores(p) PROVE TypeOK'
  BY <1>10, CommandsAssumption
  DEF Restores, Locked, Forgets, Goes, Steps, Updating, Refreshing, Cache, Empty
<1>11. ASSUME NEW p \in Proc, CannotRestore(p) PROVE TypeOK'
  BY <1>11, CommandsAssumption, EndsTyped
  DEF CannotRestore, Goes, Steps, Updating, Refreshing, Cache, Empty
<1>12. ASSUME NEW p \in Proc, Loads(p) PROVE TypeOK'
  <2>1. CASE cache.fresh
    BY <1>12, <2>1, EndsTyped DEF Loads
  <2>2. CASE ~cache.fresh
    <3>1. overlapped' \in BOOLEAN
      BY <1>12, <2>2 DEF Loads, Overlaps
    <3>2. QED
      BY <1>12, <2>2, <3>1 DEF Loads, Steps, Refreshing
  <2>3. QED
    BY <2>1, <2>2
<1>13. ASSUME NEW p \in Proc, Truncates(p) PROVE TypeOK'
  BY <1>13, CommandsAssumption
  DEF Truncates, Goes, Steps, Updating, Refreshing, Cache, Empty
<1>14. ASSUME NEW p \in Proc, Claims(p) PROVE TypeOK'
  BY <1>14, CommandsAssumption
  DEF Claims, Claimed, Goes, Steps, Updating, Refreshing, Cache, Empty
<1>15. ASSUME NEW p \in Proc, Saves(p) PROVE TypeOK'
  BY <1>15, CommandsAssumption, EndsTyped
  DEF Saves, Claimed, Goes, Steps, Updating, Refreshing, Cache, Empty
<1>16. ASSUME NEW p \in Proc, GivesUp(p) PROVE TypeOK'
  BY <1>16, CommandsAssumption, EndsTyped
  DEF GivesUp, Goes, Steps, Updating, Refreshing, Cache, Empty
<1>17. ASSUME NEW p \in Proc, NEW a \in Answers, Queries(p, a) PROVE TypeOK'
  <2>1. a \in Answer
    BY AnswersAssumption
  <2>2. QED
    BY <1>17, <2>1, EndsTyped DEF Queries, Steps, Updating
<1>18. ASSUME NEW p \in Proc, NEW a \in Answers, Hears(p, a) PROVE TypeOK'
  <2>1. a.tag \in Version
    BY AnswersAssumption DEF Answer
  <2>2. QED
    BY <1>18, <2>1 DEF Hears, Goes, Steps, Refreshing, Cache
<1>19. ASSUME NEW p \in Proc, NEW o \in {"update", "other"}, Starts(p, o) PROVE TypeOK'
  BY <1>19, CommandsAssumption DEF Starts, Goes, Steps, Updating, Refreshing, Cache, Empty
<1>20. CASE Ages
  BY <1>20, CommandsAssumption DEF Ages, Steps, Cache, Empty
<1>21. CASE UNCHANGED vars
  BY <1>21, CommandsAssumption DEF vars, Steps, Cache, Empty
<1>22. ASSUME NEW p \in Proc, CannotLoad(p) PROVE TypeOK'
  BY <1>22 DEF CannotLoad, Goes, Overlaps, Steps, Refreshing, Cache, Empty
<1>23. ASSUME NEW p \in Proc, CannotOpen(p) PROVE TypeOK'
  BY <1>23, EndsTyped DEF CannotOpen, Goes, Steps, Refreshing
<1>24. ASSUME NEW p \in Proc, CannotWrite(p) PROVE TypeOK'
  BY <1>24, EndsTyped DEF CannotWrite, Goes, Steps, Refreshing
<1>25. QED
  BY <1>1, <1>2, <1>3, <1>4, <1>5, <1>6, <1>7, <1>8, <1>9, <1>10, <1>11,
     <1>12, <1>13, <1>14, <1>15, <1>16, <1>17, <1>18, <1>19, <1>20, <1>21,
     <1>22, <1>23, <1>24
  DEF Next, Own

(* What each step of a command may rely on. *)
LEMMA NextLocals ==
    ASSUME TypeOK, OnlyReleased, \A q \in Proc : Locals(q), [Next]_vars
    PROVE  \A q \in Proc : Locals(q)'
<1> USE DEF disk, notice, locals, TypeOK, Locals, Updating, Staged, Swapping
<1>1. ASSUME NEW p \in Proc, Stop(p) PROVE \A q \in Proc : Locals(q)'
  BY <1>1, VersionAssumption, EndsLocals DEF Stop, Goes
<1>2. ASSUME NEW p \in Proc, CleanupLeftovers(p) PROVE \A q \in Proc : Locals(q)'
  BY <1>2, VersionAssumption DEF CleanupLeftovers, RemovedOld, Locked, Goes
<1>3. ASSUME NEW p \in Proc, Verifies(p) PROVE \A q \in Proc : Locals(q)'
  <2>1. ans[p] \in Answers
    BY <1>3 DEF Verifies
  <2>2. CASE SignatureOK(ans[p]) /\ ChecksumOK(ans[p])
    <3>1. ans[p].archive = ans[p].tag /\ ans[p].archive \in Version
      BY <2>1, <2>2, VerifiedIsReleased
    <3>2. QED
      BY <1>3, <2>1, <2>2, <3>1 DEF Verifies
  <2>3. CASE ~(SignatureOK(ans[p]) /\ ChecksumOK(ans[p]))
    BY <1>3, <2>3, EndsLocals DEF Verifies
  <2>4. QED
    BY <2>2, <2>3
<1>4. ASSUME NEW p \in Proc, Stages(p) PROVE \A q \in Proc : Locals(q)'
  BY <1>4, VersionAssumption DEF Stages, Goes
<1>5. ASSUME NEW p \in Proc, RemovesOld(p) PROVE \A q \in Proc : Locals(q)'
  BY <1>5, VersionAssumption DEF RemovesOld, RemovedOld, Locked, Goes
<1>6. ASSUME NEW p \in Proc, MovesAside(p) PROVE \A q \in Proc : Locals(q)'
  BY <1>6, VersionAssumption DEF MovesAside, MovesTo, Locked, Goes
<1>7. ASSUME NEW p \in Proc, CannotMoveAside(p) PROVE \A q \in Proc : Locals(q)'
  BY <1>7, VersionAssumption, EndsLocals DEF CannotMoveAside, Goes
<1>8. ASSUME NEW p \in Proc, Swaps(p) PROVE \A q \in Proc : Locals(q)'
  BY <1>8, VersionAssumption DEF Swaps, Locked, Forgets, Goes
<1>9. ASSUME NEW p \in Proc, CannotSwap(p) PROVE \A q \in Proc : Locals(q)'
  BY <1>9, VersionAssumption, EndsLocals DEF CannotSwap, Goes
<1>10. ASSUME NEW p \in Proc, Restores(p) PROVE \A q \in Proc : Locals(q)'
  BY <1>10, VersionAssumption DEF Restores, Locked, Forgets, Goes
<1>11. ASSUME NEW p \in Proc, CannotRestore(p) PROVE \A q \in Proc : Locals(q)'
  BY <1>11, VersionAssumption, EndsLocals DEF CannotRestore, Goes
<1>12. ASSUME NEW p \in Proc, Loads(p) PROVE \A q \in Proc : Locals(q)'
  BY <1>12, VersionAssumption, EndsLocals DEF Loads, Goes
<1>13. ASSUME NEW p \in Proc, Truncates(p) PROVE \A q \in Proc : Locals(q)'
  BY <1>13, VersionAssumption DEF Truncates, Goes
<1>14. ASSUME NEW p \in Proc, Claims(p) PROVE \A q \in Proc : Locals(q)'
  BY <1>14, VersionAssumption DEF Claims, Claimed, Goes
<1>15. ASSUME NEW p \in Proc, Saves(p) PROVE \A q \in Proc : Locals(q)'
  BY <1>15, VersionAssumption, EndsLocals DEF Saves, Claimed, Goes
<1>16. ASSUME NEW p \in Proc, GivesUp(p) PROVE \A q \in Proc : Locals(q)'
  BY <1>16, VersionAssumption, EndsLocals DEF GivesUp, Goes
<1>17. ASSUME NEW p \in Proc, NEW a \in Answers, Queries(p, a)
       PROVE  \A q \in Proc : Locals(q)'
  BY <1>17, VersionAssumption, EndsLocals DEF Queries, Goes
<1>18. ASSUME NEW p \in Proc, NEW a \in Answers, Hears(p, a)
       PROVE  \A q \in Proc : Locals(q)'
  BY <1>18, VersionAssumption DEF Hears, Goes
<1>19. ASSUME NEW p \in Proc, NEW o \in {"update", "other"}, Starts(p, o)
       PROVE  \A q \in Proc : Locals(q)'
  BY <1>19 DEF Starts, Goes, OnlyReleased
<1>20. CASE Ages
  BY <1>20, VersionAssumption DEF Ages
<1>21. CASE UNCHANGED vars
  BY <1>21, VersionAssumption DEF vars
<1>22. ASSUME NEW p \in Proc, CannotLoad(p) PROVE \A q \in Proc : Locals(q)'
  BY <1>22, VersionAssumption DEF CannotLoad, Goes
<1>23. ASSUME NEW p \in Proc, CannotOpen(p) PROVE \A q \in Proc : Locals(q)'
  BY <1>23, VersionAssumption, EndsLocals DEF CannotOpen, Goes
<1>24. ASSUME NEW p \in Proc, CannotWrite(p) PROVE \A q \in Proc : Locals(q)'
  BY <1>24, VersionAssumption, EndsLocals DEF CannotWrite, Goes
<1>25. QED
  BY <1>1, <1>2, <1>3, <1>4, <1>5, <1>6, <1>7, <1>8, <1>9, <1>10, <1>11,
     <1>12, <1>13, <1>14, <1>15, <1>16, <1>17, <1>18, <1>19, <1>20, <1>21,
     <1>22, <1>23, <1>24
  DEF Next, Own

(* Only releases are put in place, and there is a binary. *)
LEMMA NextBinary ==
    ASSUME TypeOK, OnlyReleased, NeverWithout, \A q \in Proc : Locals(q), [Next]_vars
    PROVE  OnlyReleased' /\ NeverWithout'
<1> USE DEF disk, notice, locals, TypeOK, OnlyReleased, NeverWithout, Locals, Staged, Swapping
<1>1. ASSUME NEW p \in Proc, Stop(p) PROVE OnlyReleased' /\ NeverWithout'
  BY <1>1, VersionAssumption DEF Stop, Goes, Ends, Forgets
<1>2. ASSUME NEW p \in Proc, CleanupLeftovers(p) PROVE OnlyReleased' /\ NeverWithout'
  BY <1>2, VersionAssumption DEF CleanupLeftovers, RemovedOld, Locked, Goes
<1>3. ASSUME NEW p \in Proc, Verifies(p) PROVE OnlyReleased' /\ NeverWithout'
  BY <1>3, VersionAssumption DEF Verifies, SignatureOK, ChecksumOK, Goes, Ends, Forgets
<1>4. ASSUME NEW p \in Proc, Stages(p) PROVE OnlyReleased' /\ NeverWithout'
  BY <1>4, VersionAssumption DEF Stages, Goes
<1>5. ASSUME NEW p \in Proc, RemovesOld(p) PROVE OnlyReleased' /\ NeverWithout'
  BY <1>5, VersionAssumption DEF RemovesOld, RemovedOld, Locked, Goes
<1>6. ASSUME NEW p \in Proc, MovesAside(p) PROVE OnlyReleased' /\ NeverWithout'
  BY <1>6, VersionAssumption DEF MovesAside, MovesTo, Locked, Goes
<1>7. ASSUME NEW p \in Proc, CannotMoveAside(p) PROVE OnlyReleased' /\ NeverWithout'
  BY <1>7, VersionAssumption DEF CannotMoveAside, Goes, Ends, Forgets
<1>8. ASSUME NEW p \in Proc, Swaps(p) PROVE OnlyReleased' /\ NeverWithout'
  BY <1>8, VersionAssumption DEF Swaps, Locked, Forgets, Goes
<1>9. ASSUME NEW p \in Proc, CannotSwap(p) PROVE OnlyReleased' /\ NeverWithout'
  BY <1>9, VersionAssumption DEF CannotSwap, Goes, Ends, Forgets
<1>10. ASSUME NEW p \in Proc, Restores(p) PROVE OnlyReleased' /\ NeverWithout'
  BY <1>10, VersionAssumption DEF Restores, Locked, Forgets, Goes
<1>11. ASSUME NEW p \in Proc, CannotRestore(p) PROVE OnlyReleased' /\ NeverWithout'
  BY <1>11, VersionAssumption DEF CannotRestore, Goes, Ends, Forgets
<1>12. ASSUME NEW p \in Proc, Loads(p) PROVE OnlyReleased' /\ NeverWithout'
  BY <1>12, VersionAssumption DEF Loads, Goes, Ends, Forgets
<1>13. ASSUME NEW p \in Proc, Truncates(p) PROVE OnlyReleased' /\ NeverWithout'
  BY <1>13, VersionAssumption DEF Truncates, Goes
<1>14. ASSUME NEW p \in Proc, Claims(p) PROVE OnlyReleased' /\ NeverWithout'
  BY <1>14, VersionAssumption DEF Claims, Claimed, Goes
<1>15. ASSUME NEW p \in Proc, Saves(p) PROVE OnlyReleased' /\ NeverWithout'
  BY <1>15, VersionAssumption DEF Saves, Claimed, Goes, Ends, Forgets
<1>16. ASSUME NEW p \in Proc, GivesUp(p) PROVE OnlyReleased' /\ NeverWithout'
  BY <1>16, VersionAssumption DEF GivesUp, Goes, Ends, Forgets
<1>17. ASSUME NEW p \in Proc, NEW a \in Answers, Queries(p, a)
       PROVE  OnlyReleased' /\ NeverWithout'
  BY <1>17, VersionAssumption DEF Queries, Goes, Ends, Forgets
<1>18. ASSUME NEW p \in Proc, NEW a \in Answers, Hears(p, a)
       PROVE  OnlyReleased' /\ NeverWithout'
  BY <1>18, VersionAssumption DEF Hears, Goes
<1>19. ASSUME NEW p \in Proc, NEW o \in {"update", "other"}, Starts(p, o)
       PROVE  OnlyReleased' /\ NeverWithout'
  BY <1>19, VersionAssumption DEF Starts, Goes
<1>20. CASE Ages
  BY <1>20, VersionAssumption DEF Ages
<1>21. CASE UNCHANGED vars
  BY <1>21, VersionAssumption DEF vars
<1>22. ASSUME NEW p \in Proc, CannotLoad(p) PROVE OnlyReleased' /\ NeverWithout'
  BY <1>22, VersionAssumption DEF CannotLoad, Goes
<1>23. ASSUME NEW p \in Proc, CannotOpen(p) PROVE OnlyReleased' /\ NeverWithout'
  BY <1>23, VersionAssumption DEF CannotOpen, Goes, Ends, Forgets
<1>24. ASSUME NEW p \in Proc, CannotWrite(p) PROVE OnlyReleased' /\ NeverWithout'
  BY <1>24, VersionAssumption DEF CannotWrite, Goes, Ends, Forgets
<1>25. QED
  BY <1>1, <1>2, <1>3, <1>4, <1>5, <1>6, <1>7, <1>8, <1>9, <1>10, <1>11,
     <1>12, <1>13, <1>14, <1>15, <1>16, <1>17, <1>18, <1>19, <1>20, <1>21,
     <1>22, <1>23, <1>24
  DEF Next, Own

----------------------------------------------------------------------------
(* The inductive invariant: types, what each step may rely on, and the two *)
(* properties of the binary.                                               *)
THEOREM Invariance == Spec => []Inv
<1>1. Inv /\ [Next]_vars => Inv'
  BY NextType, NextLocals, NextBinary DEF Inv
<1>2. QED
  BY InitInv, <1>1, PTL DEF Spec

(* Whatever GitHub answers, no update puts anything in place but the       *)
(* archive of a release that is signed as the version it claims to be.     *)
THEOREM ReleasesOnly == Spec => []OnlyReleased
BY Invariance, PTL DEF Inv

(* There is a binary, but for an update between its renames or cut off     *)
(* there, and then the previous one is beside it.                          *)
THEOREM BinaryStays == Spec => []NeverWithout
BY Invariance, PTL DEF Inv

----------------------------------------------------------------------------
(* The cache of the notice.  Refreshes that do not overlap come one by     *)
(* one: what is in the file, or has been read from it, is what was last    *)
(* recorded, and while no claim stands every request made is on account of *)
(* a claim that was lost.                                                  *)
Told ==
    ~overlapped =>
      /\ \A p, q \in Proc : at[p] \in Refreshing /\ at[q] \in Refreshing => p = q
      /\ (\A p \in Proc : at[p] \notin {"claiming", "saving"}) => cache.latest = known
      /\ \A p \in Proc : at[p] \in {"claiming", "saving"} => cache = Empty
      /\ \A p \in Proc : at[p] \in {"claim", "claiming"} =>
            /\ st[p] = Empty \/ st[p].latest = known
            /\ asks <= lost
      /\ ~cache.fresh /\ (\A p \in Proc : at[p] # "saving") => asks <= lost
      /\ asks <= 1 + lost

(* A step that leaves the cache alone and gets nobody into a refresh, nor  *)
(* out of the middle of writing.                                           *)
Aside == /\ UNCHANGED notice
         /\ \A q \in Proc : at'[q] \in Refreshing => at'[q] = at[q] /\ st'[q] = st[q]
         /\ \A q \in Proc : at[q] \in {"claiming", "saving"} => at'[q] = at[q]

LEMMA Unconcerned ==
    ASSUME Told, Aside
    PROVE  Told'
BY DEF Told, Aside, notice, Refreshing

LEMMA NextTold ==
    ASSUME TypeOK, Told, [Next]_vars
    PROVE  Told'
<1> USE DEF disk, notice, locals, TypeOK, Aside
<1>1. ASSUME NEW p \in Proc, Stop(p) PROVE Told'
  <2>1. CASE at[p] \notin {"claiming", "saving"}
    <3>1. Aside
      BY <1>1, <2>1 DEF Stop, Ends, Forgets, Refreshing, Updating
    <3> QED
      BY <3>1, Unconcerned
  <2>2. CASE at[p] \in {"claiming", "saving"}
    <3>1. /\ at' = [at EXCEPT ![p] = "idle"] /\ known' = None
          /\ lost' = IF at[p] = "saving" THEN lost + 1 ELSE lost
          /\ UNCHANGED <<cache, asks, overlapped>>
      BY <1>1, <2>2 DEF Stop, Ends
    <3>2. SUFFICES ASSUME ~overlapped'
                   PROVE  Told'
      BY DEF Told
    <3>3. /\ \A q \in Proc : at'[q] \notin Refreshing
          /\ cache' = Empty /\ cache'.latest = known'
      BY <2>2, <3>1, <3>2 DEF Told, Refreshing, Empty
    <3>4. asks <= lost' /\ lost' \in Nat
      BY <2>2, <3>1, <3>2 DEF Told
    <3> QED
      BY <3>1, <3>3, <3>4 DEF Told, Refreshing
  <2> QED
    BY <2>1, <2>2
<1>2. ASSUME NEW p \in Proc, CleanupLeftovers(p) PROVE Told'
  <2>1. Aside
    BY <1>2 DEF CleanupLeftovers, Goes, Refreshing, Updating
  <2> QED
    BY <2>1, Unconcerned
<1>3. ASSUME NEW p \in Proc, Verifies(p) PROVE Told'
  <2>1. Aside
    BY <1>3 DEF Verifies, Ends, Forgets, Refreshing, Updating
  <2> QED
    BY <2>1, Unconcerned
<1>4. ASSUME NEW p \in Proc, Stages(p) PROVE Told'
  <2>1. Aside
    BY <1>4 DEF Stages, Goes, Refreshing, Updating
  <2> QED
    BY <2>1, Unconcerned
<1>5. ASSUME NEW p \in Proc, RemovesOld(p) PROVE Told'
  <2>1. Aside
    BY <1>5 DEF RemovesOld, Goes, Refreshing, Updating
  <2> QED
    BY <2>1, Unconcerned
<1>6. ASSUME NEW p \in Proc, MovesAside(p) PROVE Told'
  <2>1. Aside
    BY <1>6 DEF MovesAside, Goes, Refreshing, Updating
  <2> QED
    BY <2>1, Unconcerned
<1>7. ASSUME NEW p \in Proc, CannotMoveAside(p) PROVE Told'
  <2>1. Aside
    BY <1>7 DEF CannotMoveAside, Ends, Forgets, Refreshing, Updating
  <2> QED
    BY <2>1, Unconcerned
<1>8. ASSUME NEW p \in Proc, Swaps(p) PROVE Told'
  <2>1. Aside
    BY <1>8 DEF Swaps, Forgets, Refreshing, Updating
  <2> QED
    BY <2>1, Unconcerned
<1>9. ASSUME NEW p \in Proc, CannotSwap(p) PROVE Told'
  <2>1. Aside
    BY <1>9 DEF CannotSwap, Ends, Forgets, Refreshing, Updating
  <2> QED
    BY <2>1, Unconcerned
<1>10. ASSUME NEW p \in Proc, Restores(p) PROVE Told'
  <2>1. Aside
    BY <1>10 DEF Restores, Forgets, Refreshing, Updating
  <2> QED
    BY <2>1, Unconcerned
<1>11. ASSUME NEW p \in Proc, CannotRestore(p) PROVE Told'
  <2>1. Aside
    BY <1>11 DEF CannotRestore, Ends, Forgets, Refreshing, Updating
  <2> QED
    BY <2>1, Unconcerned
<1>12. ASSUME NEW p \in Proc, Loads(p) PROVE Told'
  <2>1. CASE cache.fresh
    <3>1. Aside
      BY <1>12, <2>1 DEF Loads, Ends, Forgets, Refreshing
    <3> QED
      BY <3>1, Unconcerned
  <2>2. CASE ~cache.fresh
    <3>1. /\ at[p] = "load" /\ UNCHANGED <<cache, known, asks, lost>>
          /\ at' = [at EXCEPT ![p] = "claim"] /\ st' = [st EXCEPT ![p] = cache]
          /\ overlapped' = (overlapped \/ Overlaps(p))
      BY <1>12, <2>2 DEF Loads
    <3>2. SUFFICES ASSUME ~overlapped'
                   PROVE  Told'
      BY DEF Told
    <3>3. ~overlapped /\ \A q \in Proc : at[q] \notin Refreshing
      BY <3>1, <3>2 DEF Overlaps, Refreshing
    <3>4. cache.latest = known /\ asks <= lost
      BY <2>2, <3>3 DEF Told, Refreshing
    <3>5. \A q \in Proc : at'[q] \in Refreshing => q = p
      BY <3>1, <3>3
    <3> QED
      BY <2>2, <3>1, <3>4, <3>5 DEF Told, Refreshing
  <2> QED
    BY <2>1, <2>2
<1>13. ASSUME NEW p \in Proc, Truncates(p) PROVE Told'
  <2>1. /\ \/ at[p] = "claim" /\ at' = [at EXCEPT ![p] = "claiming"]
           \/ at[p] = "save" /\ at' = [at EXCEPT ![p] = "saving"]
        /\ cache' = Empty
        /\ UNCHANGED <<known, asks, lost, overlapped, st>>
    BY <1>13 DEF Truncates, Goes
  <2>2. SUFFICES ASSUME ~overlapped'
                 PROVE  Told'
    BY DEF Told
  <2>3. \A q \in Proc : (at[q] \in Refreshing \/ at'[q] \in Refreshing) => q = p
    BY <2>1, <2>2 DEF Told, Refreshing
  <2> QED
    BY <2>1, <2>2, <2>3 DEF Told, Refreshing
<1>14. ASSUME NEW p \in Proc, Claims(p) PROVE Told'
  <2>1. /\ at[p] = "claiming" /\ at' = [at EXCEPT ![p] = "fetch"]
        /\ cache'.fresh /\ cache'.latest = st[p].latest /\ asks' = asks + 1
        /\ known' = IF st[p] = Empty THEN None ELSE known
        /\ UNCHANGED <<lost, overlapped, st>>
    BY <1>14 DEF Claims, Claimed, Goes
  <2>2. SUFFICES ASSUME ~overlapped'
                 PROVE  Told'
    BY DEF Told
  <2>3. \A q \in Proc : (at[q] \in Refreshing \/ at'[q] \in Refreshing) => q = p
    BY <2>1, <2>2 DEF Told, Refreshing
  <2>4. cache'.latest = known' /\ asks' <= 1 + lost'
    BY <2>1, <2>2 DEF Told, Empty
  <2> QED
    BY <2>1, <2>2, <2>3, <2>4 DEF Told, Refreshing
<1>15. ASSUME NEW p \in Proc, Saves(p) PROVE Told'
  <2>1. /\ at[p] = "saving" /\ at' = [at EXCEPT ![p] = "idle"]
        /\ cache'.fresh /\ cache'.latest = st[p].latest /\ known' = st[p].latest
        /\ UNCHANGED <<asks, lost, overlapped>>
    BY <1>15 DEF Saves, Claimed, Ends
  <2>2. SUFFICES ASSUME ~overlapped'
                 PROVE  Told'
    BY DEF Told
  <2>3. \A q \in Proc : (at[q] \in Refreshing \/ at'[q] \in Refreshing) => q = p
    BY <2>1, <2>2 DEF Told, Refreshing
  <2> QED
    BY <2>1, <2>2, <2>3 DEF Told, Refreshing
<1>16. ASSUME NEW p \in Proc, GivesUp(p) PROVE Told'
  <2>1. Aside
    BY <1>16 DEF GivesUp, Ends, Forgets, Refreshing, Updating
  <2> QED
    BY <2>1, Unconcerned
<1>17. ASSUME NEW p \in Proc, NEW a \in Answers, Queries(p, a) PROVE Told'
  <2>1. Aside
    BY <1>17 DEF Queries, Ends, Forgets, Refreshing, Updating
  <2> QED
    BY <2>1, Unconcerned
<1>18. ASSUME NEW p \in Proc, NEW a \in Answers, Hears(p, a) PROVE Told'
  <2>1. /\ at[p] = "fetch" /\ at' = [at EXCEPT ![p] = "save"]
        /\ UNCHANGED notice
    BY <1>18 DEF Hears, Goes
  <2>2. SUFFICES ASSUME ~overlapped'
                 PROVE  Told'
    BY DEF Told
  <2>3. \A q \in Proc : (at[q] \in Refreshing \/ at'[q] \in Refreshing) => q = p
    BY <2>1, <2>2 DEF Told, Refreshing
  <2> QED
    BY <2>1, <2>2, <2>3 DEF Told, Refreshing
<1>19. ASSUME NEW p \in Proc, NEW o \in {"update", "other"}, Starts(p, o) PROVE Told'
  <2>1. Aside
    BY <1>19 DEF Starts, Goes, Refreshing, Updating
  <2> QED
    BY <2>1, Unconcerned
<1>20. CASE Ages
  <2>1. /\ ~cache'.fresh /\ cache'.latest = known' /\ asks' = 0 /\ lost' = 0
        /\ \A q \in Proc : at'[q] \notin Refreshing
    BY <1>20 DEF Ages, Cache
  <2> QED
    BY <2>1 DEF Told, Refreshing
<1>21. CASE UNCHANGED vars
  <2>1. Aside
    BY <1>21 DEF vars, Refreshing, Updating
  <2> QED
    BY <2>1, Unconcerned
<1>22. ASSUME NEW p \in Proc, CannotLoad(p) PROVE Told'
  <2>1. /\ at[p] = "load" /\ at' = [at EXCEPT ![p] = "claim"]
        /\ st' = [st EXCEPT ![p] = Empty]
        /\ lost' = IF cache.fresh THEN lost + 1 ELSE lost
        /\ overlapped' = (overlapped \/ Overlaps(p))
        /\ UNCHANGED <<cache, known, asks>>
    BY <1>22 DEF CannotLoad, Goes
  <2>2. SUFFICES ASSUME ~overlapped'
                 PROVE  Told'
    BY DEF Told
  <2>3. ~overlapped /\ \A q \in Proc : at[q] \notin Refreshing
    BY <2>1, <2>2 DEF Overlaps, Refreshing
  <2>4. cache.latest = known /\ asks <= lost' /\ lost' \in Nat
    BY <2>1, <2>3 DEF Told, Refreshing
  <2>5. \A q \in Proc : at'[q] \in Refreshing => q = p
    BY <2>1, <2>3
  <2> QED
    BY <2>1, <2>4, <2>5 DEF Told, Refreshing
<1>23. ASSUME NEW p \in Proc, CannotOpen(p) PROVE Told'
  <2>1. CASE at[p] = "claim"
    <3>1. /\ at' = [at EXCEPT ![p] = "fetch"] /\ asks' = asks + 1 /\ lost' = lost + 1
          /\ UNCHANGED <<cache, known, overlapped, st>>
      BY <1>23, <2>1 DEF CannotOpen, Goes
    <3>2. SUFFICES ASSUME ~overlapped'
                   PROVE  Told'
      BY DEF Told
    <3>3. \A q \in Proc : (at[q] \in Refreshing \/ at'[q] \in Refreshing) => q = p
      BY <2>1, <3>1, <3>2 DEF Told, Refreshing
    <3> QED
      BY <2>1, <3>1, <3>2, <3>3 DEF Told, Refreshing
  <2>2. CASE at[p] = "save"
    <3>1. Aside
      BY <1>23, <2>2 DEF CannotOpen, Goes, Ends, Forgets, Refreshing
    <3> QED
      BY <3>1, Unconcerned
  <2> QED
    BY <1>23, <2>1, <2>2 DEF CannotOpen, Goes
<1>24. ASSUME NEW p \in Proc, CannotWrite(p) PROVE Told'
  <2>1. /\ \/ at[p] = "claiming" /\ at' = [at EXCEPT ![p] = "fetch"] /\ asks' = asks + 1
           \/ at[p] = "saving" /\ at' = [at EXCEPT ![p] = "idle"] /\ asks' = asks
        /\ known' = None /\ lost' = lost + 1
        /\ UNCHANGED <<cache, overlapped>>
    BY <1>24 DEF CannotWrite, Goes, Ends
  <2>2. SUFFICES ASSUME ~overlapped'
                 PROVE  Told'
    BY DEF Told
  <2>3. \A q \in Proc : (at[q] \in Refreshing \/ at'[q] \in Refreshing) => q = p
    BY <2>1, <2>2 DEF Told, Refreshing
  <2>4. cache'.latest = known' /\ asks' <= lost'
    BY <2>1, <2>2 DEF Told, Empty
  <2> QED
    BY <2>1, <2>2, <2>3, <2>4 DEF Told, Refreshing
<1>25. QED
  BY <1>1, <1>2, <1>3, <1>4, <1>5, <1>6, <1>7, <1>8, <1>9, <1>10, <1>11, <1>12,
     <1>13, <1>14, <1>15, <1>16, <1>17, <1>18, <1>19, <1>20, <1>21,
     <1>22, <1>23, <1>24
  DEF Next, Own

LEMMA ToldHolds == Spec => []Told
<1>1. Init => Told
  <2> SUFFICES ASSUME Init
               PROVE  Told
    OBVIOUS
  <2> QED
    BY DEF Init, Told, Refreshing
<1>2. TypeOK /\ Told /\ [Next]_vars => Told'
  BY NextTold
<1>3. Inv => TypeOK
  BY DEF Inv
<1> QED
  BY Invariance, <1>1, <1>2, <1>3, PTL DEF Spec

(* A check whose request fails, is given up or is killed while it waits    *)
(* loses nothing of what an earlier one recorded: only a write that fails  *)
(* halfway, a read that fails, or an overlapping check does.               *)
THEOREM NewsIsKept == Spec => []NewsKept
<1>1. Told => NewsKept
  BY DEF Told, NewsKept
<1> QED
  BY ToldHolds, <1>1, PTL

(* Without overlapping checks, GitHub is asked at most once a day and once *)
(* for each time the cache could not be written or read back.              *)
THEOREM AskedOnce == Spec => []OncePerWindow
<1>1. Told => OncePerWindow
  BY DEF Told, OncePerWindow
<1> QED
  BY ToldHolds, <1>1, PTL

----------------------------------------------------------------------------
(* The comparison of versions is the order of semver.                      *)

LEMMA MinOfNaturals ==
    ASSUME NEW S \in SUBSET Nat, S # {}
    PROVE  Min(S) \in S /\ \A m \in S : Min(S) <= m
<1>1. PICK x \in S : \A y \in S : ~(<<y, x>> \in OpToRel(<, Nat))
  BY NatLessThanWellFounded, WFMin
<1>2. \A y \in S : ~(y < x)
  BY <1>1 DEF OpToRel
<1>3. \A y \in S : x <= y
  BY <1>2
<1> QED
  BY <1>1, <1>3 DEF Min

LEMMA MinMaxOfTwo ==
    ASSUME NEW m \in Nat, NEW n \in Nat
    PROVE  /\ Min({m, n}) = IF m < n THEN m ELSE n
           /\ Max({m, n}) = IF m < n THEN n ELSE m
<1>1. CASE m < n
  BY <1>1 DEF Min, Max
<1>2. CASE ~(m < n)
  BY <1>2 DEF Min, Max
<1> QED
  BY <1>1, <1>2

(* FirstOf is the verdict at the first difference, or the other one if     *)
(* there is none.                                                          *)
Verdicts == {-1, 0, 1}

LEMMA FirstDifference ==
    ASSUME NEW n \in Nat, NEW verdict \in [1..n -> Verdicts], NEW otherwise \in Verdicts
    PROVE  /\ FirstOf(verdict, otherwise) \in Verdicts
           /\ \A s \in {-1, 1} : FirstOf(verdict, otherwise) = s <=>
                 \/ \E k \in 1..n : verdict[k] = s /\ \A m \in 1..(k - 1) : verdict[m] = 0
                 \/ otherwise = s /\ \A k \in 1..n : verdict[k] = 0
<1> DEFINE differ == {i \in 1..n : verdict[i] # 0}
<1>1. FirstOf(verdict, otherwise) = IF differ = {} THEN otherwise ELSE verdict[Min(differ)]
  BY DEF FirstOf
<1>2. CASE differ = {}
  <2>1. \A k \in 1..n : verdict[k] = 0
    BY <1>2
  <2> QED
    BY <1>1, <1>2, <2>1
<1>3. CASE differ # {}
  <2>1. PICK d \in 1..n : /\ d = Min(differ) /\ verdict[d] # 0
                          /\ \A m \in 1..(d - 1) : verdict[m] = 0
    <3>1. differ \in SUBSET Nat
      OBVIOUS
    <3>2. Min(differ) \in differ /\ \A m \in differ : Min(differ) <= m
      <4> HIDE DEF differ
      <4> QED
        BY <1>3, <3>1, MinOfNaturals
    <3>3. \A m \in 1..(Min(differ) - 1) : m \in 1..n /\ m \notin differ
      BY <3>2
    <3> QED
      BY <3>2, <3>3
  <2>2. FirstOf(verdict, otherwise) = verdict[d]
    BY <1>1, <1>3, <2>1
  <2>3. \A k \in 1..n : (\A m \in 1..(k - 1) : verdict[m] = 0) /\ verdict[k] # 0 => k = d
    <3> TAKE k \in 1..n
    <3>1. HAVE (\A m \in 1..(k - 1) : verdict[m] = 0) /\ verdict[k] # 0
    <3>2. ~(d < k) /\ ~(k < d)
      BY <2>1, <3>1
    <3> QED
      BY <3>2
  <2> QED
    BY <2>1, <2>2, <2>3 DEF Verdicts
<1> QED
  BY <1>2, <1>3

LEMMA CoresBySemver ==
    ASSUME NEW a \in Seq(Ident), NEW b \in Seq(Ident),
           \A i \in DOMAIN a : IsNum(a[i]), \A i \in DOMAIN b : IsNum(b[i])
    PROVE  /\ CompareCore(a, b) \in Verdicts
           /\ CompareCore(a, b) = -1 <=> CorePrecedes(a, b)
           /\ CompareCore(a, b) = 1 <=> CorePrecedes(b, a)
<1> DEFINE n == Max({Len(a), Len(b)})
           verdict == [i \in 1..n |-> CompareNumericField(Field(a, i), Field(b, i))]
<1>1. /\ Len(a) \in Nat /\ Len(b) \in Nat /\ n \in Nat
      /\ DOMAIN a \cup DOMAIN b = 1..n /\ DOMAIN b \cup DOMAIN a = 1..n
  <2>1. /\ Len(a) \in Nat /\ DOMAIN a = 1..Len(a)
        /\ Len(b) \in Nat /\ DOMAIN b = 1..Len(b)
    OBVIOUS
  <2>2. n = IF Len(a) < Len(b) THEN Len(b) ELSE Len(a)
    BY <2>1, MinMaxOfTwo
  <2> HIDE DEF n
  <2>3. n \in Nat /\ (1..Len(a)) \cup (1..Len(b)) = 1..n
    BY <2>1, <2>2
  <2> QED
    BY <2>1, <2>3
<1>2. ASSUME NEW c \in Seq(Ident), \A i \in DOMAIN c : IsNum(c[i]), NEW i \in Nat \ {0}
      PROVE  Part(c, i) \in Nat /\ IsNum(Field(c, i)) /\ Num[Field(c, i)] = Part(c, i)
  BY <1>2, IdentAssumption DEF Part, Field, IsNum
<1>3. \A i \in 1..n : /\ Part(a, i) \in Nat /\ Part(b, i) \in Nat
                      /\ verdict[i] = Sign(Part(a, i), Part(b, i))
  BY <1>1, <1>2 DEF CompareNumericField
<1>4. verdict \in [1..n -> Verdicts]
  BY <1>3 DEF Sign, Verdicts
<1>5. CompareCore(a, b) = FirstOf(verdict, 0)
  BY DEF CompareCore
<1> HIDE DEF n, verdict
<1>6. \A i \in 1..n : /\ verdict[i] = -1 <=> Part(a, i) < Part(b, i)
                      /\ verdict[i] = 1 <=> Part(b, i) < Part(a, i)
                      /\ verdict[i] = 0 <=> Part(a, i) = Part(b, i)
                      /\ verdict[i] = 0 <=> Part(b, i) = Part(a, i)
  BY <1>3 DEF Sign
<1>7. \A k \in 1..n : \A m \in 1..(k - 1) : m \in 1..n
  BY <1>1
<1>8. /\ FirstOf(verdict, 0) \in Verdicts
      /\ \A s \in {-1, 1} : FirstOf(verdict, 0) = s <=>
            \E k \in 1..n : verdict[k] = s /\ \A m \in 1..(k - 1) : verdict[m] = 0
  <2>1. 0 \in Verdicts
    BY DEF Verdicts
  <2> QED
    <3>1. /\ FirstOf(verdict, 0) \in Verdicts
          /\ \A s \in {-1, 1} : FirstOf(verdict, 0) = s <=>
                \/ \E k \in 1..n : verdict[k] = s /\ \A m \in 1..(k - 1) : verdict[m] = 0
                \/ 0 = s /\ \A k \in 1..n : verdict[k] = 0
      BY <1>1, <1>4, <2>1, FirstDifference
    <3>2. \A s \in {-1, 1} : 0 # s
      OBVIOUS
    <3> QED
      BY <3>1, <3>2
<1>9. FirstOf(verdict, 0) = -1 <=> CorePrecedes(a, b)
  BY <1>1, <1>6, <1>7, <1>8 DEF CorePrecedes
<1>10. FirstOf(verdict, 0) = 1 <=> CorePrecedes(b, a)
  BY <1>1, <1>6, <1>7, <1>8 DEF CorePrecedes
<1> QED
  BY <1>5, <1>8, <1>9, <1>10

LEMMA IdentsBySemver ==
    ASSUME NEW i \in Ident, NEW j \in Ident
    PROVE  /\ CompareIdent(i, j) \in Verdicts
           /\ CompareIdent(i, j) = -1 <=> IdentPrecedes(i, j)
           /\ CompareIdent(i, j) = 1 <=> IdentPrecedes(j, i)
           /\ CompareIdent(i, j) = 0 <=> SamePlace(i, j)
           /\ SamePlace(i, j) <=> SamePlace(j, i)
<1>1. /\ IsNum(i) => Num[i] \in Nat
      /\ IsNum(j) => Num[j] \in Nat
      /\ Bytes[i] \in Nat /\ Bytes[j] \in Nat
  BY IdentAssumption DEF IsNum
<1>2. IsNum(i) \in BOOLEAN /\ IsNum(j) \in BOOLEAN
  BY DEF IsNum
<1>3. CASE IsNum(i) /\ IsNum(j)
  BY <1>1, <1>3
  DEF CompareIdent, CompareNumericField, Sign, Verdicts, IdentPrecedes, SamePlace
<1>4. CASE ~IsNum(i) /\ ~IsNum(j)
  BY <1>1, <1>2, <1>4
  DEF CompareIdent, CompareNumericField, Sign, Verdicts, IdentPrecedes, SamePlace
<1>5. CASE IsNum(i) /\ ~IsNum(j)
  <2>1. CompareIdent(i, j) = -1
    BY <1>2, <1>5 DEF CompareIdent
  <2>2. IdentPrecedes(i, j) /\ ~IdentPrecedes(j, i)
    BY <1>5 DEF IdentPrecedes
  <2> QED
    BY <2>1, <2>2 DEF SamePlace, Verdicts
<1>6. CASE ~IsNum(i) /\ IsNum(j)
  <2>1. CompareIdent(i, j) = 1
    BY <1>2, <1>6 DEF CompareIdent
  <2>2. ~IdentPrecedes(i, j) /\ IdentPrecedes(j, i)
    BY <1>6 DEF IdentPrecedes
  <2> QED
    BY <2>1, <2>2 DEF SamePlace, Verdicts
<1> QED
  BY <1>2, <1>3, <1>4, <1>5, <1>6

LEMMA PrereleasesBySemver ==
    ASSUME NEW a \in Seq(Ident), NEW b \in Seq(Ident)
    PROVE  /\ ComparePrerelease(a, b) \in Verdicts
           /\ ComparePrerelease(a, b) = -1 <=> PrePrecedes(a, b)
           /\ ComparePrerelease(a, b) = 1 <=> PrePrecedes(b, a)
<1> DEFINE n == Min({Len(a), Len(b)})
           verdict == [i \in 1..n |-> CompareIdent(a[i], b[i])]
           rest == Sign(Len(a), Len(b))
<1>1. /\ Len(a) \in Nat /\ Len(b) \in Nat /\ n \in Nat
      /\ n = IF Len(a) < Len(b) THEN Len(a) ELSE Len(b)
  BY MinMaxOfTwo
<1>2. \A i \in 1..n : a[i] \in Ident /\ b[i] \in Ident
  BY <1>1
<1>3. ComparePrerelease(a, b) = FirstOf(verdict, rest)
  BY DEF ComparePrerelease
<1>4. \A i \in 1..n : /\ verdict[i] \in Verdicts
                      /\ verdict[i] = -1 <=> IdentPrecedes(a[i], b[i])
                      /\ verdict[i] = 1 <=> IdentPrecedes(b[i], a[i])
                      /\ verdict[i] = 0 <=> SamePlace(a[i], b[i])
                      /\ verdict[i] = 0 <=> SamePlace(b[i], a[i])
  BY <1>2, IdentsBySemver
<1>5. verdict \in [1..n -> Verdicts]
  BY <1>4
<1>6. /\ rest \in Verdicts
      /\ rest = -1 <=> Len(a) < Len(b)
      /\ rest = 1 <=> Len(b) < Len(a)
  BY <1>1 DEF Sign, Verdicts
<1> HIDE DEF n, verdict, rest
<1>7. /\ FirstOf(verdict, rest) \in Verdicts
      /\ \A s \in {-1, 1} : FirstOf(verdict, rest) = s <=>
            \/ \E k \in 1..n : verdict[k] = s /\ \A m \in 1..(k - 1) : verdict[m] = 0
            \/ rest = s /\ \A k \in 1..n : verdict[k] = 0
  BY <1>1, <1>5, <1>6, FirstDifference
<1>8. FirstOf(verdict, rest) = -1 <=> PrePrecedes(a, b)
  <2>1. ASSUME FirstOf(verdict, rest) = -1
        PROVE  PrePrecedes(a, b)
    <3>1. CASE \E k \in 1..n : verdict[k] = -1 /\ \A m \in 1..(k - 1) : verdict[m] = 0
      <4>1. PICK k \in 1..n : verdict[k] = -1 /\ \A m \in 1..(k - 1) : verdict[m] = 0
        BY <3>1
      <4>2. k \in 1..Len(b) /\ k <= Len(a) + 1 /\ IdentPrecedes(a[k], b[k])
        BY <1>1, <1>4, <4>1
      <4>3. \A m \in 1..(k - 1) : SamePlace(a[m], b[m])
        BY <1>1, <1>4, <4>1
      <4> QED
        BY <4>2, <4>3 DEF PrePrecedes
    <3>2. CASE rest = -1 /\ \A k \in 1..n : verdict[k] = 0
      <4>1. n = Len(a) /\ Len(a) + 1 \in 1..Len(b)
        BY <1>1, <1>6, <3>2
      <4>2. \A m \in 1..(Len(a) + 1 - 1) : SamePlace(a[m], b[m])
        BY <1>1, <1>4, <3>2, <4>1
      <4> QED
        BY <4>1, <4>2 DEF PrePrecedes
    <3> QED
      BY <1>7, <2>1, <3>1, <3>2
  <2>2. ASSUME PrePrecedes(a, b)
        PROVE  FirstOf(verdict, rest) = -1
    <3>1. PICK k \in 1..Len(b) : /\ k <= Len(a) + 1
                                 /\ \A m \in 1..(k - 1) : SamePlace(a[m], b[m])
                                 /\ k = Len(a) + 1 \/ IdentPrecedes(a[k], b[k])
      BY <2>2 DEF PrePrecedes
    <3>2. CASE k <= Len(a)
      <4>1. k \in 1..n /\ verdict[k] = -1
        BY <1>1, <1>4, <3>1, <3>2
      <4>2. \A m \in 1..(k - 1) : verdict[m] = 0
        BY <1>1, <1>4, <3>1, <4>1
      <4> QED
        BY <1>7, <4>1, <4>2
    <3>3. CASE k = Len(a) + 1
      <4>1. n = Len(a) /\ rest = -1
        BY <1>1, <1>6, <3>1, <3>3
      <4>2. \A m \in 1..n : verdict[m] = 0
        BY <1>1, <1>4, <3>1, <3>3, <4>1
      <4> QED
        BY <1>7, <4>1, <4>2
    <3> QED
      BY <1>1, <3>1, <3>2, <3>3
  <2> QED
    BY <2>1, <2>2
<1>9. FirstOf(verdict, rest) = 1 <=> PrePrecedes(b, a)
  <2>1. ASSUME FirstOf(verdict, rest) = 1
        PROVE  PrePrecedes(b, a)
    <3>1. CASE \E k \in 1..n : verdict[k] = 1 /\ \A m \in 1..(k - 1) : verdict[m] = 0
      <4>1. PICK k \in 1..n : verdict[k] = 1 /\ \A m \in 1..(k - 1) : verdict[m] = 0
        BY <3>1
      <4>2. k \in 1..Len(a) /\ k <= Len(b) + 1 /\ IdentPrecedes(b[k], a[k])
        BY <1>1, <1>4, <4>1
      <4>3. \A m \in 1..(k - 1) : SamePlace(b[m], a[m])
        BY <1>1, <1>4, <4>1
      <4> QED
        BY <4>2, <4>3 DEF PrePrecedes
    <3>2. CASE rest = 1 /\ \A k \in 1..n : verdict[k] = 0
      <4>1. n = Len(b) /\ Len(b) + 1 \in 1..Len(a)
        BY <1>1, <1>6, <3>2
      <4>2. \A m \in 1..(Len(b) + 1 - 1) : SamePlace(b[m], a[m])
        BY <1>1, <1>4, <3>2, <4>1
      <4> QED
        BY <4>1, <4>2 DEF PrePrecedes
    <3> QED
      BY <1>7, <2>1, <3>1, <3>2
  <2>2. ASSUME PrePrecedes(b, a)
        PROVE  FirstOf(verdict, rest) = 1
    <3>1. PICK k \in 1..Len(a) : /\ k <= Len(b) + 1
                                 /\ \A m \in 1..(k - 1) : SamePlace(b[m], a[m])
                                 /\ k = Len(b) + 1 \/ IdentPrecedes(b[k], a[k])
      BY <2>2 DEF PrePrecedes
    <3>2. CASE k <= Len(b)
      <4>1. k \in 1..n /\ verdict[k] = 1
        BY <1>1, <1>4, <3>1, <3>2
      <4>2. \A m \in 1..(k - 1) : verdict[m] = 0
        BY <1>1, <1>4, <3>1, <4>1
      <4> QED
        BY <1>7, <4>1, <4>2
    <3>3. CASE k = Len(b) + 1
      <4>1. n = Len(b) /\ rest = 1
        BY <1>1, <1>6, <3>1, <3>3
      <4>2. \A m \in 1..n : verdict[m] = 0
        BY <1>1, <1>4, <3>1, <3>3, <4>1
      <4> QED
        BY <1>7, <4>1, <4>2
    <3> QED
      BY <1>1, <3>1, <3>2, <3>3
  <2> QED
    BY <2>1, <2>2
<1> QED
  BY <1>3, <1>7, <1>8, <1>9

(* For all semantic versions, whatever they are made of.                   *)
LEMMA VersionsBySemver ==
    ASSUME NEW v, NEW w, IsSemantic(v), IsSemantic(w)
    PROVE  /\ CompareVersions(v, w) \in Verdicts
           /\ CompareVersions(v, w) = -1 <=> Precedes(v, w)
           /\ CompareVersions(v, w) = 1 <=> Precedes(w, v)
<1>1. /\ v.core \in Seq(Ident) /\ w.core \in Seq(Ident)
      /\ v.pre \in Seq(Ident) /\ w.pre \in Seq(Ident)
      /\ \A i \in DOMAIN v.core : IsNum(v.core[i])
      /\ \A i \in DOMAIN w.core : IsNum(w.core[i])
  BY DEF IsSemantic, IsVersion
<1> DEFINE c == CompareCore(v.core, w.core)
           r == ComparePrerelease(v.pre, w.pre)
<1>2. /\ c \in Verdicts
      /\ c = -1 <=> CorePrecedes(v.core, w.core)
      /\ c = 1 <=> CorePrecedes(w.core, v.core)
  BY <1>1, CoresBySemver
<1>3. /\ r \in Verdicts
      /\ r = -1 <=> PrePrecedes(v.pre, w.pre)
      /\ r = 1 <=> PrePrecedes(w.pre, v.pre)
  BY <1>1, PrereleasesBySemver
<1>4. CompareVersions(v, w) =
        IF c # 0 THEN c
        ELSE IF v.pre = <<>> \/ w.pre = <<>>
        THEN (IF w.pre # <<>> THEN 1 ELSE 0) - (IF v.pre # <<>> THEN 1 ELSE 0)
        ELSE r
  BY DEF CompareVersions, IsPrerelease
<1> HIDE DEF c, r
<1>5. CASE c # 0
  BY <1>2, <1>4, <1>5 DEF Precedes, Verdicts
<1>6. CASE c = 0 /\ (v.pre = <<>> \/ w.pre = <<>>)
  BY <1>2, <1>4, <1>6 DEF Precedes, Verdicts
<1>7. CASE c = 0 /\ v.pre # <<>> /\ w.pre # <<>>
  BY <1>2, <1>3, <1>4, <1>7 DEF Precedes, Verdicts
<1> QED
  BY <1>5, <1>6, <1>7

(* Whatever is released, a command tells newer from older as semver.org    *)
(* does.                                                                   *)
THEOREM ComparesBySemver == Spec => []VerdictsBySemver
<1>1. ASSUME NEW v \in Version, NEW w \in Version
      PROVE  Verdict[v][w] = Sign(Order[v], Order[w])
  <2>1. /\ IsSemantic(v) /\ IsSemantic(w)
        /\ Order[v] \in Nat /\ Order[w] \in Nat
        /\ Order[v] < Order[w] <=> Precedes(v, w)
        /\ Order[w] < Order[v] <=> Precedes(w, v)
    BY VersionAssumption
  <2>2. Verdict[v][w] = CompareVersions(v, w)
    BY DEF Verdict
  <2> QED
    BY <2>1, <2>2, VersionsBySemver DEF Sign, Verdicts
<1>2. Inv => VerdictsBySemver
  BY <1>1 DEF Inv, Locals, VerdictsBySemver
<1> QED
  BY Invariance, <1>2, PTL

----------------------------------------------------------------------------
(* What a command takes for an update comes later in the order of semver.  *)
LEMMA WantedIsLater ==
    ASSUME VerdictsBySemver, NEW p \in Proc, at[p] # "idle", ver[p] \in Version,
           NEW v \in Version, Wanted(v, ver[p])
    PROVE  /\ Order[v] > Order[ver[p]]
           /\ IsPrerelease(v) => IsPrerelease(ver[p])
<1>1. CompareVersions(v, ver[p]) > 0
  BY DEF Wanted, IsNewer
<1>2. CompareVersions(v, ver[p]) = Sign(Order[v], Order[ver[p]])
  BY DEF VerdictsBySemver, Verdict
<1>3. Order[v] \in Nat /\ Order[ver[p]] \in Nat
  BY VersionAssumption
<1>4. Order[v] > Order[ver[p]]
  BY <1>1, <1>2, <1>3 DEF Sign
<1>5. IsPrerelease(v) => IsPrerelease(ver[p])
  BY DEF Wanted, PrereleaseAllowed
<1>6. QED
  BY <1>4, <1>5

(* An update of the binary it was started from is an upgrade, and keeps to *)
(* the channel.                                                            *)
THEOREM UpdatesUpgrade == Spec => Upgrades
<1> DEFINE Later == \A p \in Proc : Swaps(p) /\ Replaced = ver[p] =>
                       /\ Order[exe'] > Order[Replaced]
                       /\ IsPrerelease(exe') => IsPrerelease(Replaced)
<1>1. Inv /\ VerdictsBySemver => Later
  <2> SUFFICES ASSUME Inv, VerdictsBySemver, NEW p \in Proc, Swaps(p), Replaced = ver[p]
               PROVE  /\ Order[exe'] > Order[Replaced]
                      /\ IsPrerelease(exe') => IsPrerelease(Replaced)
    OBVIOUS
  <2>1. at[p] = "swap" /\ exe' = ans[p].archive
    BY DEF Swaps
  <2>2. /\ exe' \in Version /\ ver[p] \in Version
        /\ Wanted(exe', ver[p])
    BY <2>1 DEF Inv, Locals, Updating, Staged, Swapping
  <2>3. QED
    BY <2>1, <2>2, WantedIsLater
<1>2. QED
  BY Invariance, ComparesBySemver, <1>1, PTL DEF Upgrades

(* And the notice recommends no other. *)
THEOREM NoticesTrue == Spec => []NoticeTrue
<1>1. Inv /\ VerdictsBySemver => NoticeTrue
  <2> SUFFICES ASSUME Inv, VerdictsBySemver, NEW p \in Proc, Announces(p)
               PROVE  /\ Order[cache.latest] > Order[ver[p]]
                      /\ IsPrerelease(cache.latest) => IsPrerelease(ver[p])
    BY DEF NoticeTrue
  <2>1. /\ at[p] # "idle" /\ ver[p] \in Version
        /\ cache.latest \in Version /\ Wanted(cache.latest, ver[p])
    BY DEF Announces, Inv, TypeOK, Cache, Locals
  <2>2. QED
    BY <2>1, WantedIsLater
<1>2. QED
  BY Invariance, ComparesBySemver, <1>1, PTL
============================================================================
