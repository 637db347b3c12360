---------------------------- MODULE BackendProofs ----------------------------
(* The invariants of the backends, and the file backend as a blob store,   *)
(* for every number of commands, blobs and pulls, and every power failure. *)
EXTENDS Backend, TLAPS

(* A command that ends has its locals reset to values of their types. *)
LEMMA EndsTyped ==
    ASSUME TypeOK, NEW p \in Proc, Ends(p)
    PROVE  /\ at' \in [Proc -> Steps]
           /\ op' \in [Proc -> {"none", "seal", "open"}]
           /\ store' \in [Proc -> Backends]
           /\ blob' \in [Proc -> Blob \cup {NoBlob}]
           /\ result' \in [Proc -> Blob \cup {NoBlob, Torn}]
           /\ child' \in [Proc -> {"none", "running", "zero", "failed"}]
           /\ out' \in [Proc -> Blob \cup {NoBlob, Torn}]
           /\ holds' \in [Proc -> BOOLEAN]
           /\ saw' \in [Proc -> SUBSET (Blob \cup {NoBlob, Torn})]
BY DEF TypeOK, Ends, Forgets, Steps, Backends

(* A command that has ended relies on nothing, and the others are as they  *)
(* were.                                                                   *)
LEMMA EndsLocals ==
    ASSUME TypeOK, \A q \in Proc : Locals(q), NEW p \in Proc, Ends(p),
           approved \subseteq approved'
    PROVE  \A q \in Proc : Locals(q)'
<1>1. Locals(p)'
  BY DEF TypeOK, Ends, Forgets, Locals, Writing, Past
<1>2. ASSUME NEW q \in Proc, q # p PROVE Locals(q)'
  BY <1>2 DEF TypeOK, Ends, Forgets, Locals
<1>3. QED
  BY <1>1, <1>2

(* A sync keeps a file a file, or no file. *)
LEMMA SyncedTyped ==
    ASSUME NEW c \in Content \cup {NoFile}
    PROVE  Flushed(c) \in Content \cup {NoFile}
<1>1. CASE c \in Content
  BY <1>1 DEF Content, Flushed
<1>2. CASE c = NoFile
  <2>1. c.data = NoBlob
    BY <1>2 DEF NoFile
  <2>2. QED
    BY <2>1 DEF Flushed, NoFile
<1>3. QED
  BY <1>1, <1>2

LEMMA InitInv == Init => Inv
<1> SUFFICES ASSUME Init PROVE Inv
  OBVIOUS
<1>1. PICK b \in InitFile : file = [data |-> b, synced |-> TRUE]
  BY DEF Init
<1>2. TypeOK
  <2>1. b \in Blob \cup {NoBlob} /\ remote \in Blob \cup {NoBlob}
    BY InitAssumption DEF Init
  <2>2. file \in Content \cup {NoFile}
    BY <1>1, <2>1 DEF Content, NoFile
  <2>3. moves \in 0..MaxMoves /\ started \in 0..MaxCommands
    BY BoundsAssumption DEF Init
  <2>4. cfg \in Backends
    BY InitAssumption DEF Init, Backends
  <2>5. QED
    BY <2>1, <2>2, <2>3, <2>4 DEF Init, TypeOK, Content, NoFile, Steps, Backends
<1>3. \A p \in Proc : Locals(p) /\ Gets(p)
  BY DEF Init, Locals, Gets, Writing, Past
<1>4. WholeFiles
  BY <1>1, InitAssumption, BlobsAssumption DEF Init, WholeFiles, Whole
<1>5. trusted \subseteq approved /\ orphans = {} /\ GetTrue /\ RunsApproved
  BY DEF Init, GetTrue, RunsApproved
<1>6. QED
  BY <1>2, <1>3, <1>4, <1>5 DEF Inv

----------------------------------------------------------------------------
(* No step leaves the types. *)
LEMMA NextType ==
    ASSUME TypeOK, \A q \in Proc : Locals(q), [Next]_vars
    PROVE  TypeOK'
<1> USE DEF files, remotes, trust, config, locals, children, TypeOK
<1>1. ASSUME NEW p \in Proc, Stop(p) PROVE TypeOK'
  BY <1>1, BoundsAssumption, EndsTyped
  DEF Stop, MayLeave, Goes, Steps, Content, NoFile, Backends, Locals, Writing
<1>2. ASSUME NEW p \in Proc, Checks(p) PROVE TypeOK'
  BY <1>2, BoundsAssumption
  DEF Checks, IsTrusted, Goes, Steps, Content, NoFile, Backends, Locals, Writing
<1>3. ASSUME NEW p \in Proc, Approves(p) PROVE TypeOK'
  BY <1>3, BoundsAssumption
  DEF Approves, Goes, Steps, Content, NoFile, Backends, Locals, Writing
<1>4. ASSUME NEW p \in Proc, Records(p) PROVE TypeOK'
  BY <1>4, BoundsAssumption
  DEF Records, Goes, Steps, Content, NoFile, Backends, Locals, Writing
<1>5. ASSUME NEW p \in Proc, RecordsHalf(p) PROVE TypeOK'
  BY <1>5, BoundsAssumption, EndsTyped
  DEF RecordsHalf, Goes, Steps, Content, NoFile, Backends, Locals, Writing
<1>6. ASSUME NEW p \in Proc, ReadsFile(p) PROVE TypeOK'
  BY <1>6, BoundsAssumption
  DEF ReadsFile, Readable, Goes, Steps, Content, NoFile, Backends, Locals, Writing
<1>7. ASSUME NEW p \in Proc, RunsGet(p) PROVE TypeOK'
  BY <1>7, BoundsAssumption
  DEF RunsGet, Goes, Steps, Content, NoFile, Backends, Locals, Writing
<1>8. ASSUME NEW p \in Proc, Answers(p) PROVE TypeOK'
  BY <1>8, BoundsAssumption
  DEF Answers, ChildEnds, Goes, Steps, Content, NoFile, Backends, Locals, Writing
<1>9. ASSUME NEW p \in Proc, TimesOut(p) PROVE TypeOK'
  BY <1>9, BoundsAssumption
  DEF TimesOut, ChildEnds, SomeOutput, MayLeave, Goes, Steps, Content, NoFile, Backends,
      Locals, Writing
<1>10. ASSUME NEW p \in Proc, Fails(p) PROVE TypeOK'
  BY <1>10, BoundsAssumption
  DEF Fails, ChildEnds, SomeOutput, Goes, Steps, Content, NoFile, Backends, Locals,
      Writing
<1>11. ASSUME NEW p \in Proc, LetsGo(p) PROVE TypeOK'
  BY <1>11, BoundsAssumption
  DEF LetsGo, Goes, Steps, Content, NoFile, Backends, Locals, Writing
<1>12. ASSUME NEW p \in Proc, GetReturns(p) PROVE TypeOK'
  BY <1>12, EndsTyped DEF GetReturns, Buffered, Goes, Steps
<1>13. ASSUME NEW p \in Proc, Opens(p) PROVE TypeOK'
  BY <1>13, BoundsAssumption, EndsTyped
  DEF Opens, Goes, Steps, Content, NoFile, Backends, Locals, Writing
<1>14. ASSUME NEW p \in Proc, Seals(p) PROVE TypeOK'
  BY <1>14, BoundsAssumption
  DEF Seals, Goes, Steps, Content, NoFile, Backends, Locals, Writing
<1>15. ASSUME NEW p \in Proc, Refuses(p) PROVE TypeOK'
  BY <1>15, BoundsAssumption, EndsTyped
  DEF Refuses, Goes, Steps, Content, NoFile, Backends, Locals, Writing
<1>16. ASSUME NEW p \in Proc, CreatesTemp(p) PROVE TypeOK'
  BY <1>16, BoundsAssumption
  DEF CreatesTemp, Tmp, Goes, Steps, Content, NoFile, Backends, Locals, Writing
<1>17. ASSUME NEW p \in Proc, Writes(p) PROVE TypeOK'
  BY <1>17, BoundsAssumption
  DEF Writes, Tmp, Goes, Steps, Content, NoFile, Backends, Locals, Writing
<1>18. ASSUME NEW p \in Proc, Syncs(p) PROVE TypeOK'
  <2>1. Flushed(tmp[p]) \in Content \cup {NoFile}
    BY SyncedTyped
  <2>2. QED
    BY <1>18, <2>1 DEF Syncs, Tmp, Goes, Steps
<1>19. ASSUME NEW p \in Proc, Renames(p) PROVE TypeOK'
  BY <1>19, BoundsAssumption, EndsTyped
  DEF Renames, Tmp, Goes, Steps, Content, NoFile, Backends, Locals, Writing
<1>20. ASSUME NEW p \in Proc, PutFails(p) PROVE TypeOK'
  BY <1>20, BoundsAssumption, EndsTyped
  DEF PutFails, Tmp, Goes, Steps, Content, NoFile, Backends, Locals, Writing
<1>21. ASSUME NEW p \in Proc, RunsPut(p) PROVE TypeOK'
  BY <1>21, BoundsAssumption
  DEF RunsPut, Goes, Steps, Content, NoFile, Backends, Locals, Writing
<1>22. ASSUME NEW p \in Proc, Stored(p) PROVE TypeOK'
  BY <1>22, BoundsAssumption
  DEF Stored, ChildEnds, RemoteIs, Goes, Steps, Content, NoFile, Backends, Locals, Writing
<1>23. ASSUME NEW p \in Proc, PutReturns(p) PROVE TypeOK'
  BY <1>23, BoundsAssumption, EndsTyped
  DEF PutReturns, Goes, Steps, Content, NoFile, Backends, Locals, Writing
<1>24. ASSUME NEW p \in Proc, Starts(p, "open", NoBlob) PROVE TypeOK'
  BY <1>24, BoundsAssumption
  DEF Starts, Goes, Steps, Content, NoFile, Backends, Locals, Writing
<1>25. ASSUME NEW p \in Proc, NEW b \in Blob, Starts(p, "seal", b) PROVE TypeOK'
  BY <1>25, BoundsAssumption
  DEF Starts, Goes, Steps, Content, NoFile, Backends, Locals, Writing
<1>26. ASSUME NEW b \in Blob, OrphanStores(b) PROVE TypeOK'
  BY <1>26, BoundsAssumption
  DEF OrphanStores, RemoteIs, Steps, Content, NoFile, Backends, Locals, Writing
<1>27. ASSUME NEW c \in Backends, NewConfig(c) PROVE TypeOK'
  BY <1>27, BoundsAssumption
  DEF NewConfig, Steps, Content, NoFile, Backends, Locals, Writing
<1>28. CASE Settles
  <2>1. Flushed(file) \in Content \cup {NoFile}
    BY SyncedTyped
  <2>2. QED
    BY <1>28, <2>1 DEF Settles
<1>29. CASE PowerFails
  <2>1. PICK c \in recent \cup {file} :
           file' \in IF c.synced THEN {c} ELSE {Flushed(c), [data |-> Torn, synced |-> TRUE]}
    BY <1>29 DEF PowerFails
  <2>2. c \in Content \cup {NoFile}
    OBVIOUS
  <2>3. Flushed(c) \in Content \cup {NoFile}
    BY <2>2, SyncedTyped
  <2>4. [data |-> Torn, synced |-> TRUE] \in Content
    BY DEF Content
  <2>5. file' \in Content \cup {NoFile}
    BY <2>1, <2>2, <2>3, <2>4
  <2>6. QED
    BY <1>29, <2>5 DEF PowerFails, NoFile, Steps, Backends
<1>30. CASE UNCHANGED vars
  BY <1>30, BoundsAssumption DEF vars, Steps, Content, NoFile, Backends, Locals, Writing
<1>31. QED
  BY <1>1, <1>2, <1>3, <1>4, <1>5, <1>6, <1>7, <1>8, <1>9, <1>10, <1>11,
     <1>12, <1>13, <1>14, <1>15, <1>16, <1>17, <1>18, <1>19, <1>20,
     <1>21, <1>22, <1>23, <1>24, <1>25, <1>26, <1>27, <1>28, <1>29, <1>30
  DEF Next, Own, FileSteps, Storage

(* What each step of a command may rely on. *)
LEMMA NextLocals ==
    ASSUME TypeOK, trusted \subseteq approved, \A q \in Proc : Locals(q), [Next]_vars
    PROVE  \A q \in Proc : Locals(q)'
<1> USE DEF files, remotes, trust, config, locals, children, TypeOK
<1>1. ASSUME NEW p \in Proc, Stop(p) PROVE \A q \in Proc : Locals(q)'
  BY <1>1, EndsLocals DEF Stop, MayLeave, Goes, Locals, Writing, Past, Readable, SizeOK
<1>2. ASSUME NEW p \in Proc, Checks(p) PROVE \A q \in Proc : Locals(q)'
  BY <1>2 DEF Checks, IsTrusted, Goes, Locals, Writing, Past, Readable, SizeOK
<1>3. ASSUME NEW p \in Proc, Approves(p) PROVE \A q \in Proc : Locals(q)'
  BY <1>3 DEF Approves, Goes, Locals, Writing, Past, Readable, SizeOK
<1>4. ASSUME NEW p \in Proc, Records(p) PROVE \A q \in Proc : Locals(q)'
  BY <1>4 DEF Records, Goes, Locals, Writing, Past, Readable, SizeOK
<1>5. ASSUME NEW p \in Proc, RecordsHalf(p) PROVE \A q \in Proc : Locals(q)'
  BY <1>5, EndsLocals DEF RecordsHalf, Goes, Locals, Writing, Past, Readable, SizeOK
<1>6. ASSUME NEW p \in Proc, ReadsFile(p) PROVE \A q \in Proc : Locals(q)'
  BY <1>6 DEF ReadsFile, Readable, Goes, Locals, Writing, Past, Readable, SizeOK
<1>7. ASSUME NEW p \in Proc, RunsGet(p) PROVE \A q \in Proc : Locals(q)'
  BY <1>7 DEF RunsGet, Goes, Locals, Writing, Past, Readable, SizeOK
<1>8. ASSUME NEW p \in Proc, Answers(p) PROVE \A q \in Proc : Locals(q)'
  BY <1>8 DEF Answers, ChildEnds, Goes, Locals, Writing, Past, Readable, SizeOK
<1>9. ASSUME NEW p \in Proc, TimesOut(p) PROVE \A q \in Proc : Locals(q)'
  BY <1>9
  DEF TimesOut, ChildEnds, SomeOutput, MayLeave, Goes, Locals, Writing, Past, Readable,
      SizeOK
<1>10. ASSUME NEW p \in Proc, Fails(p) PROVE \A q \in Proc : Locals(q)'
  BY <1>10 DEF Fails, ChildEnds, SomeOutput, Goes, Locals, Writing, Past, Readable, SizeOK
<1>11. ASSUME NEW p \in Proc, LetsGo(p) PROVE \A q \in Proc : Locals(q)'
  BY <1>11 DEF LetsGo, Goes, Locals, Writing, Past, Readable, SizeOK
<1>12. ASSUME NEW p \in Proc, GetReturns(p) PROVE \A q \in Proc : Locals(q)'
  BY <1>12, EndsLocals
  DEF GetReturns, Returned, Answered, Buffered, Readable, Goes, Locals, Writing, Past,
      Readable, SizeOK
<1>13. ASSUME NEW p \in Proc, Opens(p) PROVE \A q \in Proc : Locals(q)'
  BY <1>13, EndsLocals DEF Opens, Goes, Locals, Writing, Past, Readable, SizeOK
<1>14. ASSUME NEW p \in Proc, Seals(p) PROVE \A q \in Proc : Locals(q)'
  BY <1>14 DEF Seals, Goes, Locals, Writing, Past, Readable, SizeOK
<1>15. ASSUME NEW p \in Proc, Refuses(p) PROVE \A q \in Proc : Locals(q)'
  BY <1>15, EndsLocals DEF Refuses, Goes, Locals, Writing, Past, Readable, SizeOK
<1>16. ASSUME NEW p \in Proc, CreatesTemp(p) PROVE \A q \in Proc : Locals(q)'
  BY <1>16 DEF CreatesTemp, Tmp, Goes, Locals, Writing, Past, Readable, SizeOK
<1>17. ASSUME NEW p \in Proc, Writes(p) PROVE \A q \in Proc : Locals(q)'
  BY <1>17 DEF Writes, Tmp, Goes, Locals, Writing, Past, Readable, SizeOK
<1>18. ASSUME NEW p \in Proc, Syncs(p) PROVE \A q \in Proc : Locals(q)'
  BY <1>18 DEF Syncs, Tmp, Flushed, Goes, Locals, Writing, Past, Readable, SizeOK
<1>19. ASSUME NEW p \in Proc, Renames(p) PROVE \A q \in Proc : Locals(q)'
  BY <1>19, EndsLocals DEF Renames, Tmp, Goes, Locals, Writing, Past, Readable, SizeOK
<1>20. ASSUME NEW p \in Proc, PutFails(p) PROVE \A q \in Proc : Locals(q)'
  BY <1>20, EndsLocals DEF PutFails, Tmp, Goes, Locals, Writing, Past, Readable, SizeOK
<1>21. ASSUME NEW p \in Proc, RunsPut(p) PROVE \A q \in Proc : Locals(q)'
  BY <1>21 DEF RunsPut, Goes, Locals, Writing, Past, Readable, SizeOK
<1>22. ASSUME NEW p \in Proc, Stored(p) PROVE \A q \in Proc : Locals(q)'
  BY <1>22 DEF Stored, ChildEnds, RemoteIs, Goes, Locals, Writing, Past, Readable, SizeOK
<1>23. ASSUME NEW p \in Proc, PutReturns(p) PROVE \A q \in Proc : Locals(q)'
  BY <1>23, EndsLocals DEF PutReturns, Goes, Locals, Writing, Past, Readable, SizeOK
<1>24. ASSUME NEW p \in Proc, Starts(p, "open", NoBlob) PROVE \A q \in Proc : Locals(q)'
  BY <1>24 DEF Starts, Goes, Locals, Writing, Past, Readable, SizeOK
<1>25. ASSUME NEW p \in Proc, NEW b \in Blob, Starts(p, "seal", b)
       PROVE  \A q \in Proc : Locals(q)'
  BY <1>25 DEF Starts, Goes, Locals, Writing, Past, Readable, SizeOK
<1>26. ASSUME NEW b \in Blob, OrphanStores(b) PROVE \A q \in Proc : Locals(q)'
  BY <1>26 DEF OrphanStores, RemoteIs, Locals, Writing, Past, Readable, SizeOK
<1>27. ASSUME NEW c \in Backends, NewConfig(c) PROVE \A q \in Proc : Locals(q)'
  BY <1>27 DEF NewConfig, Locals, Writing, Past, Readable, SizeOK
<1>28. CASE Settles
  BY <1>28 DEF Settles, Flushed, Locals, Writing, Past, Readable, SizeOK
<1>29. CASE PowerFails
  BY <1>29 DEF PowerFails, Flushed, Locals, Writing, Past, Readable, SizeOK
<1>30. CASE UNCHANGED vars
  BY <1>30 DEF vars, Locals, Writing, Past, Readable, SizeOK
<1>31. QED
  BY <1>1, <1>2, <1>3, <1>4, <1>5, <1>6, <1>7, <1>8, <1>9, <1>10, <1>11,
     <1>12, <1>13, <1>14, <1>15, <1>16, <1>17, <1>18, <1>19, <1>20,
     <1>21, <1>22, <1>23, <1>24, <1>25, <1>26, <1>27, <1>28, <1>29, <1>30
  DEF Next, Own, FileSteps, Storage

(* What a put left running may still store is not too big: only a put that *)
(* is given up adds to it.                                                  *)
LEMMA NextOrphans ==
    ASSUME TypeOK, \A b \in orphans : Readable(b), \A q \in Proc : Locals(q), [Next]_vars
    PROVE  \A b \in orphans' : Readable(b)
<1>1. ASSUME NEW p \in Proc, Stop(p) \/ TimesOut(p)
      PROVE  \A b \in orphans' : Readable(b)
  BY <1>1 DEF Stop, TimesOut, MayLeave, Locals, Writing
<1>2. ASSUME NEW c \in Blob, OrphanStores(c)
      PROVE  \A b \in orphans' : Readable(b)
  BY <1>2 DEF OrphanStores
<1>3. CASE PowerFails
  BY <1>3 DEF PowerFails
<1>4. ASSUME NEW p \in Proc, Own(p) \/ Storage(p) PROVE UNCHANGED orphans
  <2>1. CASE FileSteps(p)
    BY <2>1
    DEF FileSteps, ReadsFile, CreatesTemp, Writes, Syncs, Renames, PutFails, remotes
  <2>2. CASE Checks(p) \/ Records(p) \/ RecordsHalf(p) \/ Opens(p) \/ Refuses(p)
    BY <2>2 DEF Checks, Records, RecordsHalf, Opens, Refuses, remotes
  <2>3. CASE RunsGet(p) \/ GetReturns(p) \/ RunsPut(p) \/ PutReturns(p)
    BY <2>3 DEF RunsGet, GetReturns, RunsPut, PutReturns, remotes
  <2>4. CASE Storage(p)
    BY <2>4 DEF Storage, Answers, Fails, Stored, LetsGo, remotes
  <2>5. QED
    BY <1>4, <2>1, <2>2, <2>3, <2>4 DEF Own
<1>5. ASSUME NEW p \in Proc,
             \/ Starts(p, "open", NoBlob)
             \/ \E b \in Blob : Starts(p, "seal", b)
             \/ Approves(p) \/ Seals(p)
      PROVE  UNCHANGED orphans
  BY <1>5 DEF Starts, Approves, Seals, remotes
<1>6. CASE Settles \/ (\E c \in Backends : NewConfig(c)) \/ UNCHANGED vars
  BY <1>6 DEF Settles, NewConfig, vars, remotes
<1>7. QED
  BY <1>1, <1>2, <1>3, <1>4, <1>5, <1>6 DEF Next

(* What a machine trusts, and what it runs, its user has approved. *)
LEMMA NextTrust ==
    ASSUME TypeOK, trusted \subseteq approved, RunsApproved, \A q \in Proc : Locals(q), [Next]_vars
    PROVE  trusted' \subseteq approved' /\ RunsApproved'
<1> USE DEF files, remotes, trust, config, locals, children, TypeOK
<1>1. ASSUME NEW p \in Proc, Stop(p) PROVE trusted' \subseteq approved' /\ RunsApproved'
  BY <1>1 DEF Stop, MayLeave, Goes, RunsApproved, Locals, Past, Writing, Ends, Forgets
<1>2. ASSUME NEW p \in Proc, Checks(p) PROVE trusted' \subseteq approved' /\ RunsApproved'
  BY <1>2 DEF Checks, IsTrusted, Goes, RunsApproved, Locals, Past, Writing
<1>3. ASSUME NEW p \in Proc, Approves(p)
      PROVE  trusted' \subseteq approved' /\ RunsApproved'
  BY <1>3 DEF Approves, Goes, RunsApproved, Locals, Past, Writing
<1>4. ASSUME NEW p \in Proc, Records(p)
      PROVE  trusted' \subseteq approved' /\ RunsApproved'
  BY <1>4 DEF Records, Goes, RunsApproved, Locals, Past, Writing
<1>5. ASSUME NEW p \in Proc, RecordsHalf(p)
      PROVE  trusted' \subseteq approved' /\ RunsApproved'
  BY <1>5 DEF RecordsHalf, Goes, RunsApproved, Locals, Past, Writing, Ends, Forgets
<1>6. ASSUME NEW p \in Proc, ReadsFile(p)
      PROVE  trusted' \subseteq approved' /\ RunsApproved'
  BY <1>6 DEF ReadsFile, Readable, Goes, RunsApproved, Locals, Past, Writing
<1>7. ASSUME NEW p \in Proc, RunsGet(p)
      PROVE  trusted' \subseteq approved' /\ RunsApproved'
  BY <1>7 DEF RunsGet, Goes, RunsApproved, Locals, Past, Writing
<1>8. ASSUME NEW p \in Proc, Answers(p)
      PROVE  trusted' \subseteq approved' /\ RunsApproved'
  BY <1>8 DEF Answers, ChildEnds, Goes, RunsApproved, Locals, Past, Writing
<1>9. ASSUME NEW p \in Proc, TimesOut(p)
      PROVE  trusted' \subseteq approved' /\ RunsApproved'
  BY <1>9
  DEF TimesOut, ChildEnds, SomeOutput, MayLeave, Goes, RunsApproved, Locals, Past, Writing
<1>10. ASSUME NEW p \in Proc, Fails(p) PROVE trusted' \subseteq approved' /\ RunsApproved'
  BY <1>10 DEF Fails, ChildEnds, SomeOutput, Goes, RunsApproved, Locals, Past, Writing
<1>11. ASSUME NEW p \in Proc, LetsGo(p)
       PROVE  trusted' \subseteq approved' /\ RunsApproved'
  BY <1>11 DEF LetsGo, Goes, RunsApproved, Locals, Past, Writing
<1>12. ASSUME NEW p \in Proc, GetReturns(p)
       PROVE  trusted' \subseteq approved' /\ RunsApproved'
  BY <1>12
  DEF GetReturns, Returned, Answered, Buffered, Readable, Goes, RunsApproved, Locals,
      Past, Writing, Ends, Forgets
<1>13. ASSUME NEW p \in Proc, Opens(p) PROVE trusted' \subseteq approved' /\ RunsApproved'
  BY <1>13 DEF Opens, Goes, RunsApproved, Locals, Past, Writing, Ends, Forgets
<1>14. ASSUME NEW p \in Proc, Seals(p) PROVE trusted' \subseteq approved' /\ RunsApproved'
  BY <1>14 DEF Seals, Goes, RunsApproved, Locals, Past, Writing
<1>15. ASSUME NEW p \in Proc, Refuses(p)
       PROVE  trusted' \subseteq approved' /\ RunsApproved'
  BY <1>15 DEF Refuses, Goes, RunsApproved, Locals, Past, Writing, Ends, Forgets
<1>16. ASSUME NEW p \in Proc, CreatesTemp(p)
       PROVE  trusted' \subseteq approved' /\ RunsApproved'
  BY <1>16 DEF CreatesTemp, Tmp, Goes, RunsApproved, Locals, Past, Writing
<1>17. ASSUME NEW p \in Proc, Writes(p)
       PROVE  trusted' \subseteq approved' /\ RunsApproved'
  BY <1>17 DEF Writes, Tmp, Goes, RunsApproved, Locals, Past, Writing
<1>18. ASSUME NEW p \in Proc, Syncs(p) PROVE trusted' \subseteq approved' /\ RunsApproved'
  BY <1>18 DEF Syncs, Tmp, Flushed, Goes, RunsApproved, Locals, Past, Writing
<1>19. ASSUME NEW p \in Proc, Renames(p)
       PROVE  trusted' \subseteq approved' /\ RunsApproved'
  BY <1>19 DEF Renames, Tmp, Goes, RunsApproved, Locals, Past, Writing, Ends, Forgets
<1>20. ASSUME NEW p \in Proc, PutFails(p)
       PROVE  trusted' \subseteq approved' /\ RunsApproved'
  BY <1>20 DEF PutFails, Tmp, Goes, RunsApproved, Locals, Past, Writing, Ends, Forgets
<1>21. ASSUME NEW p \in Proc, RunsPut(p)
       PROVE  trusted' \subseteq approved' /\ RunsApproved'
  BY <1>21 DEF RunsPut, Goes, RunsApproved, Locals, Past, Writing
<1>22. ASSUME NEW p \in Proc, Stored(p)
       PROVE  trusted' \subseteq approved' /\ RunsApproved'
  BY <1>22 DEF Stored, ChildEnds, RemoteIs, Goes, RunsApproved, Locals, Past, Writing
<1>23. ASSUME NEW p \in Proc, PutReturns(p)
       PROVE  trusted' \subseteq approved' /\ RunsApproved'
  BY <1>23 DEF PutReturns, Goes, RunsApproved, Locals, Past, Writing, Ends, Forgets
<1>24. ASSUME NEW p \in Proc, Starts(p, "open", NoBlob)
       PROVE  trusted' \subseteq approved' /\ RunsApproved'
  BY <1>24 DEF Starts, Goes, RunsApproved, Locals, Past, Writing
<1>25. ASSUME NEW p \in Proc, NEW b \in Blob, Starts(p, "seal", b)
       PROVE  trusted' \subseteq approved' /\ RunsApproved'
  BY <1>25 DEF Starts, Goes, RunsApproved, Locals, Past, Writing
<1>26. ASSUME NEW b \in Blob, OrphanStores(b)
       PROVE  trusted' \subseteq approved' /\ RunsApproved'
  BY <1>26 DEF OrphanStores, RemoteIs, RunsApproved, Locals, Past, Writing
<1>27. ASSUME NEW c \in Backends, NewConfig(c)
       PROVE  trusted' \subseteq approved' /\ RunsApproved'
  BY <1>27 DEF NewConfig, RunsApproved, Locals, Past, Writing
<1>28. CASE Settles
  BY <1>28 DEF Settles, Flushed, RunsApproved, Locals, Past, Writing
<1>29. CASE PowerFails
  BY <1>29 DEF PowerFails, Flushed, RunsApproved, Locals, Past, Writing
<1>30. CASE UNCHANGED vars
  BY <1>30 DEF vars, RunsApproved, Locals, Past, Writing
<1>31. QED
  BY <1>1, <1>2, <1>3, <1>4, <1>5, <1>6, <1>7, <1>8, <1>9, <1>10, <1>11,
     <1>12, <1>13, <1>14, <1>15, <1>16, <1>17, <1>18, <1>19, <1>20,
     <1>21, <1>22, <1>23, <1>24, <1>25, <1>26, <1>27, <1>28, <1>29, <1>30
  DEF Next, Own, FileSteps, Storage

(* What a get has, was stored while it was getting. *)
LEMMA NextGets ==
    ASSUME TypeOK, GetTrue, \A q \in Proc : Locals(q) /\ Gets(q), [Next]_vars
    PROVE  GetTrue' /\ \A q \in Proc : Gets(q)'
<1> USE DEF files, remotes, trust, config, locals, children, TypeOK
<1>1. ASSUME NEW p \in Proc, Stop(p) PROVE GetTrue' /\ \A q \in Proc : Gets(q)'
  BY <1>1 DEF Stop, MayLeave, Goes, GetTrue, Gets, Locals, Ends, Forgets
<1>2. ASSUME NEW p \in Proc, Checks(p) PROVE GetTrue' /\ \A q \in Proc : Gets(q)'
  BY <1>2 DEF Checks, IsTrusted, Goes, GetTrue, Gets, Locals
<1>3. ASSUME NEW p \in Proc, Approves(p) PROVE GetTrue' /\ \A q \in Proc : Gets(q)'
  BY <1>3 DEF Approves, Goes, GetTrue, Gets, Locals
<1>4. ASSUME NEW p \in Proc, Records(p) PROVE GetTrue' /\ \A q \in Proc : Gets(q)'
  BY <1>4 DEF Records, Goes, GetTrue, Gets, Locals
<1>5. ASSUME NEW p \in Proc, RecordsHalf(p) PROVE GetTrue' /\ \A q \in Proc : Gets(q)'
  BY <1>5 DEF RecordsHalf, Goes, GetTrue, Gets, Locals, Ends, Forgets
<1>6. ASSUME NEW p \in Proc, ReadsFile(p) PROVE GetTrue' /\ \A q \in Proc : Gets(q)'
  BY <1>6 DEF ReadsFile, Readable, Goes, GetTrue, Gets, Locals
<1>7. ASSUME NEW p \in Proc, RunsGet(p) PROVE GetTrue' /\ \A q \in Proc : Gets(q)'
  BY <1>7 DEF RunsGet, Goes, GetTrue, Gets, Locals
<1>8. ASSUME NEW p \in Proc, Answers(p) PROVE GetTrue' /\ \A q \in Proc : Gets(q)'
  BY <1>8 DEF Answers, ChildEnds, Goes, GetTrue, Gets, Locals
<1>9. ASSUME NEW p \in Proc, TimesOut(p) PROVE GetTrue' /\ \A q \in Proc : Gets(q)'
  BY <1>9 DEF TimesOut, ChildEnds, SomeOutput, MayLeave, Goes, GetTrue, Gets, Locals
<1>10. ASSUME NEW p \in Proc, Fails(p) PROVE GetTrue' /\ \A q \in Proc : Gets(q)'
  BY <1>10 DEF Fails, ChildEnds, SomeOutput, Goes, GetTrue, Gets, Locals
<1>11. ASSUME NEW p \in Proc, LetsGo(p) PROVE GetTrue' /\ \A q \in Proc : Gets(q)'
  BY <1>11 DEF LetsGo, Goes, GetTrue, Gets, Locals
<1>12. ASSUME NEW p \in Proc, GetReturns(p) PROVE GetTrue' /\ \A q \in Proc : Gets(q)'
  BY <1>12
  DEF GetReturns, Returned, Answered, Buffered, Readable, Goes, GetTrue, Gets, Locals,
      Ends, Forgets
<1>13. ASSUME NEW p \in Proc, Opens(p) PROVE GetTrue' /\ \A q \in Proc : Gets(q)'
  BY <1>13 DEF Opens, Goes, GetTrue, Gets, Locals, Ends, Forgets
<1>14. ASSUME NEW p \in Proc, Seals(p) PROVE GetTrue' /\ \A q \in Proc : Gets(q)'
  BY <1>14 DEF Seals, Goes, GetTrue, Gets, Locals
<1>15. ASSUME NEW p \in Proc, Refuses(p) PROVE GetTrue' /\ \A q \in Proc : Gets(q)'
  BY <1>15 DEF Refuses, Goes, GetTrue, Gets, Locals, Ends, Forgets
<1>16. ASSUME NEW p \in Proc, CreatesTemp(p) PROVE GetTrue' /\ \A q \in Proc : Gets(q)'
  BY <1>16 DEF CreatesTemp, Tmp, Goes, GetTrue, Gets, Locals
<1>17. ASSUME NEW p \in Proc, Writes(p) PROVE GetTrue' /\ \A q \in Proc : Gets(q)'
  BY <1>17 DEF Writes, Tmp, Goes, GetTrue, Gets, Locals
<1>18. ASSUME NEW p \in Proc, Syncs(p) PROVE GetTrue' /\ \A q \in Proc : Gets(q)'
  BY <1>18 DEF Syncs, Tmp, Flushed, Goes, GetTrue, Gets, Locals
<1>19. ASSUME NEW p \in Proc, Renames(p) PROVE GetTrue' /\ \A q \in Proc : Gets(q)'
  BY <1>19 DEF Renames, Tmp, Goes, GetTrue, Gets, Locals, Ends, Forgets
<1>20. ASSUME NEW p \in Proc, PutFails(p) PROVE GetTrue' /\ \A q \in Proc : Gets(q)'
  BY <1>20 DEF PutFails, Tmp, Goes, GetTrue, Gets, Locals, Ends, Forgets
<1>21. ASSUME NEW p \in Proc, RunsPut(p) PROVE GetTrue' /\ \A q \in Proc : Gets(q)'
  BY <1>21 DEF RunsPut, Goes, GetTrue, Gets, Locals
<1>22. ASSUME NEW p \in Proc, Stored(p) PROVE GetTrue' /\ \A q \in Proc : Gets(q)'
  BY <1>22 DEF Stored, ChildEnds, RemoteIs, Goes, GetTrue, Gets, Locals
<1>23. ASSUME NEW p \in Proc, PutReturns(p) PROVE GetTrue' /\ \A q \in Proc : Gets(q)'
  BY <1>23 DEF PutReturns, Goes, GetTrue, Gets, Locals, Ends, Forgets
<1>24. ASSUME NEW p \in Proc, Starts(p, "open", NoBlob)
       PROVE  GetTrue' /\ \A q \in Proc : Gets(q)'
  BY <1>24 DEF Starts, Goes, GetTrue, Gets, Locals
<1>25. ASSUME NEW p \in Proc, NEW b \in Blob, Starts(p, "seal", b)
       PROVE  GetTrue' /\ \A q \in Proc : Gets(q)'
  BY <1>25 DEF Starts, Goes, GetTrue, Gets, Locals
<1>26. ASSUME NEW b \in Blob, OrphanStores(b) PROVE GetTrue' /\ \A q \in Proc : Gets(q)'
  BY <1>26 DEF OrphanStores, RemoteIs, GetTrue, Gets, Locals
<1>27. ASSUME NEW c \in Backends, NewConfig(c) PROVE GetTrue' /\ \A q \in Proc : Gets(q)'
  BY <1>27 DEF NewConfig, GetTrue, Gets, Locals
<1>28. CASE Settles
  BY <1>28 DEF Settles, Flushed, GetTrue, Gets, Locals
<1>29. CASE PowerFails
  BY <1>29 DEF PowerFails, Flushed, GetTrue, Gets, Locals
<1>30. CASE UNCHANGED vars
  BY <1>30 DEF vars, GetTrue, Gets, Locals
<1>31. QED
  BY <1>1, <1>2, <1>3, <1>4, <1>5, <1>6, <1>7, <1>8, <1>9, <1>10, <1>11,
     <1>12, <1>13, <1>14, <1>15, <1>16, <1>17, <1>18, <1>19, <1>20,
     <1>21, <1>22, <1>23, <1>24, <1>25, <1>26, <1>27, <1>28, <1>29, <1>30
  DEF Next, Own, FileSteps, Storage

(* Only temporary files are ever torn or unsynced. *)
LEMMA NextFiles ==
    ASSUME TypeOK, WholeFiles, \A q \in Proc : Locals(q), [Next]_vars
    PROVE  WholeFiles'
<1> USE DEF files, remotes, trust, config, locals, children, TypeOK
<1>1. ASSUME NEW p \in Proc, Stop(p) PROVE WholeFiles'
  BY <1>1, BlobsAssumption
  DEF Stop, MayLeave, Goes, WholeFiles, Whole, Content, Locals, Writing, Ends, Forgets
<1>2. ASSUME NEW p \in Proc, Checks(p) PROVE WholeFiles'
  BY <1>2, BlobsAssumption
  DEF Checks, IsTrusted, Goes, WholeFiles, Whole, Content, Locals, Writing
<1>3. ASSUME NEW p \in Proc, Approves(p) PROVE WholeFiles'
  BY <1>3, BlobsAssumption DEF Approves, Goes, WholeFiles, Whole, Content, Locals, Writing
<1>4. ASSUME NEW p \in Proc, Records(p) PROVE WholeFiles'
  BY <1>4, BlobsAssumption DEF Records, Goes, WholeFiles, Whole, Content, Locals, Writing
<1>5. ASSUME NEW p \in Proc, RecordsHalf(p) PROVE WholeFiles'
  BY <1>5, BlobsAssumption
  DEF RecordsHalf, Goes, WholeFiles, Whole, Content, Locals, Writing, Ends, Forgets
<1>6. ASSUME NEW p \in Proc, ReadsFile(p) PROVE WholeFiles'
  BY <1>6, BlobsAssumption
  DEF ReadsFile, Readable, Goes, WholeFiles, Whole, Content, Locals, Writing
<1>7. ASSUME NEW p \in Proc, RunsGet(p) PROVE WholeFiles'
  BY <1>7, BlobsAssumption DEF RunsGet, Goes, WholeFiles, Whole, Content, Locals, Writing
<1>8. ASSUME NEW p \in Proc, Answers(p) PROVE WholeFiles'
  BY <1>8, BlobsAssumption
  DEF Answers, ChildEnds, Goes, WholeFiles, Whole, Content, Locals, Writing
<1>9. ASSUME NEW p \in Proc, TimesOut(p) PROVE WholeFiles'
  BY <1>9, BlobsAssumption
  DEF TimesOut, ChildEnds, SomeOutput, MayLeave, Goes, WholeFiles, Whole, Content, Locals,
      Writing
<1>10. ASSUME NEW p \in Proc, Fails(p) PROVE WholeFiles'
  BY <1>10, BlobsAssumption
  DEF Fails, ChildEnds, SomeOutput, Goes, WholeFiles, Whole, Content, Locals, Writing
<1>11. ASSUME NEW p \in Proc, LetsGo(p) PROVE WholeFiles'
  BY <1>11, BlobsAssumption DEF LetsGo, Goes, WholeFiles, Whole, Content, Locals, Writing
<1>12. ASSUME NEW p \in Proc, GetReturns(p) PROVE WholeFiles'
  BY <1>12, BlobsAssumption
  DEF GetReturns, Returned, Answered, Buffered, Readable, Goes, WholeFiles, Whole,
      Content, Locals, Writing, Ends, Forgets
<1>13. ASSUME NEW p \in Proc, Opens(p) PROVE WholeFiles'
  BY <1>13, BlobsAssumption
  DEF Opens, Goes, WholeFiles, Whole, Content, Locals, Writing, Ends, Forgets
<1>14. ASSUME NEW p \in Proc, Seals(p) PROVE WholeFiles'
  BY <1>14, BlobsAssumption DEF Seals, Goes, WholeFiles, Whole, Content, Locals, Writing
<1>15. ASSUME NEW p \in Proc, Refuses(p) PROVE WholeFiles'
  BY <1>15, BlobsAssumption
  DEF Refuses, Goes, WholeFiles, Whole, Content, Locals, Writing, Ends, Forgets
<1>16. ASSUME NEW p \in Proc, CreatesTemp(p) PROVE WholeFiles'
  BY <1>16, BlobsAssumption
  DEF CreatesTemp, Tmp, Goes, WholeFiles, Whole, Content, Locals, Writing
<1>17. ASSUME NEW p \in Proc, Writes(p) PROVE WholeFiles'
  BY <1>17, BlobsAssumption
  DEF Writes, Tmp, Goes, WholeFiles, Whole, Content, Locals, Writing
<1>18. ASSUME NEW p \in Proc, Syncs(p) PROVE WholeFiles'
  BY <1>18, BlobsAssumption
  DEF Syncs, Tmp, Flushed, Goes, WholeFiles, Whole, Content, Locals, Writing
<1>19. ASSUME NEW p \in Proc, Renames(p) PROVE WholeFiles'
  BY <1>19, BlobsAssumption
  DEF Renames, Tmp, Goes, WholeFiles, Whole, Content, Locals, Writing, Ends, Forgets
<1>20. ASSUME NEW p \in Proc, PutFails(p) PROVE WholeFiles'
  BY <1>20, BlobsAssumption
  DEF PutFails, Tmp, Goes, WholeFiles, Whole, Content, Locals, Writing, Ends, Forgets
<1>21. ASSUME NEW p \in Proc, RunsPut(p) PROVE WholeFiles'
  BY <1>21, BlobsAssumption DEF RunsPut, Goes, WholeFiles, Whole, Content, Locals, Writing
<1>22. ASSUME NEW p \in Proc, Stored(p) PROVE WholeFiles'
  BY <1>22, BlobsAssumption
  DEF Stored, ChildEnds, RemoteIs, Goes, WholeFiles, Whole, Content, Locals, Writing
<1>23. ASSUME NEW p \in Proc, PutReturns(p) PROVE WholeFiles'
  BY <1>23, BlobsAssumption
  DEF PutReturns, Goes, WholeFiles, Whole, Content, Locals, Writing, Ends, Forgets
<1>24. ASSUME NEW p \in Proc, Starts(p, "open", NoBlob) PROVE WholeFiles'
  BY <1>24, BlobsAssumption DEF Starts, Goes, WholeFiles, Whole, Content, Locals, Writing
<1>25. ASSUME NEW p \in Proc, NEW b \in Blob, Starts(p, "seal", b) PROVE WholeFiles'
  BY <1>25, BlobsAssumption DEF Starts, Goes, WholeFiles, Whole, Content, Locals, Writing
<1>26. ASSUME NEW b \in Blob, OrphanStores(b) PROVE WholeFiles'
  BY <1>26, BlobsAssumption
  DEF OrphanStores, RemoteIs, WholeFiles, Whole, Content, Locals, Writing
<1>27. ASSUME NEW c \in Backends, NewConfig(c) PROVE WholeFiles'
  BY <1>27, BlobsAssumption DEF NewConfig, WholeFiles, Whole, Content, Locals, Writing
<1>28. CASE Settles
  BY <1>28, BlobsAssumption
  DEF Settles, Flushed, WholeFiles, Whole, Content, Locals, Writing
<1>29. CASE PowerFails
  BY <1>29, BlobsAssumption
  DEF PowerFails, Flushed, WholeFiles, Whole, Content, Locals, Writing
<1>30. CASE UNCHANGED vars
  BY <1>30, BlobsAssumption DEF vars, WholeFiles, Whole, Content, Locals, Writing
<1>31. QED
  BY <1>1, <1>2, <1>3, <1>4, <1>5, <1>6, <1>7, <1>8, <1>9, <1>10, <1>11,
     <1>12, <1>13, <1>14, <1>15, <1>16, <1>17, <1>18, <1>19, <1>20,
     <1>21, <1>22, <1>23, <1>24, <1>25, <1>26, <1>27, <1>28, <1>29, <1>30
  DEF Next, Own, FileSteps, Storage

----------------------------------------------------------------------------
(* The inductive invariant: types, what each step may rely on, and the     *)
(* facts about files, approvals and gets that the properties need.         *)
THEOREM Invariance == Spec => []Inv
<1>1. Inv /\ [Next]_vars => Inv'
  BY NextType, NextLocals, NextOrphans, NextTrust, NextGets, NextFiles DEF Inv
<1>2. QED
  BY InitInv, <1>1, PTL DEF Spec

(* Whatever a pull brings and wherever approvals were cut short, only      *)
(* commands run that the machine's user has approved.                      *)
THEOREM OnlyApprovedRuns == Spec => []RunsApproved
BY Invariance, PTL DEF Inv

(* A get reports what was stored during the call, or that nothing was. *)
THEOREM GetsAreTrue == Spec => []GetTrue
BY Invariance, PTL DEF Inv

(* A put replaces nothing that can be read by what cannot. *)
THEOREM PutsStayReadable == Spec => StaysReadable
<1> DEFINE Kept == /\ Readable(remote) => Readable(remote')
                   /\ Readable(file.data) => \/ Readable(file.data)'
                                             \/ \E c \in recent : c.data = file'.data
<1>1. ASSUME Inv, [Next]_vars PROVE Kept
  <2>1. ASSUME NEW p \in Proc, Renames(p) PROVE Kept
    BY <1>1, <2>1 DEF Inv, WholeFiles, Locals, Writing, Renames, remotes
  <2>2. ASSUME NEW p \in Proc, Stored(p) PROVE Kept
    BY <1>1, <2>2 DEF Inv, Locals, Writing, Stored, RemoteIs, files
  <2>3. ASSUME NEW b \in Blob, OrphanStores(b) PROVE Kept
    BY <1>1, <2>3 DEF Inv, OrphanStores, RemoteIs, files
  <2>4. CASE Settles
    BY <2>4 DEF Settles, Flushed, remotes
  <2>5. CASE PowerFails
    <3>1. file' \in recent \cup {file}
      BY <1>1, <2>5 DEF PowerFails, Inv, WholeFiles, Whole
    <3>2. QED
      BY <2>5, <3>1 DEF PowerFails
  <2>6. CASE ~ \/ Settles \/ PowerFails \/ \E b \in Blob : OrphanStores(b)
               \/ \E p \in Proc : Renames(p) \/ Stored(p)
    <3>1. UNCHANGED <<file, remote>>
      BY <1>1, <2>6
      DEF Next, Own, FileSteps, Storage, vars, files, remotes, Starts, Stop,
          Checks, Approves, Records, RecordsHalf, ReadsFile, RunsGet, Answers,
          TimesOut, Fails, LetsGo, GetReturns, Opens, Seals, Refuses,
          CreatesTemp, Writes, Syncs, PutFails, RunsPut, PutReturns, NewConfig
    <3>2. QED
      BY <3>1
  <2>7. QED
    BY <2>1, <2>2, <2>3, <2>4, <2>5, <2>6
<1>2. QED
  BY Invariance, <1>1, PTL DEF Spec, StaysReadable

----------------------------------------------------------------------------
(* The refinement.  A rename is a put, of the blob in the temporary file;  *)
(* a power failure takes back what it may, since nothing is torn.          *)
Recent == {c.data : c \in recent}

LEMMA StepImplements ==
    ASSUME Inv, [Next]_vars
    PROVE  [Promise!Next]_<<file.data, Recent>>
<1>1. ASSUME NEW p \in Proc, Renames(p) PROVE Promise!Next
  <2>1. tmp[p].data \in Blob
    BY <1>1 DEF Inv, TypeOK, WholeFiles, Renames, Locals, Writing
  <2>2. file' = tmp[p] /\ Recent' = Recent \cup {file.data}
    BY <1>1 DEF Renames, Recent
  <2>3. QED
    BY <2>1, <2>2 DEF Promise!Next, Promise!Stores, Recent
<1>2. CASE Settles
  <2>1. Recent' = {} /\ file'.data = file.data
    BY <1>2 DEF Settles, Flushed, Recent, Inv, TypeOK, Content, NoFile
  <2>2. QED
    BY <2>1 DEF Promise!Next, Promise!Settles, Recent
<1>3. CASE PowerFails
  <2>1. file' \in recent \cup {file}
    BY <1>3 DEF PowerFails, Inv, WholeFiles, Whole
  <2>2. Recent' = {} /\ file'.data \in Recent \cup {file.data}
    BY <1>3, <2>1 DEF PowerFails, Recent
  <2>3. QED
    BY <2>2 DEF Promise!Next, Promise!PowerFails, Recent
<1>4. CASE ~ (Settles \/ PowerFails \/ \E p \in Proc : Renames(p))
  <2>1. UNCHANGED <<file, recent>>
    BY <1>4
    DEF Next, Own, FileSteps, Storage, vars, files, Starts, Stop, Checks,
        Approves, Records, RecordsHalf, ReadsFile, RunsGet, Answers, TimesOut,
        Fails, LetsGo, GetReturns, Opens, Seals, Refuses, CreatesTemp, Writes,
        Syncs, PutFails, RunsPut, Stored, PutReturns, OrphanStores, NewConfig
  <2>2. QED
    BY <2>1 DEF Recent
<1>5. QED
  BY <1>1, <1>2, <1>3, <1>4

(* However writers overlap, fail, are killed or lose their power, the file *)
(* of the file backend is a blob store.                                    *)
THEOREM Implementation == Spec => ImplementsBlobStore
<1>1. Init => Promise!Init
  BY InitAssumption DEF Init, Promise!Init
<1>2. Inv /\ [Next]_vars => [Promise!Next]_<<file.data, Recent>>
  BY StepImplements
<1>3. QED
  BY Invariance, <1>1, <1>2, PTL DEF Spec, ImplementsBlobStore, Promise!Spec, Recent
============================================================================
