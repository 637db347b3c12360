---------------------------- MODULE ShenvProofs ----------------------------
(* The invariants of seal, open, run and edit, for every number of users,  *)
(* machines and commands, every history of pulls, and every crash.         *)
EXTENDS Shenv, TLAPS

(* A command that ends has its locals reset to values of their types. *)
LEMMA EndsTyped ==
    ASSUME TypeOK, NEW p \in Proc, Ends(p)
    PROVE  /\ at' \in [Proc -> Steps]
           /\ op' \in [Proc -> {"none", "seal", "open", "run", "edit", "reseal"}]
           /\ members' \in [Proc -> File]
           /\ project' \in [Proc -> AnyProject]
           /\ base' \in [Proc -> Blob \cup {NoBlob}]
           /\ cur' \in [Proc -> Blob \cup {NoBlob}]
           /\ prev' \in [Proc -> Blob \cup {NoBlob}]
           /\ plain' \in [Proc -> Env \cup {NoEnv}]
           /\ seen' \in [Proc -> Pin \cup {NoPin}]
           /\ told' \in [Proc -> SUBSET Key]
BY DEF TypeOK, Ends, Steps, File, AnyProject

LEMMA InitInv == Init => Inv
<1> SUFFICES ASSUME Init PROVE Inv
  OBVIOUS
<1>1. TypeOK
  BY RepoAssumption, BlobsAssumption, PinsAssumption
  DEF Init, TypeOK, File, AnyProject, Steps
<1>2. \A p \in Proc : Locals(p) /\ Confirmed(p)
  BY DEF Init, Locals, Confirmed, Sealing, InSeal, InRead, InEdit
<1>3. PinAccepted
  BY DEF Init, PinAccepted, AcceptedMembers
<1>4. store # NoBlob => ~(store.ver > 0)
  BY BlobsAssumption DEF Init
<1>5. SealedForAccepted /\ SealerCanOpen
  BY <1>4 DEF SealedForAccepted, SealerCanOpen
<1>6. QED
  BY <1>1, <1>2, <1>3, <1>5 DEF Inv

(* The sealer's own entry: the list has exactly one with its age key, and  *)
(* it holds its signing key (command.go:310-332).                          *)
LEMMA SelfIsListed ==
    ASSUME NEW p \in Proc, Loadable(members[p]), Listed(p, members[p])
    PROVE  /\ Self(p) \in members[p]
           /\ Self(p).key = Key1(p)
           /\ Self(p).sign = Derive[Key1(p)]
<1>1. PICK m \in members[p] : m.key = Key1(p) /\ m.sign = Derive[Key1(p)]
  BY DEF Listed
<1>2. \A n \in members[p] : n.key = Key1(p) => n = m
  BY <1>1 DEF Loadable, Apart
<1>3. Self(p) = m
  BY <1>1, <1>2 DEF Self
<1>4. QED
  BY <1>1, <1>3

(* The blob a put stores, field by field. *)
LEMMA PutStores ==
    ASSUME TypeOK, NEW p \in Proc, Locals(p), Put(p)
    PROVE  /\ store' \in Blob
           /\ store'.to = KeysOf(members[p])
           /\ store'.manifest = members[p]
           /\ store'.signer = Self(p).name
           /\ store'.sign = Derive[Key1(p)]
           /\ store'.project = project[p]
<1>1. Sealing(p) /\ Loadable(members[p]) /\ Listed(p, members[p]) /\ plain[p] # NoEnv
  BY DEF Put, Goes, Locals, InSeal
<1>2. Self(p) \in Member /\ Key1(p) \in Key
  BY <1>1, SelfIsListed, FunctionsAssumption DEF TypeOK, File, Key1
<1>3. NextVer \in Nat
  BY DEF NextVer, TypeOK, Blob
<1>4. KeysOf(members[p]) \in SUBSET Key
  BY DEF KeysOf, TypeOK, File, Member
<1>5. plain[p] \in Env /\ project[p] \in AnyProject /\ members[p] \in File
  BY <1>1 DEF TypeOK
<1>6. Derive[Key1(p)] \in SignKey /\ Self(p).name \in Name
  BY <1>2, FunctionsAssumption DEF Member
<1>7. store' = [ver |-> NextVer, to |-> KeysOf(members[p]), signer |-> Self(p).name,
                sign |-> Derive[Key1(p)], project |-> project[p],
                manifest |-> members[p], env |-> plain[p]]
  BY <1>2 DEF Put, Sealed, Member
<1>8. QED
  BY <1>3, <1>4, <1>5, <1>6, <1>7 DEF Blob

----------------------------------------------------------------------------
(* No step leaves the types. *)
LEMMA NextType ==
    ASSUME TypeOK, \A p \in Proc : Locals(p), [Next]_vars
    PROVE  TypeOK'
<1> USE DEF world, repo, machine, locals, TypeOK
<1>1. ASSUME NEW p \in Proc, Stop(p) PROVE TypeOK'
  BY <1>1, EndsTyped DEF Stop
<1>2. ASSUME NEW p \in Proc, StartSeal(p) PROVE TypeOK'
  BY <1>2, FunctionsAssumption DEF StartSeal, Goes, Steps
<1>3. ASSUME NEW p \in Proc, Fetch(p) PROVE TypeOK'
  BY <1>3, FunctionsAssumption DEF Fetch, Goes, Steps
<1>4. ASSUME NEW p \in Proc, PinMembers(p) PROVE TypeOK'
  BY <1>4, FunctionsAssumption DEF PinMembers, Goes, Steps
<1>5. ASSUME NEW p \in Proc, PinProject(p) PROVE TypeOK'
  BY <1>5, FunctionsAssumption DEF PinProject, Goes, Steps
<1>6. ASSUME NEW p \in Proc, PinRead(p) PROVE TypeOK'
  BY <1>6, FunctionsAssumption DEF PinRead, Goes, Steps
<1>7. ASSUME NEW p \in Proc, AdoptProject(p) PROVE TypeOK'
  <2>1. seen[p] \in Pin
    BY <1>7 DEF AdoptProject, Goes, Locals
  <2>2. [members |-> seen[p].members, project |-> project[p]] \in Pin
    BY <2>1 DEF Pin
  <2>3. QED
    BY <1>7, <2>2, FunctionsAssumption DEF AdoptProject, Goes, Steps, Pins, Trusts
<1>8. ASSUME NEW p \in Proc, Unchanged(p) PROVE TypeOK'
  BY <1>8, FunctionsAssumption DEF Unchanged, Goes, Steps
<1>9. ASSUME NEW p \in Proc, Confirm(p) PROVE TypeOK'
  <2>1. Current(p) \in Pin
    BY DEF Current, Pin
  <2>2. QED
    BY <1>9, <2>1, FunctionsAssumption DEF Confirm, Goes, Steps, Trusts
<1>10. ASSUME NEW p \in Proc, RememberProject(p) PROVE TypeOK'
  BY <1>10, FunctionsAssumption DEF RememberProject, Goes, Steps
<1>11. ASSUME NEW p \in Proc, WritePin(p) PROVE TypeOK'
  BY <1>11, EndsTyped, FunctionsAssumption
  DEF WritePin, Goes, Steps, Pins, Remembered, Current, Pin
<1>12. ASSUME NEW p \in Proc, VerifyProject(p) PROVE TypeOK'
  BY <1>12, FunctionsAssumption DEF VerifyProject, Goes, Steps
<1>13. ASSUME NEW p \in Proc, Verify(p) PROVE TypeOK'
  BY <1>13, FunctionsAssumption DEF Verify, Goes, Steps
<1>14. ASSUME NEW p \in Proc, Inject(p) PROVE TypeOK'
  BY <1>14, EndsTyped DEF Inject
<1>15. ASSUME NEW p \in Proc, OpenCompares(p) PROVE TypeOK'
  BY <1>15, FunctionsAssumption DEF OpenCompares, Goes, Steps
<1>16. ASSUME NEW p \in Proc, OpenWrites(p) PROVE TypeOK'
  BY <1>16, EndsTyped, HeadingAssumption DEF OpenWrites, ContentsOf, Locals, InRead, Blob
<1>17. ASSUME NEW p \in Proc, Refetch(p) PROVE TypeOK'
  BY <1>17, FunctionsAssumption DEF Refetch, Goes, Steps
<1>18. ASSUME NEW p \in Proc, SealLoads(p) PROVE TypeOK'
  BY <1>18, FunctionsAssumption DEF SealLoads, Goes, Steps
<1>19. ASSUME NEW p \in Proc, GuardGet(p) PROVE TypeOK'
  BY <1>19, FunctionsAssumption DEF GuardGet, Goes, Steps
<1>20. ASSUME NEW p \in Proc, GuardProject(p) PROVE TypeOK'
  BY <1>20, FunctionsAssumption DEF GuardProject, Goes, Steps
<1>21. ASSUME NEW p \in Proc, Guard(p) PROVE TypeOK'
  <2>1. Warned(p) \subseteq Key
    BY <1>21, HeadingAssumption
    DEF Guard, Goes, Warned, Dropped, MembersIn, KeysOf, Locals, Blob, File, Member
  <2>2. QED
    BY <1>21, <2>1 DEF Guard, Goes, Steps
<1>22. ASSUME NEW p \in Proc, BindProject(p) PROVE TypeOK'
  BY <1>22, FunctionsAssumption DEF BindProject, Goes, Steps
<1>23. ASSUME NEW p \in Proc, Put(p) PROVE TypeOK'
  BY <1>23, PutStores DEF Put, Goes, Steps
<1>24. ASSUME NEW p \in Proc, RefreshReads(p) PROVE TypeOK'
  BY <1>24, EndsTyped DEF RefreshReads, Goes, Steps
<1>25. ASSUME NEW p \in Proc, RefreshWrites(p) PROVE TypeOK'
  BY <1>25, EndsTyped DEF RefreshWrites, Locals, InEdit, Sealing
<1>26. ASSUME NEW p \in Proc, NEW o \in {"open", "run", "edit"}, Start(p, o) PROVE TypeOK'
  BY <1>26 DEF Start, Goes, Steps
<1>27. ASSUME NEW p \in Proc, NEW e \in Env, EditText(p, e) PROVE TypeOK'
  BY <1>27 DEF EditText, Goes, Steps
<1>28. ASSUME NEW u \in User, NEW f \in RepoFiles, NewMembers(u, f) PROVE TypeOK'
  BY <1>28, RepoAssumption DEF NewMembers, Moves
<1>29. ASSUME NEW u \in User, NEW c \in AnyProject, NewProject(u, c) PROVE TypeOK'
  BY <1>29 DEF NewProject, Moves
<1>30. ASSUME NEW u \in User, NEW e \in Env \cup {NoEnv}, NewEnv(u, e) PROVE TypeOK'
  BY <1>30 DEF NewEnv, Moves
<1>31. CASE UNCHANGED vars
  BY <1>31 DEF vars
<1>32. ASSUME NEW p \in Proc, GuardUnread(p) PROVE TypeOK'
  BY <1>32 DEF GuardUnread, Goes, Steps
<1>33. QED
  BY <1>1, <1>2, <1>3, <1>4, <1>5, <1>6, <1>7, <1>8, <1>9, <1>10, <1>11,
     <1>12, <1>13, <1>14, <1>15, <1>16, <1>17, <1>18, <1>19, <1>20, <1>21,
     <1>22, <1>23, <1>24, <1>25, <1>26, <1>27, <1>28, <1>29, <1>30, <1>31, <1>32
  DEF Next, Reads, ChecksPin, Seals, Outside

----------------------------------------------------------------------------
(* What holds of the local variables at each step of a command. *)

(* A command that has ended satisfies it, and the others are as they were. *)
LEMMA EndsLocals ==
    ASSUME TypeOK, \A q \in Proc : Locals(q), NEW p \in Proc, Ends(p)
    PROVE  \A q \in Proc : Locals(q)'
<1>1. Locals(p)'
  BY DEF TypeOK, Ends, Locals, Sealing, InSeal, InRead, InEdit
<1>2. ASSUME NEW q \in Proc, q # p PROVE Locals(q)'
  BY <1>2 DEF TypeOK, Ends, Locals, Sealing, Listed, Key1
<1>3. QED
  BY <1>1, <1>2

LEMMA NextLocals ==
    ASSUME TypeOK, \A p \in Proc : Locals(p), [Next]_vars
    PROVE  \A p \in Proc : Locals(p)'
<1> USE DEF world, repo, machine, locals, TypeOK
<1>1. ASSUME NEW p \in Proc, Stop(p) PROVE \A q \in Proc : Locals(q)'
  BY <1>1, EndsLocals DEF Stop
<1>2. ASSUME NEW p \in Proc, StartSeal(p) PROVE \A q \in Proc : Locals(q)'
  BY <1>2 DEF StartSeal, Goes, Locals, Sealing, Listed, Key1, InSeal, InRead, InEdit
<1>3. ASSUME NEW p \in Proc, Fetch(p) PROVE \A q \in Proc : Locals(q)'
  BY <1>3 DEF Fetch, Goes, Locals, Sealing, Listed, Key1, InSeal, InRead, InEdit
<1>4. ASSUME NEW p \in Proc, PinMembers(p) PROVE \A q \in Proc : Locals(q)'
  BY <1>4 DEF PinMembers, Goes, Locals, Sealing, Listed, Key1, InSeal, InRead, InEdit
<1>5. ASSUME NEW p \in Proc, PinProject(p) PROVE \A q \in Proc : Locals(q)'
  BY <1>5 DEF PinProject, Goes, Locals, Sealing, Listed, Key1, InSeal, InRead, InEdit
<1>6. ASSUME NEW p \in Proc, PinRead(p) PROVE \A q \in Proc : Locals(q)'
  BY <1>6 DEF PinRead, Goes, Locals, Sealing, Listed, Key1, InSeal, InRead, InEdit
<1>7. ASSUME NEW p \in Proc, AdoptProject(p) PROVE \A q \in Proc : Locals(q)'
  BY <1>7 DEF AdoptProject, Goes, Locals, Sealing, Listed, Key1, InSeal, InRead, InEdit
<1>8. ASSUME NEW p \in Proc, Unchanged(p) PROVE \A q \in Proc : Locals(q)'
  BY <1>8 DEF Unchanged, Goes, Locals, Sealing, Listed, Key1, InSeal, InRead, InEdit
<1>9. ASSUME NEW p \in Proc, Confirm(p) PROVE \A q \in Proc : Locals(q)'
  BY <1>9 DEF Confirm, Goes, Locals, Sealing, Listed, Key1, InSeal, InRead, InEdit
<1>10. ASSUME NEW p \in Proc, RememberProject(p) PROVE \A q \in Proc : Locals(q)'
  BY <1>10
  DEF RememberProject, Goes, Locals, Sealing, Listed, Key1, InSeal, InRead, InEdit
<1>11. ASSUME NEW p \in Proc, WritePin(p) PROVE \A q \in Proc : Locals(q)'
  BY <1>11, EndsLocals
  DEF WritePin, Goes, Locals, Sealing, Listed, Key1, InSeal, InRead, InEdit
<1>12. ASSUME NEW p \in Proc, VerifyProject(p) PROVE \A q \in Proc : Locals(q)'
  BY <1>12 DEF VerifyProject, Goes, Locals, Sealing, Listed, Key1, InSeal, InRead, InEdit
<1>13. ASSUME NEW p \in Proc, Verify(p) PROVE \A q \in Proc : Locals(q)'
  BY <1>13 DEF Verify, Goes, Locals, Sealing, Listed, Key1, InSeal, InRead, InEdit
<1>14. ASSUME NEW p \in Proc, Inject(p) PROVE \A q \in Proc : Locals(q)'
  BY <1>14, EndsLocals DEF Inject
<1>15. ASSUME NEW p \in Proc, OpenCompares(p) PROVE \A q \in Proc : Locals(q)'
  BY <1>15 DEF OpenCompares, Goes, Locals, Sealing, Listed, Key1, InSeal, InRead, InEdit
<1>16. ASSUME NEW p \in Proc, OpenWrites(p) PROVE \A q \in Proc : Locals(q)'
  BY <1>16, EndsLocals DEF OpenWrites
<1>17. ASSUME NEW p \in Proc, Refetch(p) PROVE \A q \in Proc : Locals(q)'
  BY <1>17 DEF Refetch, Goes, Locals, Sealing, Listed, Key1, InSeal, InRead, InEdit
<1>18. ASSUME NEW p \in Proc, SealLoads(p) PROVE \A q \in Proc : Locals(q)'
  BY <1>18 DEF SealLoads, Goes, Locals, Sealing, Listed, Key1, InSeal, InRead, InEdit
<1>19. ASSUME NEW p \in Proc, GuardGet(p) PROVE \A q \in Proc : Locals(q)'
  BY <1>19 DEF GuardGet, Goes, Locals, Sealing, Listed, Key1, InSeal, InRead, InEdit
<1>20. ASSUME NEW p \in Proc, GuardProject(p) PROVE \A q \in Proc : Locals(q)'
  BY <1>20 DEF GuardProject, Goes, Locals, Sealing, Listed, Key1, InSeal, InRead, InEdit
<1>21. ASSUME NEW p \in Proc, Guard(p) PROVE \A q \in Proc : Locals(q)'
  BY <1>21 DEF Guard, Goes, Locals, Sealing, Listed, Key1, InSeal, InRead, InEdit
<1>22. ASSUME NEW p \in Proc, BindProject(p) PROVE \A q \in Proc : Locals(q)'
  BY <1>22 DEF BindProject, Goes, Locals, Sealing, Listed, Key1, InSeal, InRead, InEdit
<1>23. ASSUME NEW p \in Proc, Put(p) PROVE \A q \in Proc : Locals(q)'
  BY <1>23 DEF Put, Goes, Locals, Sealing, Listed, Key1, InSeal, InRead, InEdit
<1>24. ASSUME NEW p \in Proc, RefreshReads(p) PROVE \A q \in Proc : Locals(q)'
  BY <1>24, EndsLocals
  DEF RefreshReads, Goes, Locals, Sealing, Listed, Key1, InSeal, InRead, InEdit
<1>25. ASSUME NEW p \in Proc, RefreshWrites(p) PROVE \A q \in Proc : Locals(q)'
  BY <1>25, EndsLocals DEF RefreshWrites
<1>26. ASSUME NEW p \in Proc, NEW o \in {"open", "run", "edit"}, Start(p, o)
      PROVE  \A q \in Proc : Locals(q)'
  BY <1>26 DEF Start, Goes, Locals, Sealing, Listed, Key1, InSeal, InRead, InEdit
<1>27. ASSUME NEW p \in Proc, NEW e \in Env, EditText(p, e)
      PROVE  \A q \in Proc : Locals(q)'
  BY <1>27, EnvAssumption
  DEF EditText, Goes, Locals, Sealing, Listed, Key1, InSeal, InRead, InEdit
<1>28. ASSUME NEW u \in User, NEW f \in RepoFiles, NewMembers(u, f)
      PROVE  \A q \in Proc : Locals(q)'
  BY <1>28 DEF NewMembers, Moves, Locals, Sealing, Listed, Key1, InSeal, InRead, InEdit
<1>29. ASSUME NEW u \in User, NEW c \in AnyProject, NewProject(u, c)
      PROVE  \A q \in Proc : Locals(q)'
  BY <1>29 DEF NewProject, Moves, Locals, Sealing, Listed, Key1, InSeal, InRead, InEdit
<1>30. ASSUME NEW u \in User, NEW e \in Env \cup {NoEnv}, NewEnv(u, e)
      PROVE  \A q \in Proc : Locals(q)'
  BY <1>30 DEF NewEnv, Moves, Locals, Sealing, Listed, Key1, InSeal, InRead, InEdit
<1>31. CASE UNCHANGED vars
  BY <1>31 DEF vars, Locals, Sealing, Listed, Key1, InSeal, InRead, InEdit
<1>32. ASSUME NEW p \in Proc, GuardUnread(p) PROVE \A q \in Proc : Locals(q)'
  BY <1>32 DEF GuardUnread, Goes, Locals, Sealing, Listed, Key1, InSeal, InRead, InEdit
<1>33. QED
  BY <1>1, <1>2, <1>3, <1>4, <1>5, <1>6, <1>7, <1>8, <1>9, <1>10, <1>11,
     <1>12, <1>13, <1>14, <1>15, <1>16, <1>17, <1>18, <1>19, <1>20, <1>21,
     <1>22, <1>23, <1>24, <1>25, <1>26, <1>27, <1>28, <1>29, <1>30, <1>31, <1>32
  DEF Next, Reads, ChecksPin, Seals, Outside

----------------------------------------------------------------------------
(* The list a command holds past the pin has been accepted on its machine. *)

(* Nothing is ever taken back from what a machine has accepted. *)
LEMMA AcceptedStays ==
    ASSUME TypeOK, [Next]_vars, NEW u \in User
    PROVE  accepted[u] \subseteq accepted'[u]
<1>1. ASSUME NEW p \in Proc, NEW q, Trusts(Owner[p], q)
      PROVE  accepted[u] \subseteq accepted'[u]
  BY <1>1, FunctionsAssumption DEF TypeOK, Trusts
<1>2. CASE accepted' = accepted
  BY <1>2
<1>3. QED
  BY <1>1, <1>2
  DEF Next, Reads, ChecksPin, Seals, Outside, vars, world, repo, machine, Stop,
      StartSeal, Start, Fetch, PinMembers, PinProject, PinRead, AdoptProject, Unchanged,
      Confirm, RememberProject, WritePin, VerifyProject, Verify, Inject, OpenCompares,
      OpenWrites, EditText, Refetch, SealLoads, GuardGet, GuardProject, Guard, GuardUnread,
      BindProject, Put, RefreshReads, RefreshWrites, NewMembers, NewProject, NewEnv

LEMMA AcceptedGrows ==
    ASSUME TypeOK, [Next]_vars, NEW u \in User
    PROVE  AcceptedMembers(u) \subseteq AcceptedMembers(u)'
BY AcceptedStays DEF AcceptedMembers

(* A pin, once accepted, has an accepted list. *)
LEMMA TrustedIsAccepted ==
    ASSUME TypeOK, NEW u \in User, NEW q, Trusts(u, q)
    PROVE  q.members \in AcceptedMembers(u)'
BY DEF TypeOK, Trusts, AcceptedMembers

LEMMA NextConfirmed ==
    ASSUME TypeOK, \A p \in Proc : Locals(p) /\ Confirmed(p), PinAccepted, [Next]_vars
    PROVE  \A p \in Proc : Confirmed(p)'
<1> USE DEF world, repo, machine, locals, TypeOK, Confirmed
<1>0. \A q \in Proc : AcceptedMembers(Owner[q]) \subseteq AcceptedMembers(Owner[q])'
  BY AcceptedGrows, FunctionsAssumption
<1>1. ASSUME NEW p \in Proc, Stop(p) PROVE \A q \in Proc : Confirmed(q)'
  BY <1>0, <1>1 DEF Stop, Ends
<1>2. ASSUME NEW p \in Proc, StartSeal(p) PROVE \A q \in Proc : Confirmed(q)'
  BY <1>0, <1>2 DEF StartSeal, Goes
<1>3. ASSUME NEW p \in Proc, Fetch(p) PROVE \A q \in Proc : Confirmed(q)'
  BY <1>0, <1>3 DEF Fetch, Goes
<1>4. ASSUME NEW p \in Proc, PinMembers(p) PROVE \A q \in Proc : Confirmed(q)'
  BY <1>0, <1>4 DEF PinMembers, Goes
<1>5. ASSUME NEW p \in Proc, PinProject(p) PROVE \A q \in Proc : Confirmed(q)'
  BY <1>0, <1>5 DEF PinProject, Goes
<1>6. ASSUME NEW p \in Proc, PinRead(p) PROVE \A q \in Proc : Confirmed(q)'
  BY <1>0, <1>6, FunctionsAssumption DEF PinRead, Goes, PinAccepted
<1>7. ASSUME NEW p \in Proc, AdoptProject(p) PROVE \A q \in Proc : Confirmed(q)'
  <2>1. seen'[p].members \in AcceptedMembers(Owner[p])'
    <3>1. Trusts(Owner[p], seen'[p])
      BY <1>7 DEF AdoptProject
    <3>2. QED
      BY <3>1, TrustedIsAccepted, FunctionsAssumption
  <2>2. QED
    BY <1>0, <1>7, <2>1 DEF AdoptProject, Goes
<1>8. ASSUME NEW p \in Proc, Unchanged(p) PROVE \A q \in Proc : Confirmed(q)'
  <2>1. members[p] \in AcceptedMembers(Owner[p])
    <3>1. seen[p].members = members[p]
      BY <1>8 DEF Unchanged, Matches, Current
    <3>2. seen[p] # NoPin
      BY <1>8, PinsAssumption DEF Unchanged, Matches, Current, Pin
    <3>3. QED
      BY <3>1, <3>2
  <2>2. QED
    BY <1>0, <1>8, <2>1 DEF Unchanged, Goes
<1>9. ASSUME NEW p \in Proc, Confirm(p) PROVE \A q \in Proc : Confirmed(q)'
  <2>1. members[p] \in AcceptedMembers(Owner[p])'
    <3>1. Trusts(Owner[p], Current(p))
      BY <1>9 DEF Confirm
    <3>2. Current(p).members \in AcceptedMembers(Owner[p])'
      BY <3>1, TrustedIsAccepted, FunctionsAssumption
    <3>3. QED
      BY <3>2 DEF Current
  <2>2. QED
    BY <1>0, <1>9, <2>1 DEF Confirm, Goes
<1>10. ASSUME NEW p \in Proc, RememberProject(p) PROVE \A q \in Proc : Confirmed(q)'
  BY <1>0, <1>10 DEF RememberProject, Goes
<1>11. ASSUME NEW p \in Proc, WritePin(p) PROVE \A q \in Proc : Confirmed(q)'
  BY <1>0, <1>11 DEF WritePin, Goes, Ends
<1>12. ASSUME NEW p \in Proc, VerifyProject(p) PROVE \A q \in Proc : Confirmed(q)'
  BY <1>0, <1>12 DEF VerifyProject, Goes
<1>13. ASSUME NEW p \in Proc, Verify(p) PROVE \A q \in Proc : Confirmed(q)'
  BY <1>0, <1>13 DEF Verify, Goes
<1>14. ASSUME NEW p \in Proc, Inject(p) PROVE \A q \in Proc : Confirmed(q)'
  BY <1>0, <1>14 DEF Inject, Ends
<1>15. ASSUME NEW p \in Proc, OpenCompares(p) PROVE \A q \in Proc : Confirmed(q)'
  BY <1>0, <1>15 DEF OpenCompares, Goes
<1>16. ASSUME NEW p \in Proc, OpenWrites(p) PROVE \A q \in Proc : Confirmed(q)'
  BY <1>0, <1>16 DEF OpenWrites, Ends
<1>17. ASSUME NEW p \in Proc, Refetch(p) PROVE \A q \in Proc : Confirmed(q)'
  BY <1>0, <1>17 DEF Refetch, Goes
<1>18. ASSUME NEW p \in Proc, SealLoads(p) PROVE \A q \in Proc : Confirmed(q)'
  BY <1>0, <1>18 DEF SealLoads, Goes
<1>19. ASSUME NEW p \in Proc, GuardGet(p) PROVE \A q \in Proc : Confirmed(q)'
  BY <1>0, <1>19 DEF GuardGet, Goes
<1>20. ASSUME NEW p \in Proc, GuardProject(p) PROVE \A q \in Proc : Confirmed(q)'
  BY <1>0, <1>20 DEF GuardProject, Goes
<1>21. ASSUME NEW p \in Proc, Guard(p) PROVE \A q \in Proc : Confirmed(q)'
  BY <1>0, <1>21 DEF Guard, Goes
<1>22. ASSUME NEW p \in Proc, BindProject(p) PROVE \A q \in Proc : Confirmed(q)'
  BY <1>0, <1>22 DEF BindProject, Goes
<1>23. ASSUME NEW p \in Proc, Put(p) PROVE \A q \in Proc : Confirmed(q)'
  BY <1>0, <1>23 DEF Put, Goes
<1>24. ASSUME NEW p \in Proc, RefreshReads(p) PROVE \A q \in Proc : Confirmed(q)'
  BY <1>0, <1>24 DEF RefreshReads, Goes, Ends
<1>25. ASSUME NEW p \in Proc, RefreshWrites(p) PROVE \A q \in Proc : Confirmed(q)'
  BY <1>0, <1>25 DEF RefreshWrites, Ends
<1>26. ASSUME NEW p \in Proc, NEW o \in {"open", "run", "edit"}, Start(p, o)
      PROVE  \A q \in Proc : Confirmed(q)'
  BY <1>0, <1>26 DEF Start, Goes
<1>27. ASSUME NEW p \in Proc, NEW e \in Env, EditText(p, e)
      PROVE  \A q \in Proc : Confirmed(q)'
  BY <1>0, <1>27 DEF EditText, Goes
<1>28. ASSUME NEW u \in User, NEW f \in RepoFiles, NewMembers(u, f)
      PROVE  \A q \in Proc : Confirmed(q)'
  BY <1>0, <1>28 DEF NewMembers, Moves
<1>29. ASSUME NEW u \in User, NEW c \in AnyProject, NewProject(u, c)
      PROVE  \A q \in Proc : Confirmed(q)'
  BY <1>0, <1>29 DEF NewProject, Moves
<1>30. ASSUME NEW u \in User, NEW e \in Env \cup {NoEnv}, NewEnv(u, e)
      PROVE  \A q \in Proc : Confirmed(q)'
  BY <1>0, <1>30 DEF NewEnv, Moves
<1>31. CASE UNCHANGED vars
  BY <1>0, <1>31 DEF vars
<1>32. ASSUME NEW p \in Proc, GuardUnread(p) PROVE \A q \in Proc : Confirmed(q)'
  BY <1>0, <1>32 DEF GuardUnread, Goes
<1>33. QED
  BY <1>1, <1>2, <1>3, <1>4, <1>5, <1>6, <1>7, <1>8, <1>9, <1>10, <1>11,
     <1>12, <1>13, <1>14, <1>15, <1>16, <1>17, <1>18, <1>19, <1>20, <1>21,
     <1>22, <1>23, <1>24, <1>25, <1>26, <1>27, <1>28, <1>29, <1>30, <1>31, <1>32
  DEF Next, Reads, ChecksPin, Seals, Outside

----------------------------------------------------------------------------
(* The pins: only AdoptProject and WritePin change one. *)
LEMMA PinSteps ==
    ASSUME [Next]_vars, ~ \E p \in Proc : AdoptProject(p) \/ WritePin(p)
    PROVE  UNCHANGED pin
BY DEF Next, Reads, ChecksPin, Seals, Outside, vars, world, repo, machine, Stop,
       StartSeal, Start, Fetch, PinMembers, PinProject, PinRead, Unchanged, Confirm,
       RememberProject, VerifyProject, Verify, Inject, OpenCompares, OpenWrites,
       EditText, Refetch, SealLoads, GuardGet, GuardProject, Guard, GuardUnread, BindProject,
       Put, RefreshReads, RefreshWrites, NewMembers, NewProject, NewEnv

LEMMA NextPins ==
    ASSUME TypeOK, \A p \in Proc : Locals(p) /\ Confirmed(p), PinAccepted, [Next]_vars
    PROVE  PinAccepted'
<1>0. \A u \in User : AcceptedMembers(u) \subseteq AcceptedMembers(u)'
  BY AcceptedGrows
<1>1. ASSUME NEW p \in Proc, AdoptProject(p) PROVE PinAccepted'
  <2>1. seen[p].members \in AcceptedMembers(Owner[p])
    BY <1>1 DEF AdoptProject, Goes, Locals, Confirmed
  <2>2. pin' = [pin EXCEPT ![Owner[p]] = [members |-> seen[p].members,
                                          project |-> project[p]]]
    BY <1>1 DEF AdoptProject, Pins
  <2>3. QED
    BY <1>0, <2>1, <2>2 DEF PinAccepted, TypeOK
<1>2. ASSUME NEW p \in Proc, WritePin(p) PROVE PinAccepted'
  <2>1. members[p] \in AcceptedMembers(Owner[p])
    BY <1>2 DEF WritePin, Confirmed
  <2>2. pin' = [pin EXCEPT ![Owner[p]] = [members |-> members[p],
                                          project |-> project[p]]]
    BY <1>2 DEF WritePin, Pins, Remembered, Current
  <2>3. QED
    BY <1>0, <2>1, <2>2 DEF PinAccepted, TypeOK
<1>3. CASE UNCHANGED pin
  BY <1>0, <1>3 DEF PinAccepted
<1>4. QED
  BY <1>1, <1>2, <1>3, PinSteps

----------------------------------------------------------------------------
(* The store: only Put changes it. *)
LEMMA OnlyPutStores ==
    ASSUME [Next]_vars, ~ \E p \in Proc : Put(p)
    PROVE  UNCHANGED store
BY DEF Next, Reads, ChecksPin, Seals, Outside, vars, world, repo, machine, Stop,
       StartSeal, Start, Fetch, PinMembers, PinProject, PinRead, AdoptProject, Unchanged, Confirm,
       RememberProject, WritePin, VerifyProject, Verify, Inject, OpenCompares, OpenWrites,
       EditText, Refetch, SealLoads, GuardGet, GuardProject, Guard, GuardUnread, BindProject,
       RefreshReads, RefreshWrites, NewMembers, NewProject, NewEnv

LEMMA PutKeepsStore ==
    ASSUME TypeOK, NEW p \in Proc, Locals(p), Confirmed(p), Put(p)
    PROVE  SealedForAccepted' /\ SealerCanOpen'
<1> DEFINE u == Owner[p]
<1>1. Loadable(members[p]) /\ Listed(p, members[p])
  BY DEF Put, Goes, Locals, InSeal
<1>2. /\ Self(p) \in members[p]
      /\ Self(p).key = KeyOf[u]
      /\ Self(p).sign = Derive[KeyOf[u]]
  BY <1>1, SelfIsListed DEF Key1
<1>3. u \in User
  BY FunctionsAssumption
<1>4. AcceptedMembers(u)' = AcceptedMembers(u)
  BY DEF Put, machine, AcceptedMembers
<1>5. members[p] \in AcceptedMembers(u)
  BY DEF Put, Goes, Confirmed
<1>6. /\ store'.to = KeysOf(members[p])
      /\ store'.manifest = members[p]
      /\ store'.signer = Self(p).name
      /\ store'.sign = Derive[KeyOf[u]]
  BY PutStores DEF Key1
<1>7. SealedForAccepted'
  BY <1>3, <1>4, <1>5, <1>6 DEF SealedForAccepted
<1>8. Verified(store', store'.project, store'.manifest, FALSE)
  BY <1>1, <1>2, <1>6 DEF Verified
<1>9. CanDecrypt(store', KeyOf[u])
  BY <1>2, <1>6 DEF CanDecrypt, KeysOf
<1>10. SealerCanOpen'
  BY <1>2, <1>3, <1>6, <1>8, <1>9 DEF SealerCanOpen
<1>11. QED
  BY <1>7, <1>10

LEMMA NextStore ==
    ASSUME TypeOK, \A p \in Proc : Locals(p) /\ Confirmed(p),
           SealedForAccepted, SealerCanOpen, [Next]_vars
    PROVE  SealedForAccepted' /\ SealerCanOpen'
<1>1. CASE \E p \in Proc : Put(p)
  BY <1>1, PutKeepsStore
<1>2. CASE UNCHANGED store
  <2>1. \A u \in User : AcceptedMembers(u) \subseteq AcceptedMembers(u)'
    BY AcceptedGrows
  <2>2. SealedForAccepted'
    BY <1>2, <2>1 DEF SealedForAccepted
  <2>3. SealerCanOpen'
    BY <1>2 DEF SealerCanOpen
  <2>4. QED
    BY <2>2, <2>3
<1>3. QED
  BY <1>1, <1>2, OnlyPutStores

----------------------------------------------------------------------------
(* The inductive invariant holds, whatever overlaps: types, what each step *)
(* of a command may rely on, accepted pins, and the two facts of the store.*)
THEOREM Invariance == Spec => []Inv
<1>1. Inv /\ [Next]_vars => Inv'
  BY NextType, NextLocals, NextConfirmed, NextPins, NextStore DEF Inv
<1>2. QED
  BY InitInv, <1>1, PTL DEF Spec

(* A machine never pins a member list that was not accepted there. *)
THEOREM PinsAreAccepted == Spec => []PinAccepted
BY Invariance, PTL DEF Inv

(* Secrets are sealed only for lists the sealer's machine accepted. *)
THEOREM SealsAreAccepted == Spec => []SealedForAccepted
BY Invariance, PTL DEF Inv

(* Nobody seals a blob they could not open or nobody could attribute. *)
THEOREM SealersCanOpen == Spec => []SealerCanOpen
BY Invariance, PTL DEF Inv
============================================================================
