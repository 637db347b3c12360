--------------------------- MODULE ConsentProofs ---------------------------
(* What a user was told or shown still holds when the command acts on it:  *)
(* the lockout warning of a seal, for everything that may overlap with it; *)
(* the pinned list and project, while the repository's files stay as they  *)
(* are under a command; and the two promises of one command at a time.     *)
EXTENDS ShenvProofs

OwnStep(p) == Reads(p) \/ ChecksPin(p) \/ Seals(p) \/ Stop(p)
mine(p)    == <<at[p], op[p], members[p], project[p], base[p], cur[p], prev[p],
                plain[p], seen[p], told[p]>>

(* A command's local variables are its own. *)
LEMMA OthersStay ==
    ASSUME TypeOK, [Next]_vars, NEW p \in Proc, ~OwnStep(p)
    PROVE  UNCHANGED mine(p)
<1> USE DEF TypeOK, mine, locals, Goes, Ends
<1>1. ASSUME NEW q \in Proc, q # p, Reads(q) PROVE UNCHANGED mine(p)
  BY <1>1 DEF Reads, Start, Fetch, PinMembers, VerifyProject, Verify, Inject,
              OpenCompares, OpenWrites, EditText, Refetch
<1>2. ASSUME NEW q \in Proc, q # p, ChecksPin(q) PROVE UNCHANGED mine(p)
  BY <1>2 DEF ChecksPin, PinProject, PinRead, AdoptProject, Unchanged, Confirm,
              RememberProject, WritePin
<1>3. ASSUME NEW q \in Proc, q # p, Seals(q) PROVE UNCHANGED mine(p)
  BY <1>3 DEF Seals, StartSeal, SealLoads, GuardGet, GuardProject, Guard,
              GuardUnread, BindProject, Put, RefreshReads, RefreshWrites
<1>4. ASSUME NEW q \in Proc, q # p, Stop(q) PROVE UNCHANGED mine(p)
  BY <1>4 DEF Stop
<1>5. CASE Outside
  BY <1>5 DEF Outside, NewMembers, NewProject, NewEnv
<1>6. CASE UNCHANGED vars
  BY <1>6 DEF vars
<1>7. QED
  BY <1>1, <1>2, <1>3, <1>4, <1>5, <1>6 DEF Next, OwnStep

----------------------------------------------------------------------------
(* The lockout warning.  A blob that verifies was encrypted for the list   *)
(* it carries, so that the warning names everyone it takes access from;    *)
(* and from the warning to Put the list of the seal stays the same.        *)
SignedForManifest(b) == b # NoBlob /\ b.signer # NoSigner => b.to = KeysOf(b.manifest)

Decided == {"project", "pinRead", "adopt", "compare", "bind", "put"}

Consented(p) == Sealing(p) /\ at[p] \in Decided /\ prev[p] # NoBlob =>
                    prev[p].to \subseteq KeysOf(members[p]) \cup told[p]

Warnings == /\ SignedForManifest(store)
            /\ \A p \in Proc : SignedForManifest(prev[p]) /\ Consented(p)

LEMMA InitWarnings == Init => Warnings
BY BlobsAssumption DEF Init, Warnings, SignedForManifest, Consented, Sealing

(* Whoever can decrypt a blob the check has warned of is still a member,   *)
(* or was named.                                                           *)
LEMMA WarnedOfAll ==
    ASSUME TypeOK, NEW p \in Proc, prev[p] # NoBlob, SignedForManifest(prev[p])
    PROVE  prev[p].to \subseteq KeysOf(members[p]) \cup Warned(p)
<1>0. prev[p] \in Blob
  BY DEF TypeOK
<1>1. CASE PrevVerified(p)
  <2>1. prev[p].signer # NoSigner
    <3>1. PICK m \in rec[Owner[p]] : m.name = prev[p].signer
      BY <1>1 DEF PrevVerified, Verified
    <3>2. m.name \in Name
      BY FunctionsAssumption DEF TypeOK, File, Member
    <3>3. QED
      BY <3>1, <3>2, NoSignerAssumption
  <2>2. prev[p].to = KeysOf(prev[p].manifest)
    BY <2>1 DEF SignedForManifest
  <2>3. ASSUME NEW m \in prev[p].manifest
        PROVE  m.key \in KeysOf(members[p]) \cup KeysOf(Dropped(p))
    BY DEF KeysOf, Dropped, MembersIn, HasKey
  <2>4. QED
    BY <1>1, <2>2, <2>3 DEF Warned, KeysOf
<1>2. CASE ~PrevVerified(p)
  BY <1>0, <1>2 DEF Warned, Blob
<1>3. QED
  BY <1>1, <1>2

LEMMA NextSigned ==
    ASSUME TypeOK, \A p \in Proc : Locals(p), Warnings, [Next]_vars
    PROVE  /\ SignedForManifest(store)'
           /\ \A p \in Proc : SignedForManifest(prev[p])'
<1>1. SignedForManifest(store)'
  <2>1. ASSUME NEW p \in Proc, Put(p) PROVE SignedForManifest(store)'
    BY <2>1, PutStores DEF SignedForManifest
  <2>2. CASE UNCHANGED store
    BY <2>2 DEF Warnings, SignedForManifest
  <2>3. QED
    BY <2>1, <2>2, OnlyPutStores
<1>2. ASSUME NEW p \in Proc PROVE SignedForManifest(prev[p])'
  <2>1. prev'[p] \in {prev[p], NoBlob, store}
    <3>1. CASE Reads(p)
      BY <3>1 DEF TypeOK, locals, Ends, Reads, Start, Fetch, PinMembers, VerifyProject,
                  Verify, Inject, OpenCompares, OpenWrites, EditText, Refetch
    <3>2. CASE ChecksPin(p)
      BY <3>2 DEF TypeOK, locals, Ends, ChecksPin, PinProject, PinRead, AdoptProject,
                  Unchanged, Confirm, RememberProject, WritePin
    <3>3. CASE Seals(p)
      BY <3>3 DEF TypeOK, locals, Ends, Seals, StartSeal, SealLoads, GuardGet,
                  GuardProject, Guard, GuardUnread, BindProject, Put, RefreshReads,
                  RefreshWrites
    <3>4. CASE Stop(p)
      BY <3>4 DEF TypeOK, Stop, Ends
    <3>5. CASE ~OwnStep(p)
      BY <3>5, OthersStay DEF mine
    <3>6. QED
      BY <3>1, <3>2, <3>3, <3>4, <3>5 DEF OwnStep
  <2>2. QED
    BY <2>1 DEF Warnings, SignedForManifest
<1>3. QED
  BY <1>1, <1>2

LEMMA NextConsented ==
    ASSUME TypeOK, \A q \in Proc : Locals(q), Warnings, [Next]_vars, NEW p \in Proc
    PROVE  Consented(p)'
<1> USE DEF TypeOK, Consented, Sealing, Decided, Goes, locals
<1>0. Consented(p) /\ SignedForManifest(prev[p]) /\ SignedForManifest(store) /\ Locals(p)
  BY DEF Warnings
<1>1. CASE PinMembers(p)
  BY <1>0, <1>1 DEF PinMembers, Locals, InRead
<1>2. CASE GuardGet(p)
  <2>1. CASE store = NoBlob
    BY <1>2, <2>1 DEF GuardGet
  <2>2. CASE store # NoBlob /\ ~CanDecrypt(store, Key1(p))
    BY <1>2, <2>2 DEF GuardGet, Blob
  <2>3. CASE store # NoBlob /\ CanDecrypt(store, Key1(p))
    BY <1>2, <2>3 DEF GuardGet
  <2>4. QED
    BY <2>1, <2>2, <2>3
<1>3. CASE Guard(p)
  <2>1. prev[p] # NoBlob
    BY <1>0, <1>3 DEF Guard, Locals
  <2>2. prev[p].to \subseteq KeysOf(members[p]) \cup Warned(p)
    BY <1>0, <2>1, WarnedOfAll
  <2>3. QED
    BY <1>3, <2>2 DEF Guard
<1>4. CASE PinProject(p)
  BY <1>0, <1>4 DEF PinProject
<1>5. CASE PinRead(p)
  BY <1>0, <1>5 DEF PinRead
<1>6. CASE AdoptProject(p)
  BY <1>0, <1>6 DEF AdoptProject
<1>7. CASE Unchanged(p)
  BY <1>0, <1>7 DEF Unchanged
<1>8. CASE Confirm(p)
  BY <1>0, <1>8 DEF Confirm
<1>9. CASE BindProject(p)
  BY <1>0, <1>9 DEF BindProject
<1>10. CASE Reads(p) /\ ~PinMembers(p)
  BY <1>10 DEF Reads, Start, Fetch, VerifyProject, Verify, Inject, OpenCompares,
               OpenWrites, EditText, Refetch, Ends
<1>11. CASE RememberProject(p) \/ WritePin(p)
  BY <1>11 DEF RememberProject, WritePin, Ends
<1>12. CASE StartSeal(p) \/ SealLoads(p) \/ GuardProject(p)
  BY <1>12 DEF StartSeal, SealLoads, GuardProject
<1>13. CASE Put(p) \/ RefreshReads(p) \/ RefreshWrites(p) \/ Stop(p)
  BY <1>13 DEF Put, RefreshReads, RefreshWrites, Stop, Ends
<1>14. CASE ~OwnStep(p)
  BY <1>0, <1>14, OthersStay DEF mine
<1>15. CASE GuardUnread(p)
  <2>1. prev[p] \in Blob
    BY <1>0, <1>15 DEF GuardUnread, Locals
  <2>2. QED
    BY <1>15, <2>1 DEF GuardUnread, Blob
<1>16. QED
  BY <1>1, <1>2, <1>3, <1>4, <1>5, <1>6, <1>7, <1>8, <1>9, <1>10, <1>11, <1>12,
     <1>13, <1>14, <1>15 DEF OwnStep, ChecksPin, Seals

LEMMA WarningsHold == Spec => []Warnings
<1>1. Inv /\ Warnings /\ [Next]_vars => Warnings'
  BY NextSigned, NextConsented DEF Inv, Warnings
<1>2. QED
  BY InitWarnings, Invariance, <1>1, PTL DEF Spec

(* A seal takes access from nobody silently: whoever could decrypt the     *)
(* blob the lockout check read keeps access, or the user was told and said *)
(* yes, whatever other commands and pulls do in between.                   *)
THEOREM LockoutsAreTold == Spec => NoSilentLockout
<1> DEFINE Silent == \A p \in Proc : Put(p) /\ prev[p] # NoBlob =>
                        prev[p].to \subseteq store'.to \cup told[p]
<1>1. Inv /\ Warnings => Silent
  <2> SUFFICES ASSUME Inv, Warnings, NEW p \in Proc, Put(p), prev[p] # NoBlob
               PROVE  prev[p].to \subseteq store'.to \cup told[p]
    OBVIOUS
  <2>1. Sealing(p) /\ at[p] \in Decided
    BY DEF Inv, Put, Goes, Locals, InSeal, Decided
  <2>2. store'.to = KeysOf(members[p])
    BY PutStores DEF Inv
  <2>3. QED
    BY <2>1, <2>2 DEF Warnings, Consented
<1>2. QED
  BY Invariance, WarningsHold, <1>1, PTL DEF NoSilentLockout

----------------------------------------------------------------------------
(* A repository that changes only between its user's commands.  What a     *)
(* command has loaded of it is then what is there, and what the user has   *)
(* accepted for it stands for the repository until the command ends.       *)
Loaded == {"guardGet", "guardProject", "guard", "project", "pinRead", "adopt", "compare",
           "remember", "writePin", "bind", "put"}
Bound  == {"guard", "pinRead", "adopt", "compare", "remember", "writePin", "bind", "put",
           "verify"}

Repo(u) == [members |-> rec[u], project |-> cfg[u]]

Steady(p) ==
    /\ at[p] \in Loaded => members[p] = rec[Owner[p]]
    /\ at[p] \in Bound => project[p] = cfg[Owner[p]]

Shown(p) ==
    /\ seen[p] # NoPin => seen[p] \in accepted[Owner[p]]
    /\ at[p] \in {"remember", "writePin", "bind", "put"} => Current(p) \in accepted[Owner[p]]
    /\ at[p] \in {"verifyProject", "verify"} =>
          rec[Owner[p]] = {} \/ Repo(Owner[p]) \in accepted[Owner[p]]

QuietInv == /\ PinShown
            /\ \A p \in Proc : Steady(p) /\ Shown(p)

LEMMA InitQuiet == Init => QuietInv
BY DEF Init, QuietInv, PinShown, Steady, Shown, Loaded, Bound

LEMMA QuietRepo ==
    ASSUME Quiet, TypeOK, [Next]_vars, NEW p \in Proc, at[p] # "idle"
    PROVE  /\ rec'[Owner[p]] = rec[Owner[p]]
           /\ cfg'[Owner[p]] = cfg[Owner[p]]
<1> USE DEF TypeOK, world, repo, locals
<1>1. CASE \E q \in Proc : Reads(q)
  BY <1>1 DEF Reads, Start, Fetch, PinMembers, VerifyProject, Verify, Inject,
              OpenCompares, OpenWrites, EditText, Refetch
<1>2. CASE \E q \in Proc : ChecksPin(q)
  BY <1>2 DEF ChecksPin, PinProject, PinRead, AdoptProject, Unchanged, Confirm,
              RememberProject, WritePin
<1>3. CASE \E q \in Proc : Seals(q)
  BY <1>3 DEF Seals, StartSeal, SealLoads, GuardGet, GuardProject, Guard,
              GuardUnread, BindProject, Put, RefreshReads, RefreshWrites
<1>4. CASE \E q \in Proc : Stop(q)
  BY <1>4 DEF Stop
<1>5. CASE Outside
  <2>1. ASSUME NEW u \in User, Moves(u) PROVE u # Owner[p]
    BY <2>1 DEF Moves, Idle
  <2>2. ASSUME NEW u \in User, NEW f \in RepoFiles, NewMembers(u, f)
        PROVE  rec'[Owner[p]] = rec[Owner[p]] /\ cfg'[Owner[p]] = cfg[Owner[p]]
    BY <2>1, <2>2 DEF NewMembers
  <2>3. ASSUME NEW u \in User, NEW c \in AnyProject, NewProject(u, c)
        PROVE  rec'[Owner[p]] = rec[Owner[p]] /\ cfg'[Owner[p]] = cfg[Owner[p]]
    BY <2>1, <2>3 DEF NewProject
  <2>4. ASSUME NEW u \in User, NEW e \in Env \cup {NoEnv}, NewEnv(u, e)
        PROVE  rec'[Owner[p]] = rec[Owner[p]] /\ cfg'[Owner[p]] = cfg[Owner[p]]
    BY <2>4 DEF NewEnv
  <2>5. QED
    BY <1>5, <2>2, <2>3, <2>4 DEF Outside
<1>6. CASE UNCHANGED vars
  BY <1>6 DEF vars
<1>7. QED
  BY <1>1, <1>2, <1>3, <1>4, <1>5, <1>6 DEF Next

LEMMA NextSteady ==
    ASSUME Quiet, TypeOK, \A q \in Proc : Locals(q) /\ Steady(q), [Next]_vars, NEW p \in Proc
    PROVE  Steady(p)'
<1> USE DEF TypeOK, Steady, Loaded, Bound, Goes, locals, world, repo
<1>0. /\ Steady(p) /\ Locals(p)
      /\ at[p] # "idle" => rec'[Owner[p]] = rec[Owner[p]] /\ cfg'[Owner[p]] = cfg[Owner[p]]
  BY QuietRepo
<1>1. CASE Reads(p)
  <2>1. CASE PinMembers(p) \/ VerifyProject(p)
    BY <1>0, <2>1 DEF PinMembers, VerifyProject
  <2>2. CASE Verify(p)
    BY <1>0, <2>2 DEF Verify
  <2>3. CASE ~(PinMembers(p) \/ VerifyProject(p) \/ Verify(p))
    <3>1. at'[p] \in {"idle", "fetch", "pinMembers", "write", "refetch", "load"}
      BY <1>1, <2>3 DEF Reads, Start, Fetch, Inject, OpenCompares, OpenWrites, EditText,
                        Refetch, Ends
    <3>2. QED
      BY <3>1
  <2>4. QED
    BY <2>1, <2>2, <2>3
<1>2. CASE PinProject(p) \/ PinRead(p) \/ AdoptProject(p)
  BY <1>0, <1>2 DEF PinProject, PinRead, AdoptProject
<1>3. CASE Unchanged(p) \/ Confirm(p)
  BY <1>0, <1>3 DEF Unchanged, Confirm
<1>4. CASE RememberProject(p) \/ WritePin(p)
  BY <1>0, <1>4 DEF RememberProject, WritePin, Ends
<1>5. CASE StartSeal(p) \/ SealLoads(p) \/ GuardGet(p)
  BY <1>0, <1>5 DEF StartSeal, SealLoads, GuardGet
<1>6. CASE GuardProject(p) \/ Guard(p) \/ GuardUnread(p) \/ BindProject(p) \/ Put(p)
  BY <1>0, <1>6 DEF GuardProject, Guard, GuardUnread, BindProject, Put
<1>7. CASE RefreshReads(p) \/ RefreshWrites(p) \/ Stop(p)
  BY <1>7 DEF RefreshReads, RefreshWrites, Stop, Ends
<1>8. CASE ~OwnStep(p)
  BY <1>0, <1>8, OthersStay DEF mine
<1>9. QED
  BY <1>1, <1>2, <1>3, <1>4, <1>5, <1>6, <1>7, <1>8 DEF OwnStep, ChecksPin, Seals

LEMMA NextShown ==
    ASSUME Quiet, TypeOK, PinShown, \A q \in Proc : Locals(q) /\ Steady(q) /\ Shown(q),
           [Next]_vars, NEW p \in Proc
    PROVE  Shown(p)'
<1> DEFINE u == Owner[p]
<1> USE DEF TypeOK, Shown, Goes, locals
<1>0. /\ u \in User /\ Shown(p) /\ Steady(p) /\ Locals(p)
      /\ accepted[u] \subseteq accepted'[u]
      /\ at[p] # "idle" => Repo(u)' = Repo(u) /\ rec'[u] = rec[u]
  BY FunctionsAssumption, AcceptedStays, QuietRepo DEF Repo
<1>1. CASE PinMembers(p)
  BY <1>0, <1>1 DEF PinMembers
<1>2. CASE VerifyProject(p)
  BY <1>0, <1>2 DEF VerifyProject
<1>3. CASE Reads(p) /\ ~PinMembers(p) /\ ~VerifyProject(p)
  <2>1. seen'[p] \in {seen[p], NoPin}
    BY <1>3 DEF Reads, Start, Fetch, Verify, Inject, OpenCompares, OpenWrites, EditText,
                Refetch, Ends
  <2>2. at'[p] \in {"idle", "fetch", "pinMembers", "use", "write", "refetch", "load"}
    BY <1>3 DEF Reads, Start, Fetch, Verify, Inject, OpenCompares, OpenWrites, EditText,
                Refetch, Ends
  <2>3. QED
    BY <1>0, <2>1, <2>2
<1>4. CASE PinProject(p)
  BY <1>0, <1>4 DEF PinProject
<1>5. CASE PinRead(p)
  BY <1>0, <1>5 DEF PinRead, PinShown
<1>6. CASE AdoptProject(p)
  BY <1>0, <1>6 DEF AdoptProject, Trusts
<1>7. CASE Unchanged(p)
  <2>1. Current(p) \in accepted[u]
    BY <1>0, <1>7, PinsAssumption DEF Unchanged, Matches, Current, Pin
  <2>2. Current(p)' = Current(p)
    BY <1>7 DEF Unchanged, Current
  <2>3. Repo(u) = Current(p)
    BY <1>0, <1>7 DEF Unchanged, Steady, Loaded, Bound, Repo, Current
  <2>4. seen'[p] = NoPin /\ at'[p] \in {"bind", "verifyProject"} /\ at[p] = "compare"
    BY <1>7 DEF Unchanged
  <2>5. QED
    BY <1>0, <2>1, <2>2, <2>3, <2>4
<1>8. CASE Confirm(p)
  <2>1. Current(p)' = Current(p)
    BY <1>8 DEF Confirm, Current
  <2>2. Current(p) \in accepted'[u]
    BY <1>0, <1>8 DEF Confirm, Trusts
  <2>3. seen'[p] = NoPin /\ at'[p] \in {"bind", "remember"}
    BY <1>8 DEF Confirm
  <2>4. QED
    BY <2>1, <2>2, <2>3
<1>9. CASE RememberProject(p) \/ BindProject(p)
  <2>1. Current(p)' = Current(p)
    BY <1>0, <1>9 DEF RememberProject, BindProject, Steady, Bound, Current
  <2>2. QED
    BY <1>0, <1>9, <2>1 DEF RememberProject, BindProject
<1>10. CASE WritePin(p)
  <2>1. at[p] = "writePin" /\ at'[p] \in {"idle", "refresh", "verifyProject"}
        /\ seen'[p] \in {seen[p], NoPin}
    BY <1>10 DEF WritePin, Ends
  <2>2. Repo(u) = Current(p)
    BY <1>0, <2>1 DEF Steady, Loaded, Bound, Repo, Current
  <2>3. QED
    BY <1>0, <2>1, <2>2
<1>11. CASE Put(p)
  <2>1. Current(p)' = Current(p)
    BY <1>11 DEF Put, Current
  <2>2. QED
    BY <1>0, <1>11, <2>1 DEF Put
<1>12. CASE StartSeal(p) \/ SealLoads(p) \/ GuardGet(p) \/ GuardProject(p) \/ Guard(p)
           \/ GuardUnread(p)
  BY <1>0, <1>12 DEF StartSeal, SealLoads, GuardGet, GuardProject, Guard, GuardUnread
<1>13. CASE RefreshReads(p) \/ RefreshWrites(p) \/ Stop(p)
  BY <1>0, <1>13 DEF RefreshReads, RefreshWrites, Stop, Ends
<1>14. CASE ~OwnStep(p)
  BY <1>0, <1>14, OthersStay DEF mine, Current
<1>15. QED
  BY <1>1, <1>2, <1>3, <1>4, <1>5, <1>6, <1>7, <1>8, <1>9, <1>10, <1>11, <1>12,
     <1>13, <1>14 DEF OwnStep, ChecksPin, Seals

(* The pins: AdoptProject pins what it trusts, WritePin what was accepted. *)
LEMMA NextPinShown ==
    ASSUME TypeOK, PinShown, \A q \in Proc : Shown(q), [Next]_vars
    PROVE  PinShown'
<1> USE DEF TypeOK
<1>0. \A u \in User : accepted[u] \subseteq accepted'[u]
  BY AcceptedStays
<1>1. ASSUME NEW p \in Proc, AdoptProject(p) PROVE PinShown'
  BY <1>0, <1>1, FunctionsAssumption DEF AdoptProject, Pins, Trusts, PinShown
<1>2. ASSUME NEW p \in Proc, WritePin(p) PROVE PinShown'
  <2>1. Current(p) \in accepted[Owner[p]]
    BY <1>2 DEF WritePin, Shown
  <2>2. pin' = [pin EXCEPT ![Owner[p]] = Current(p)]
    BY <1>2 DEF WritePin, Pins, Remembered
  <2>3. QED
    BY <1>0, <2>1, <2>2 DEF PinShown
<1>3. CASE UNCHANGED pin
  BY <1>0, <1>3 DEF PinShown
<1>4. QED
  BY <1>1, <1>2, <1>3, PinSteps

LEMMA QuietHolds == ASSUME Quiet PROVE Spec => []QuietInv
<1>1. Inv /\ QuietInv /\ [Next]_vars => QuietInv'
  BY NextSteady, NextShown, NextPinShown DEF Inv, QuietInv
<1>2. QED
  BY InitQuiet, Invariance, <1>1, PTL DEF Spec

(* In a repository that does not change under a command, a machine pins    *)
(* the very list and project its user accepted together.                   *)
THEOREM PinsAreShown == ASSUME Quiet PROVE Spec => []PinShown
BY QuietHolds, PTL DEF QuietInv

(* And a blob is used only if its signer, with that signing key, and its   *)
(* project stand in one list and project accepted on this machine, however *)
(* many commands of however many users run at the same time.               *)
THEOREM VerificationIsTrusted == ASSUME Quiet PROVE Spec => TrustedVerification
<1> DEFINE Trusted == \A p \in Proc : Verify(p) =>
                         \E q \in accepted[Owner[p]] :
                            /\ base[p].project = q.project
                            /\ \E m \in q.members : /\ m.name = base[p].signer
                                                    /\ m.sign = base[p].sign
<1>1. QuietInv => Trusted
  <2> SUFFICES ASSUME QuietInv, NEW p \in Proc, Verify(p)
               PROVE  \E q \in accepted[Owner[p]] :
                         /\ base[p].project = q.project
                         /\ \E m \in q.members : /\ m.name = base[p].signer
                                                 /\ m.sign = base[p].sign
    OBVIOUS
  <2>1. at[p] = "verify" /\ Verified(base[p], project[p], rec[Owner[p]], FALSE)
    BY DEF Verify, Goes
  <2>2. base[p].project = cfg[Owner[p]]
    BY <2>1 DEF QuietInv, Steady, Bound, Verified
  <2>3. Repo(Owner[p]) \in accepted[Owner[p]]
    BY <2>1 DEF QuietInv, Shown, Verified
  <2>4. QED
    BY <2>1, <2>2, <2>3 DEF Repo, Verified
<1>2. QED
  BY QuietHolds, <1>1, PTL DEF TrustedVerification

----------------------------------------------------------------------------
(* One command at a time: nothing comes between the blob a seal has read   *)
(* and the one it overwrites, nor between the one it has put and the pin.  *)
OneCommand == \A p, q \in Proc : p = q

Undisturbed(p) ==
    /\ Sealing(p) /\ at[p] \in Decided \cup {"guardProject", "guard"} => prev[p] = store
    /\ op[p] = "reseal" /\ at[p] \in Decided \cup InSeal => cur[p] = store

LEMMA NextUndisturbed ==
    ASSUME OneCommand, TypeOK, \A q \in Proc : Locals(q) /\ Undisturbed(q), [Next]_vars,
           NEW p \in Proc
    PROVE  Undisturbed(p)'
<1> USE DEF TypeOK, Undisturbed, Sealing, Decided, InSeal, Goes, locals, world
<1>0. /\ Undisturbed(p) /\ Locals(p)
      /\ Put(p) \/ UNCHANGED store
  BY OnlyPutStores DEF OneCommand
<1>1. CASE Refetch(p)
  BY <1>0, <1>1 DEF Refetch
<1>2. CASE Reads(p) /\ ~Refetch(p)
  <2>1. at'[p] \in {"idle", "fetch", "pinMembers", "project", "verifyProject", "verify",
                    "use", "write", "refetch"}
    BY <1>2 DEF Reads, Start, Fetch, PinMembers, VerifyProject, Verify, Inject,
                OpenCompares, OpenWrites, EditText, Ends
  <2>2. at'[p] = "project" => PinMembers(p)
    BY <1>2 DEF Reads, Start, Fetch, PinMembers, VerifyProject, Verify, Inject,
                OpenCompares, OpenWrites, EditText, Ends
  <2>3. PinMembers(p) => op'[p] = op[p] /\ ~Sealing(p)
    BY <1>0 DEF PinMembers, Locals, InRead
  <2>4. QED
    BY <2>1, <2>2, <2>3
<1>3. CASE PinProject(p) \/ PinRead(p) \/ AdoptProject(p)
  BY <1>0, <1>3 DEF PinProject, PinRead, AdoptProject
<1>4. CASE Unchanged(p) \/ Confirm(p)
  BY <1>0, <1>4 DEF Unchanged, Confirm
<1>5. CASE RememberProject(p) \/ WritePin(p)
  BY <1>5 DEF RememberProject, WritePin, Ends
<1>6. CASE StartSeal(p) \/ SealLoads(p) \/ GuardGet(p)
  BY <1>0, <1>6 DEF StartSeal, SealLoads, GuardGet
<1>7. CASE GuardProject(p) \/ Guard(p) \/ GuardUnread(p) \/ BindProject(p)
  BY <1>0, <1>7 DEF GuardProject, Guard, GuardUnread, BindProject
<1>8. CASE Put(p) \/ RefreshReads(p) \/ RefreshWrites(p) \/ Stop(p)
  BY <1>8 DEF Put, RefreshReads, RefreshWrites, Stop, Ends
<1>9. CASE ~OwnStep(p)
  BY <1>0, <1>9, OthersStay DEF mine, OwnStep, Seals
<1>10. QED
  BY <1>1, <1>2, <1>3, <1>4, <1>5, <1>6, <1>7, <1>8, <1>9 DEF OwnStep, ChecksPin, Seals

LEMMA UndisturbedHolds == ASSUME OneCommand PROVE Spec => [](\A p \in Proc : Undisturbed(p))
<1>1. Init => \A p \in Proc : Undisturbed(p)
  BY DEF Init, Undisturbed, Sealing, Decided, InSeal
<1>2. Inv /\ (\A p \in Proc : Undisturbed(p)) /\ [Next]_vars => (\A p \in Proc : Undisturbed(p))'
  BY NextUndisturbed DEF Inv
<1>3. QED
  BY <1>1, <1>2, Invariance, PTL DEF Spec

(* With one command at a time nobody loses access silently to the blob     *)
(* that is overwritten, pulls between any two steps or not.                *)
THEOREM NoLockoutAlone == ASSUME OneCommand PROVE Spec => NoLockoutAtPut
<1> DEFINE Kept == \A p \in Proc : Put(p) /\ store # NoBlob =>
                      store.to \subseteq store'.to \cup told[p]
<1>1. Inv /\ Warnings /\ (\A p \in Proc : Undisturbed(p)) => Kept
  <2> SUFFICES ASSUME Inv, Warnings, \A q \in Proc : Undisturbed(q),
                      NEW p \in Proc, Put(p), store # NoBlob
               PROVE  store.to \subseteq store'.to \cup told[p]
    OBVIOUS
  <2>1. Sealing(p) /\ at[p] \in Decided
    BY DEF Inv, Put, Goes, Locals, InSeal, Decided
  <2>2. prev[p] = store
    BY <2>1 DEF Undisturbed
  <2>3. store'.to = KeysOf(members[p])
    BY PutStores DEF Inv
  <2>4. QED
    BY <2>1, <2>2, <2>3 DEF Warnings, Consented
<1>2. QED
  BY Invariance, WarningsHold, UndisturbedHolds, <1>1, PTL DEF NoLockoutAtPut

(* And edit overwrites only the blob it has fetched again and asked about. *)
THEOREM EditAloneWarns == ASSUME OneCommand PROVE Spec => EditWarnsOfReseal
<1> DEFINE Warns == \A p \in Proc : Put(p) /\ op[p] = "reseal" => store = cur[p]
<1>1. (\A p \in Proc : Undisturbed(p)) => Warns
  BY DEF Undisturbed, Put, Goes, InSeal
<1>2. QED
  BY UndisturbedHolds, <1>1, PTL DEF EditWarnsOfReseal

----------------------------------------------------------------------------
(* What a seal has put is there, for the list and the project in hand,     *)
(* when the pin is written.                                                *)
Stored(p) ==
    Sealing(p) /\ at[p] \in {"remember", "writePin"} =>
        /\ store.to = KeysOf(members[p])
        /\ store.signer = Self(p).name
        /\ store.sign = Derive[Key1(p)]
        /\ store.project = project[p]

LEMMA NextStored ==
    ASSUME OneCommand, TypeOK, \A q \in Proc : Locals(q) /\ Steady(q) /\ Stored(q),
           [Next]_vars, NEW p \in Proc
    PROVE  Stored(p)'
<1> USE DEF TypeOK, Stored, Sealing, Goes, locals, Self, Key1
<1>0. /\ Stored(p) /\ Locals(p) /\ Steady(p)
      /\ Put(p) \/ UNCHANGED store
  BY OnlyPutStores DEF OneCommand
<1>1. CASE Put(p)
  <2>1. at'[p] = "remember" /\ UNCHANGED <<members[p], project[p]>>
    BY <1>1 DEF Put
  <2>2. QED
    BY <1>0, <1>1, <2>1, PutStores
<1>2. CASE RememberProject(p)
  <2>1. project'[p] = project[p]
    BY <1>0, <1>2 DEF RememberProject, Steady, Bound
  <2>2. QED
    BY <1>0, <1>2, <2>1 DEF RememberProject, world
<1>3. CASE Confirm(p) \/ Unchanged(p)
  BY <1>3 DEF Confirm, Unchanged
<1>4. CASE PinProject(p) \/ PinRead(p) \/ AdoptProject(p) \/ WritePin(p)
  BY <1>4 DEF PinProject, PinRead, AdoptProject, WritePin, Ends
<1>5. CASE Reads(p)
  BY <1>5 DEF Reads, Start, Fetch, PinMembers, VerifyProject, Verify, Inject,
              OpenCompares, OpenWrites, EditText, Refetch, Ends
<1>6. CASE Seals(p) /\ ~Put(p)
  BY <1>6 DEF Seals, StartSeal, SealLoads, GuardGet, GuardProject, Guard,
              GuardUnread, BindProject, RefreshReads, RefreshWrites, Ends
<1>7. CASE Stop(p)
  BY <1>7 DEF Stop, Ends
<1>8. CASE ~OwnStep(p)
  BY <1>0, <1>8, OthersStay DEF mine, OwnStep, Seals
<1>9. QED
  BY <1>1, <1>2, <1>3, <1>4, <1>5, <1>6, <1>7, <1>8 DEF OwnStep, ChecksPin

(* In a quiet repository, and with one command at a time, a seal leaves a  *)
(* blob that its sealer can open at once: it decrypts, it verifies against *)
(* the repository as it is, and the pin about to be written matches it.    *)
THEOREM SealsOpen == ASSUME Quiet, OneCommand PROVE Spec => []SealThenOpen
<1>1. Init => \A p \in Proc : Stored(p)
  BY DEF Init, Stored
<1>2. Inv /\ QuietInv /\ (\A p \in Proc : Stored(p)) /\ [Next]_vars
         => (\A p \in Proc : Stored(p))'
  BY NextStored DEF Inv, QuietInv
<1>3. Inv /\ QuietInv /\ (\A p \in Proc : Stored(p)) => SealThenOpen
  <2> SUFFICES ASSUME Inv, QuietInv, \A q \in Proc : Stored(q),
                      NEW p \in Proc, at[p] = "writePin", Sealing(p)
               PROVE  /\ CanDecrypt(store, Key1(p))
                      /\ Verified(store, cfg[Owner[p]], rec[Owner[p]], FALSE)
                      /\ Remembered(p) = Repo(Owner[p])
    BY DEF SealThenOpen, Repo
  <2>1. Loadable(members[p]) /\ Listed(p, members[p])
    BY DEF Inv, Locals
  <2>2. /\ Self(p) \in members[p]
        /\ Self(p).key = Key1(p)
        /\ Self(p).sign = Derive[Key1(p)]
    BY <2>1, SelfIsListed
  <2>3. members[p] = rec[Owner[p]] /\ project[p] = cfg[Owner[p]]
    BY DEF QuietInv, Steady, Loaded, Bound
  <2>4. CanDecrypt(store, Key1(p))
    BY <2>2 DEF Stored, CanDecrypt, KeysOf
  <2>5. Verified(store, project[p], members[p], FALSE)
    BY <2>1, <2>2 DEF Stored, Verified
  <2>6. QED
    BY <2>3, <2>4, <2>5 DEF Remembered, Current, Repo
<1>4. QED
  BY Invariance, QuietHolds, <1>1, <1>2, <1>3, PTL DEF Spec
============================================================================
