------------------------------- MODULE Shenv -------------------------------
(***************************************************************************)
(* seal, open, run and edit (src/internal/command), interleaved at every   *)
(* read of a file, call of the backend and prompt.                         *)
(*                                                                         *)
(* A user has one machine with one checkout: the recipients list, the      *)
(* project id of config.shenv, the local .env, and the pin under           *)
(* ~/.shenv/state that records the list and project this machine last      *)
(* accepted.  All users share the store behind the backend.  The commands  *)
(* take no lock, and the backend has no compare-and-swap.                  *)
(*                                                                         *)
(* An action's guard holds the checks its step passes, and every question  *)
(* it asks is answered yes.  A check that fails, a question declined, a    *)
(* read or write that fails, ^C and a crash are all Stop: the command is   *)
(* gone and what it wrote so far stays.                                    *)
(***************************************************************************)
EXTENDS Payload

CONSTANTS User, Proc,
          Owner,       \* whose machine a command runs on
          KeyOf,       \* a user's age public key
          Derive,      \* the signing key an age identity determines
          Ops,         \* the commands that are started
          NoBlob, NoEnv, NoPin,
          Unrecorded,  \* a pin written before pins recorded the project
          InitBlobs,   \* what the store may hold at the start
          InitPins,    \* what a machine may have pinned at the start
          RepoFiles,   \* recipients lists a pull, a merge or an edit can bring
          MaxSeals,    \* bound on the blobs put
          MaxMoves,    \* bound on the changes made outside the program
          Quiet        \* the repo's files change only between a user's commands

ASSUME FunctionsAssumption == /\ Owner \in [Proc -> User]
                              /\ KeyOf \in [User -> Key]
                              /\ Derive \in [Key -> SignKey]
ASSUME EnvAssumption == NoEnv \notin Env
ASSUME RepoAssumption == RepoFiles \subseteq File
ASSUME BoundsAssumption == MaxSeals \in Nat /\ MaxMoves \in Nat /\ Quiet \in BOOLEAN
(* Every signed blob comes from SealPayload: it is encrypted for its manifest. *)
ASSUME BlobsAssumption ==
    /\ InitBlobs \subseteq Blob
    /\ NoBlob \notin Blob
    /\ \A b \in InitBlobs : /\ b.ver = 0
                            /\ b.signer # NoSigner => b.to = KeysOf(b.manifest)

Pin == [members : File, project : AnyProject \cup {Unrecorded}]

ASSUME PinsAssumption == /\ InitPins \subseteq Pin
                         /\ NoPin \notin Pin
                         /\ Unrecorded \notin AnyProject

VARIABLES store,     \* the blob behind the backend
          rec, cfg,  \* per user: recipients.shenv, the project in config.shenv
          env, pin,  \* per user: the local .env, the pinned list and project
          accepted,  \* per user: the lists and projects confirmed or trusted
                     \* on first use; history, the program does not keep it
          moves,     \* how many changes were made outside the program
          at, op,    \* per command: its next step, and what it was started as
          members, project, base, cur, prev, plain, seen,  \* its local variables
          told       \* keys a yes to one of its questions gave up; history

repo    == <<rec, cfg>>
world   == <<store, repo, moves>>
machine == <<env, pin, accepted>>
locals  == <<op, members, project, base, cur, prev, plain, seen, told>>
vars    == <<world, machine, at, locals>>

Steps == {"idle", "fetch", "pinMembers", "project", "pinRead", "adopt",
          "compare", "remember", "writePin", "verifyProject", "verify", "use",
          "write", "refetch", "load", "guardGet", "guardProject", "guard",
          "bind", "put", "refresh", "rewrite"}

TypeOK ==
    /\ store \in Blob \cup {NoBlob}
    /\ rec \in [User -> File]
    /\ cfg \in [User -> AnyProject]
    /\ env \in [User -> Env \cup {NoEnv}]
    /\ pin \in [User -> Pin \cup {NoPin}]
    /\ accepted \in [User -> SUBSET Pin]
    /\ moves \in Nat
    /\ at \in [Proc -> Steps]
    /\ op \in [Proc -> {"none", "seal", "open", "run", "edit", "reseal"}]
    /\ members \in [Proc -> File]
    /\ project \in [Proc -> AnyProject]
    /\ base \in [Proc -> Blob \cup {NoBlob}]
    /\ cur \in [Proc -> Blob \cup {NoBlob}]
    /\ prev \in [Proc -> Blob \cup {NoBlob}]
    /\ plain \in [Proc -> Env \cup {NoEnv}]
    /\ seen \in [Proc -> Pin \cup {NoPin}]
    /\ told \in [Proc -> SUBSET Key]

Init ==
    /\ store \in InitBlobs \cup {NoBlob}
    /\ rec \in [User -> RepoFiles]
    /\ cfg \in [User -> AnyProject]
    /\ env \in [User -> Env \cup {NoEnv}]
    /\ pin \in [User -> InitPins \cup {NoPin}]
    /\ accepted = [u \in User |-> {pin[u]} \ {NoPin}]
    /\ moves = 0
    /\ at = [p \in Proc |-> "idle"]
    /\ op = [p \in Proc |-> "none"]
    /\ members = [p \in Proc |-> {}]
    /\ project = [p \in Proc |-> NoProject]
    /\ base = [p \in Proc |-> NoBlob]
    /\ cur = [p \in Proc |-> NoBlob]
    /\ prev = [p \in Proc |-> NoBlob]
    /\ plain = [p \in Proc |-> NoEnv]
    /\ seen = [p \in Proc |-> NoPin]
    /\ told = [p \in Proc |-> {}]

----------------------------------------------------------------------------
Sealing(p) == op[p] \in {"seal", "reseal"}
Key1(p)    == KeyOf[Owner[p]]

Goes(p, from, to) == at[p] = from /\ at' = [at EXCEPT ![p] = to]

(* The command is over, and its local variables are gone. *)
Ends(p) ==
    /\ at' = [at EXCEPT ![p] = "idle"]
    /\ op' = [op EXCEPT ![p] = "none"]
    /\ members' = [members EXCEPT ![p] = {}]
    /\ project' = [project EXCEPT ![p] = NoProject]
    /\ base' = [base EXCEPT ![p] = NoBlob]
    /\ cur' = [cur EXCEPT ![p] = NoBlob]
    /\ prev' = [prev EXCEPT ![p] = NoBlob]
    /\ plain' = [plain EXCEPT ![p] = NoEnv]
    /\ seen' = [seen EXCEPT ![p] = NoPin]
    /\ told' = [told EXCEPT ![p] = {}]

Stop(p) == /\ at[p] # "idle"
           /\ Ends(p)
           /\ UNCHANGED <<world, machine>>

----------------------------------------------------------------------------
(* Seal reads the .env it is to encrypt. *)
StartSeal(p) ==
    /\ "seal" \in Ops
    /\ Goes(p, "idle", "load")
    /\ env[Owner[p]] # NoEnv
    /\ op' = [op EXCEPT ![p] = "seal"]
    /\ plain' = [plain EXCEPT ![p] = env[Owner[p]]]
    /\ UNCHANGED <<world, machine, members, project, base, cur, prev, seen, told>>

Start(p, o) ==
    /\ o \in Ops \ {"seal"}
    /\ Goes(p, "idle", "fetch")
    /\ op' = [op EXCEPT ![p] = o]
    /\ UNCHANGED <<world, machine, members, project, base, cur, prev, plain, seen, told>>

(* Get the blob, load the identity and decrypt with it. *)
Fetch(p) ==
    /\ Goes(p, "fetch", "pinMembers")
    /\ store # NoBlob
    /\ CanDecrypt(store, Key1(p))
    /\ base' = [base EXCEPT ![p] = store]
    /\ UNCHANGED <<world, machine, op, members, project, cur, prev, plain, seen, told>>

----------------------------------------------------------------------------
(* confirmPinnedRecipients (reading) and confirmRecipients (sealing): the  *)
(* list in memory and the project id in config.shenv against the pin.      *)

(* An empty list skips the pin: verification fails on it, unless the file  *)
(* changes before verifiedBody loads it again.                             *)
PinMembers(p) ==
    /\ LET f == rec[Owner[p]]
       IN /\ Loadable(f)
          /\ Goes(p, "pinMembers", IF f = {} THEN "verifyProject" ELSE "project")
          /\ members' = [members EXCEPT ![p] = f]
    /\ UNCHANGED <<world, machine, op, project, base, cur, prev, plain, seen, told>>

PinProject(p) ==
    /\ Goes(p, "project", "pinRead")
    /\ project' = [project EXCEPT ![p] = cfg[Owner[p]]]
    /\ UNCHANGED <<world, machine, op, members, base, cur, prev, plain, seen, told>>

PinRead(p) ==
    /\ LET q == pin[Owner[p]]
       IN /\ Goes(p, "pinRead", IF q # NoPin /\ q.project = Unrecorded THEN "adopt"
                                                                       ELSE "compare")
          /\ seen' = [seen EXCEPT ![p] = q]
    /\ UNCHANGED <<world, machine, op, members, project, base, cur, prev, plain, told>>

Pins(u, q) == pin' = [pin EXCEPT ![u] = q]
Trusts(u, q) == accepted' = [accepted EXCEPT ![u] = @ \cup {q}]

(* loadPin gives an older pin the project the repo has now. *)
AdoptProject(p) ==
    /\ Goes(p, "adopt", "compare")
    /\ LET q == [members |-> seen[p].members, project |-> project[p]]
       IN /\ Pins(Owner[p], q)
          /\ Trusts(Owner[p], q)
          /\ seen' = [seen EXCEPT ![p] = q]
    /\ UNCHANGED <<world, env, op, members, project, base, cur, prev, plain, told>>

Current(p) == [members |-> members[p], project |-> project[p]]

(* Mutant: only what was added since the pin is asked about. *)
MatchesOrFewer(p) ==
    /\ seen[p] # NoPin
    /\ members[p] \subseteq seen[p].members
    /\ seen[p].project = project[p]

Matches(p) == seen[p] = Current(p)

Unchanged(p) ==
    /\ Goes(p, "compare", IF Sealing(p) THEN "bind" ELSE "verifyProject")
    /\ Matches(p)
    /\ seen' = [seen EXCEPT ![p] = NoPin]
    /\ UNCHANGED <<world, machine, op, members, project, base, cur, prev, plain, told>>

(* No pin yet, or a changed list or project: reading trusts the first use  *)
(* and asks about a change; sealing asks about both, except on a first     *)
(* seal for nobody but oneself.  SHENV_TRUST_RECIPIENTS=1 is a yes given   *)
(* in advance.  Reading then records the pin, sealing does so after Put.   *)
Confirm(p) ==
    /\ Goes(p, "compare", IF Sealing(p) THEN "bind" ELSE "remember")
    /\ ~Matches(p)
    /\ Trusts(Owner[p], Current(p))
    /\ seen' = [seen EXCEPT ![p] = NoPin]
    /\ UNCHANGED <<world, env, pin, op, members, project, base, cur, prev, plain, told>>

(* rememberRecipients reads the project again and writes the pin. *)
RememberProject(p) ==
    /\ Goes(p, "remember", "writePin")
    /\ project' = [project EXCEPT ![p] = cfg[Owner[p]]]
    /\ UNCHANGED <<world, machine, op, members, base, cur, prev, plain, seen, told>>

(* Mutant: the list is read again as well, as the project is. *)
RememberedFromFile(p) == [members |-> rec[Owner[p]], project |-> project[p]]

(* Mutant: only the list is remembered. *)
RememberedListOnly(p) == [members |-> members[p], project |-> NoProject]

Remembered(p) == Current(p)

WritePin(p) ==
    /\ at[p] = "writePin"
    /\ Pins(Owner[p], Remembered(p))
    /\ \/ op[p] = "seal" /\ Ends(p)
       \/ op[p] = "reseal" /\ Goes(p, "writePin", "refresh") /\ UNCHANGED locals
       \/ ~Sealing(p) /\ Goes(p, "writePin", "verifyProject") /\ UNCHANGED locals
    /\ UNCHANGED <<world, env, accepted>>

----------------------------------------------------------------------------
(* verifiedBody, after the pin is settled: both files are read again. *)
VerifyProject(p) ==
    /\ Goes(p, "verifyProject", "verify")
    /\ project' = [project EXCEPT ![p] = cfg[Owner[p]]]
    /\ UNCHANGED <<world, machine, op, members, base, cur, prev, plain, seen, told>>

Verify(p) ==
    /\ Goes(p, "verify", "use")
    /\ Verified(base[p], project[p], rec[Owner[p]], FALSE)
    /\ UNCHANGED <<world, machine, locals>>

(* run hands the contents to the child and writes no file. *)
Inject(p) == /\ at[p] = "use" /\ op[p] = "run"
             /\ Ends(p)
             /\ UNCHANGED <<world, machine>>

(* open compares the local .env, and asks before it overwrites a different *)
(* one; then it writes whatever the file has become.                       *)
OpenCompares(p) ==
    /\ Goes(p, "use", "write")
    /\ op[p] = "open"
    /\ UNCHANGED <<world, machine, locals>>

OpenWrites(p) ==
    /\ at[p] = "write"
    /\ env' = [env EXCEPT ![Owner[p]] = ContentsOf(base[p])]
    /\ Ends(p)
    /\ UNCHANGED <<world, pin, accepted>>

(* The editor returns other contents; saving the same ends the command. *)
EditText(p, e) ==
    /\ Goes(p, "use", "refetch")
    /\ op[p] = "edit"
    /\ e # ContentsOf(base[p])
    /\ plain' = [plain EXCEPT ![p] = e]
    /\ UNCHANGED <<world, machine, op, members, project, base, cur, prev, seen, told>>

(* The blob is fetched again; another one than before is asked about. *)
Refetch(p) ==
    /\ Goes(p, "refetch", "load")
    /\ store # NoBlob
    /\ op' = [op EXCEPT ![p] = "reseal"]
    /\ cur' = [cur EXCEPT ![p] = store]
    /\ UNCHANGED <<world, machine, members, project, base, prev, plain, seen, told>>

----------------------------------------------------------------------------
(* sealEnv, for seal and for edit's changed contents. *)

(* Mutant: the entry in the list may hold a signing key of an older identity. *)
ListedByKey(p, f) == \E m \in f : m.key = Key1(p)

(* One's own entry must be there, with the signing key of this identity. *)
Listed(p, f) == \E m \in f : m.key = Key1(p) /\ m.sign = Derive[Key1(p)]

SealLoads(p) ==
    /\ Goes(p, "load", "guardGet")
    /\ Loadable(rec[Owner[p]])
    /\ Listed(p, rec[Owner[p]])
    /\ members' = [members EXCEPT ![p] = rec[Owner[p]]]
    /\ UNCHANGED <<world, machine, op, project, base, cur, prev, plain, seen, told>>

(* confirmNoLockout: nothing to guard if there is no blob; a blob this key *)
(* cannot decrypt is overwritten on a yes, whoever it is for.              *)
GuardGet(p) ==
    /\ prev' = [prev EXCEPT ![p] = store]
    /\ \/ /\ store = NoBlob
          /\ Goes(p, "guardGet", "project")
          /\ UNCHANGED told
       \/ /\ store # NoBlob /\ ~CanDecrypt(store, Key1(p))
          /\ Goes(p, "guardGet", "project")
          /\ told' = [told EXCEPT ![p] = Key]
       \/ /\ store # NoBlob /\ CanDecrypt(store, Key1(p))
          /\ Goes(p, "guardGet", "guardProject")
          /\ UNCHANGED told
    /\ UNCHANGED <<world, machine, op, members, project, base, cur, plain, seen>>

GuardProject(p) ==
    /\ Goes(p, "guardProject", "guard")
    /\ project' = [project EXCEPT ![p] = cfg[Owner[p]]]
    /\ UNCHANGED <<world, machine, op, members, base, cur, prev, plain, seen, told>>

(* Mutant: who would lose access is decided by name. *)
DroppedByName(p) == {m \in MembersIn(prev[p]) : ~HasName(members[p], m.name)}

Dropped(p) == {m \in MembersIn(prev[p]) : ~HasKey(members[p], m.key)}

PrevVerified(p) == Verified(prev[p], project[p], rec[Owner[p]], TRUE)

(* Mutant: a blob that does not verify is taken for no blob. *)
WarnedIfVerified(p) == IF PrevVerified(p) THEN KeysOf(Dropped(p)) ELSE {}

(* A blob that does not verify is overwritten on a yes; one that does      *)
(* names the members about to be locked out, which takes a yes as well.    *)
Warned(p) == IF PrevVerified(p) THEN KeysOf(Dropped(p)) ELSE Key

Guard(p) ==
    /\ Goes(p, "guard", "project")
    /\ told' = [told EXCEPT ![p] = Warned(p)]
    /\ UNCHANGED <<world, machine, op, members, project, base, cur, prev, plain, seen>>

(* If the project or the list cannot be read for it, that is no error, but *)
(* a blob that does not verify.                                            *)
GuardUnread(p) ==
    /\ at[p] \in {"guardProject", "guard"}
    /\ at' = [at EXCEPT ![p] = "project"]
    /\ told' = [told EXCEPT ![p] = Key]
    /\ UNCHANGED <<world, machine, op, members, project, base, cur, prev, plain, seen>>

(* After confirmRecipients, the project is read again for the signature. *)
BindProject(p) ==
    /\ Goes(p, "bind", "put")
    /\ project' = [project EXCEPT ![p] = cfg[Owner[p]]]
    /\ UNCHANGED <<world, machine, op, members, base, cur, prev, plain, seen, told>>

Self(p)  == CHOOSE m \in members[p] : m.key = Key1(p)
NextVer  == IF store = NoBlob THEN 1 ELSE store.ver + 1

(* The signature is made with the identity's key, not with the one listed. *)
Put(p) ==
    /\ Goes(p, "put", "remember")
    /\ NextVer <= MaxSeals
    /\ store' = Sealed(NextVer, members[p], [Self(p) EXCEPT !.sign = Derive[Key1(p)]],
                       project[p], plain[p])
    /\ UNCHANGED <<repo, machine, moves, locals>>

(* refreshLocalEnv: only a .env that held the old contents is brought up   *)
(* to date.                                                                *)
RefreshReads(p) ==
    /\ at[p] = "refresh"
    /\ \/ /\ env[Owner[p]] = ContentsOf(base[p])
          /\ Goes(p, "refresh", "rewrite")
          /\ UNCHANGED locals
       \/ env[Owner[p]] # ContentsOf(base[p]) /\ Ends(p)
    /\ UNCHANGED <<world, machine>>

RefreshWrites(p) ==
    /\ at[p] = "rewrite"
    /\ env' = [env EXCEPT ![Owner[p]] = plain[p]]
    /\ Ends(p)
    /\ UNCHANGED <<world, pin, accepted>>

----------------------------------------------------------------------------
(* Outside these commands: a git pull, add-member, remove-member or an     *)
(* editor changes the repo's files; the user edits .env.                   *)
Idle(u) == \A p \in Proc : Owner[p] = u => at[p] = "idle"

Moves(u) == /\ moves < MaxMoves
            /\ moves' = moves + 1
            /\ Quiet => Idle(u)

NewMembers(u, f) == /\ Moves(u)
                    /\ rec' = [rec EXCEPT ![u] = f]
                    /\ UNCHANGED <<store, cfg, machine, at, locals>>

NewProject(u, c) == /\ Moves(u)
                    /\ cfg' = [cfg EXCEPT ![u] = c]
                    /\ UNCHANGED <<store, rec, machine, at, locals>>

NewEnv(u, e) == /\ Moves(u)
                /\ env' = [env EXCEPT ![u] = e]
                /\ UNCHANGED <<store, repo, pin, accepted, at, locals>>

Reads(p) == \/ \E o \in {"open", "run", "edit"} : Start(p, o)
            \/ Fetch(p)
            \/ PinMembers(p)
            \/ VerifyProject(p)
            \/ Verify(p)
            \/ Inject(p)
            \/ OpenCompares(p)
            \/ OpenWrites(p)
            \/ \E e \in Env : EditText(p, e)
            \/ Refetch(p)

ChecksPin(p) == \/ PinProject(p)
                \/ PinRead(p)
                \/ AdoptProject(p)
                \/ Unchanged(p)
                \/ Confirm(p)
                \/ RememberProject(p)
                \/ WritePin(p)

Seals(p) == \/ StartSeal(p)
            \/ SealLoads(p)
            \/ GuardGet(p)
            \/ GuardProject(p)
            \/ Guard(p) \/ GuardUnread(p)
            \/ BindProject(p)
            \/ Put(p)
            \/ RefreshReads(p)
            \/ RefreshWrites(p)

Outside == \E u \in User : \/ \E f \in RepoFiles : NewMembers(u, f)
                           \/ \E c \in AnyProject : NewProject(u, c)
                           \/ \E e \in Env \cup {NoEnv} : NewEnv(u, e)

Next == \/ \E p \in Proc : Reads(p) \/ ChecksPin(p) \/ Seals(p) \/ Stop(p)
        \/ Outside

Spec == Init /\ [][Next]_vars

----------------------------------------------------------------------------
(* What holds of a command's local variables at each of its steps. *)
InSeal == {"load", "guardGet", "guardProject", "guard", "bind", "put"}
InRead == {"fetch", "pinMembers", "verifyProject", "verify", "use", "write", "refetch"}
InEdit == {"refresh", "rewrite"}

Locals(p) ==
    /\ at[p] \in InSeal => Sealing(p)
    /\ at[p] \in InRead => ~Sealing(p)
    /\ at[p] \in InEdit => op[p] = "reseal"
    /\ op[p] = "reseal" => base[p] # NoBlob
    /\ ~Sealing(p) /\ at[p] \notin {"idle", "fetch"} => base[p] # NoBlob
    /\ Sealing(p) \/ at[p] = "refetch" => plain[p] # NoEnv
    /\ at[p] \in {"guardProject", "guard"} => prev[p] # NoBlob
    /\ at[p] = "adopt" => seen[p] # NoPin
    /\ Sealing(p) /\ at[p] # "load" => Loadable(members[p]) /\ Listed(p, members[p])

AcceptedMembers(u) == {q.members : q \in accepted[u]}

(* The list a command holds once past the pin was accepted on its machine, *)
(* and so was the pin it read.                                             *)
Confirmed(p) ==
    /\ seen[p] # NoPin => seen[p].members \in AcceptedMembers(Owner[p])
    /\ at[p] \in {"remember", "writePin", "bind", "put"} =>
          members[p] \in AcceptedMembers(Owner[p])

(* A machine never pins a member list its user did not accept there,       *)
(* whichever commands overlap and whatever a pull brings meanwhile: the    *)
(* list recorded is the one shown, not the file's (guard.go:348-356).      *)
PinAccepted == \A u \in User : pin[u] # NoPin => pin[u].members \in AcceptedMembers(u)

(* In a repo that does not change under a command the same holds of the    *)
(* project: what is pinned with the list is the project the user accepted  *)
(* it with, though it is read a second time for the pin and, for a pin of  *)
(* an older version, adopted from the repo (guard.go:350-356, 382-390).    *)
PinShown == \A u \in User : pin[u] # NoPin => pin[u] \in accepted[u]

(* The secrets are only ever sealed for a member list that the sealer's    *)
(* machine showed and its user accepted, so no list slipped in by a pull   *)
(* between the question and the encryption receives them                   *)
(* (command.go:334-359).                                                   *)
SealedForAccepted ==
    store # NoBlob /\ store.ver > 0 =>
        \E u \in User : /\ store.sign = Derive[KeyOf[u]]
                        /\ store.manifest \in AcceptedMembers(u)
                        /\ store.to = KeysOf(store.manifest)

(* Nobody seals what they could not open, or what nobody could attribute:  *)
(* the sealer decrypts it, and it verifies as theirs for everyone who has  *)
(* the member list and the project it was sealed with (command.go:310-332).*)
SealerCanOpen ==
    store # NoBlob /\ store.ver > 0 =>
        /\ \E u \in User : /\ CanDecrypt(store, KeyOf[u])
                           /\ \E m \in store.manifest : /\ m.name = store.signer
                                                         /\ m.key = KeyOf[u]
                                                         /\ m.sign = store.sign
        /\ Verified(store, store.project, store.manifest, FALSE)

(* The properties' common inductive strengthening. *)
Inv == /\ TypeOK
       /\ \A p \in Proc : Locals(p) /\ Confirmed(p)
       /\ PinAccepted
       /\ SealedForAccepted
       /\ SealerCanOpen

(* All that seal, open, run and edit do to the blob, however they overlap  *)
(* and stop and whatever the repo's files become under them, is what       *)
(* SecretStore promises: a blob is only replaced by a seal of a user, for  *)
(* a list accepted on that user's machine before (command.go:302-373).     *)
Abstract == INSTANCE SecretStore WITH lists <- [u \in User |-> AcceptedMembers(u)]
ImplementsSecretStore == Abstract!Spec

(* A seal takes access from nobody silently: everyone who could decrypt    *)
(* the blob the lockout check read keeps access, unless the user was told  *)
(* they lose it, or that it cannot be known, and said yes (guard.go:86).   *)
NoSilentLockout ==
    [][\A p \in Proc : Put(p) /\ prev[p] # NoBlob =>
          prev[p].to \subseteq store'.to \cup told[p]]_vars

(* The same of the blob that is actually overwritten (docs/security.md:75: *)
(* a drifted recipients file "can't silently lock a teammate out").  With  *)
(* one command at a time it holds; two that overlap break it, because      *)
(* nothing ties Put to the blob the check read.                            *)
NoLockoutAtPut ==
    [][\A p \in Proc : Put(p) /\ store # NoBlob =>
          store.to \subseteq store'.to \cup told[p]]_vars

(* edit never replaces a blob other than the one it fetched again, and     *)
(* asked about if it was new (docs/security.md:128: "if a teammate         *)
(* re-sealed in the meantime, it warns instead of silently overwriting").  *)
EditWarnsOfReseal ==
    [][\A p \in Proc : Put(p) /\ op[p] = "reseal" => store = cur[p]]_vars

(* open, run and edit use a blob only if its signer, with that signing     *)
(* key, and the project it is bound to stand in one list and project this  *)
(* machine accepted ("a changed file has to be confirmed before its keys   *)
(* are trusted", guard.go:259).                                            *)
TrustedVerification ==
    [][\A p \in Proc : Verify(p) =>
          \E q \in accepted[Owner[p]] :
             /\ base[p].project = q.project
             /\ \E m \in q.members : /\ m.name = base[p].signer
                                     /\ m.sign = base[p].sign]_vars

(* Once its blob is stored, the sealer could open it at once: it decrypts  *)
(* and verifies against the repo as it is, and the pin about to be written *)
(* will match, so nothing is asked again.                                  *)
SealThenOpen ==
    \A p \in Proc : at[p] = "writePin" /\ Sealing(p) =>
        /\ CanDecrypt(store, Key1(p))
        /\ Verified(store, cfg[Owner[p]], rec[Owner[p]], FALSE)
        /\ Remembered(p) = [members |-> rec[Owner[p]], project |-> cfg[Owner[p]]]
============================================================================
