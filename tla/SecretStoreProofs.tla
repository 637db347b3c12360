------------------------- MODULE SecretStoreProofs -------------------------
(* Shenv implements SecretStore, for every number of users and commands:   *)
(* the blob is the same, and a user's lists are those of the pairs of list *)
(* and project that the user's machine has accepted.                       *)
EXTENDS ShenvProofs

(* The lists are an expression of the state; the lemmas below say how a    *)
(* step changes its value.                                                 *)
Lists == [u \in User |-> AcceptedMembers(u)]

LEMMA ListsTyped ==
    ASSUME TypeOK
    PROVE  Lists \in [User -> SUBSET File]
<1>1. \A u \in User : AcceptedMembers(u) \subseteq File
  BY DEF TypeOK, AcceptedMembers, Pin
<1>2. QED
  BY <1>1 DEF Lists

(* One more accepted pair is one more list accepted, if it is a new one. *)
LEMMA TrustsAccepts ==
    ASSUME TypeOK, NEW u \in User, NEW q \in Pin, Trusts(u, q)
    PROVE  /\ Lists' = [Lists EXCEPT ![u] = @ \cup {q.members}]
           /\ q.members \in Lists'[u]
<1>1. accepted' = [accepted EXCEPT ![u] = @ \cup {q}] /\ accepted \in [User -> SUBSET Pin]
  BY DEF Trusts, TypeOK
<1>2. AcceptedMembers(u)' = AcceptedMembers(u) \cup {q.members}
  BY <1>1 DEF AcceptedMembers
<1>3. ASSUME NEW v \in User, v # u PROVE AcceptedMembers(v)' = AcceptedMembers(v)
  BY <1>1, <1>3 DEF AcceptedMembers
<1>4. QED
  BY <1>2, <1>3 DEF Lists

LEMMA ListsStay ==
    ASSUME UNCHANGED accepted
    PROVE  Lists' = Lists
BY DEF Lists, AcceptedMembers

LEMMA SameLoadable ==
    ASSUME NEW f
    PROVE  Abstract!Loadable(f) <=> Loadable(f)
BY DEF Abstract!Loadable, Abstract!Apart, Loadable, Apart

(* A put is a seal, for the accepted list in memory and by its sealer. *)
LEMMA PutSeals ==
    ASSUME TypeOK, NEW p \in Proc, Locals(p), Confirmed(p), Put(p)
    PROVE  Abstract!Next
<1> DEFINE u == Owner[p]
           f == members[p]
           m == Self(p)
<1>1. /\ Sealing(p) /\ plain[p] # NoEnv
      /\ Loadable(f) /\ Listed(p, f)
      /\ f \in AcceptedMembers(u)
  BY DEF Put, Goes, Locals, InSeal, Confirmed
<1>2. m \in f /\ m.key = KeyOf[u] /\ m.sign = Derive[KeyOf[u]]
  BY <1>1, SelfIsListed DEF Key1
<1>3. u \in User /\ f \in Lists[u]
  BY <1>1, FunctionsAssumption DEF Lists
<1>4. plain[p] \in Env /\ project[p] \in AnyProject
  BY <1>1 DEF TypeOK
<1>5. m \in Member
  BY <1>2 DEF TypeOK, File
<1>6. [m EXCEPT !.sign = Derive[Key1(p)]] = m
  BY <1>2, <1>5 DEF Key1, Member
<1>7. store' = Sealed(NextVer, f, m, project[p], plain[p])
  BY <1>6 DEF Put
<1>8. NextVer \in Nat /\ store'.ver = NextVer
  BY <1>7 DEF NextVer, TypeOK, Blob, Sealed
<1>9. store' = Abstract!Sealed(store'.ver, f, m, project[p], plain[p])
  BY <1>7, <1>8 DEF Sealed, KeysOf, Abstract!Sealed, Abstract!KeysOf
<1>10. Lists' = Lists
  BY ListsStay DEF Put, machine
<1>11. Abstract!Seal(u, f, m)
  BY <1>1, <1>2, <1>4, <1>8, <1>9, <1>10, SameLoadable
  DEF Abstract!Seal, Abstract!AnyProject, AnyProject, Lists
<1>12. QED
  BY <1>2, <1>3, <1>11 DEF Abstract!Next, Lists

(* A confirmation, and the adoption of an older pin, accept a list. *)
LEMMA TrustsStep ==
    ASSUME TypeOK, NEW u \in User, NEW q \in Pin, Trusts(u, q), UNCHANGED store
    PROVE  Abstract!Next
<1>1. q.members \in File
  BY DEF Pin
<1>2. Abstract!Accept(u)
  BY <1>1, TrustsAccepts
  DEF Abstract!Accept, Abstract!File, Abstract!Member, File, Member, Lists
<1>3. QED
  BY <1>2 DEF Abstract!Next

LEMMA StepImplements ==
    ASSUME Inv, [Next]_vars
    PROVE  [Abstract!Next]_<<store, Lists>>
<1>1. TypeOK /\ \A p \in Proc : Locals(p) /\ Confirmed(p)
  BY DEF Inv
<1>2. ASSUME NEW p \in Proc, Put(p) PROVE Abstract!Next
  BY <1>1, <1>2, PutSeals
<1>3. ASSUME NEW p \in Proc, Confirm(p) PROVE Abstract!Next
  <2>1. Current(p) \in Pin /\ Owner[p] \in User
    BY <1>1, FunctionsAssumption DEF Current, Pin, TypeOK
  <2>2. Trusts(Owner[p], Current(p)) /\ UNCHANGED store
    BY <1>3 DEF Confirm, world
  <2>3. QED
    BY <1>1, <2>1, <2>2, TrustsStep
<1>4. ASSUME NEW p \in Proc, AdoptProject(p) PROVE Abstract!Next
  <2> DEFINE q == [members |-> seen[p].members, project |-> project[p]]
  <2>1. seen[p] \in Pin
    BY <1>1, <1>4 DEF AdoptProject, Goes, Locals, TypeOK
  <2>2. q \in Pin /\ Owner[p] \in User
    BY <1>1, <2>1, FunctionsAssumption DEF Pin, TypeOK
  <2>3. Trusts(Owner[p], q) /\ UNCHANGED store
    BY <1>4 DEF AdoptProject, world
  <2>4. QED
    BY <1>1, <2>2, <2>3, TrustsStep
<1>5. CASE ~ \E p \in Proc : Put(p) \/ Confirm(p) \/ AdoptProject(p)
  <2>1. UNCHANGED <<store, accepted>>
    BY <1>5
    DEF Next, Reads, ChecksPin, Seals, Outside, vars, world, machine, Stop,
        StartSeal, Start, Fetch, PinMembers, PinProject, PinRead, Unchanged,
        RememberProject, WritePin, VerifyProject, Verify, Inject, OpenCompares,
        OpenWrites, EditText, Refetch, SealLoads, GuardGet, GuardProject, Guard, GuardUnread,
        BindProject, RefreshReads, RefreshWrites, NewMembers, NewProject, NewEnv
  <2>2. QED
    BY <2>1, ListsStay
<1>6. QED
  BY <1>2, <1>3, <1>4, <1>5

(* All that the commands do to the blob is what SecretStore promises. *)
THEOREM Implementation == Spec => ImplementsSecretStore
<1>1. Init => Abstract!Init
  <2> SUFFICES ASSUME Init PROVE Abstract!Init
    OBVIOUS
  <2>1. TypeOK
    BY InitInv DEF Inv
  <2>2. Blob = Abstract!Blob /\ File = Abstract!File
    BY DEF Blob, File, Member, AnyProject, Abstract!Blob, Abstract!File,
           Abstract!Member, Abstract!AnyProject
  <2>3. QED
    BY <2>1, <2>2, ListsTyped DEF Abstract!Init, TypeOK, Lists
<1>2. Inv /\ [Next]_vars => [Abstract!Next]_<<store, Lists>>
  BY StepImplements
<1>3. QED
  BY Invariance, <1>1, <1>2, PTL DEF Spec, ImplementsSecretStore, Abstract!Spec, Lists
============================================================================
