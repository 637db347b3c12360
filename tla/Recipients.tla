---------------------------- MODULE Recipients ----------------------------
(***************************************************************************)
(* The member list of recipients.shenv: who can decrypt, and whose         *)
(* signatures are trusted (src/internal/recipients/recipients.go).         *)
(*                                                                         *)
(* A file is the set of the entries its lines hold.  Every line Load       *)
(* accepts has a name of its own, so a set loses nothing of a list that    *)
(* loads; the order Save writes (sorted by name) is layout.  A file a      *)
(* merge has left with two lines for one person is a set that is not       *)
(* Loadable, and stands for every file Load refuses.                       *)
(***************************************************************************)

CONSTANTS Name,     \* member names that pass validateName
          Key,      \* age public keys
          SignKey,  \* Ed25519 verify keys, as they are spelled
          Look      \* skeleton: what a name looks like, a function of it

Member == [name : Name, key : Key, sign : SignKey]
File   == SUBSET Member

(* Two lines that may stand in one file: Load refuses a second line with   *)
(* a name, a look, an age key or a signing key it has already seen.        *)
Apart(m, n) == /\ m.name # n.name
               /\ Look[m.name] # Look[n.name]
               /\ m.key # n.key
               /\ m.sign # n.sign

Loadable(f) == \A m, n \in f : m # n => Apart(m, n)

KeysOf(f)     == {m.key : m \in f}
HasKey(f, k)  == \E m \in f : m.key = k
HasName(f, x) == \E m \in f : m.name = x

----------------------------------------------------------------------------
(* Add.  An entry with the new member's age key is that person and is      *)
(* replaced (a rename); otherwise an entry with the name is, and gets the  *)
(* new keys; otherwise the member is appended.                             *)
SamePerson(m, n) == m.key = n.key \/ m.name = n.name

(* The key is one member's and the name another's: neither is replaced. *)
Contested(f, m) == \E n, o \in f : n.key = m.key /\ o.name = m.name /\ n # o

(* Mutant: Add finds the entry to replace by its name alone. *)
AddedByName(f, m) == {n \in f : n.name # m.name} \cup {m}

Added(f, m) == {n \in f : ~SamePerson(n, m)} \cup {m}

(* The last check before Save: nobody else may look like the new member or *)
(* hold its signing key, or the next Load would refuse the whole file.     *)
Collides(f, m) == \E n \in f : /\ n.name # m.name
                               /\ Look[n.name] = Look[m.name] \/ n.sign = m.sign

(* Mutant: the collision check of Add is left out. *)
AddRefusedNoCollision(f, m) == Contested(f, m)
(* Mutant: Add does not notice that the key and the name are two people's. *)
AddRefusedNoContest(f, m) == Collides(Added(f, m), m)

AddRefused(f, m) == Contested(f, m) \/ Collides(Added(f, m), m)

Removed(f, x) == {m \in f : m.name # x}
============================================================================
