------------------------------ MODULE MCShenv ------------------------------
(* Alice and Bob, each with a machine and a checkout; B2 is Bob's entry    *)
(* with another signing key, B3 his entry with another identity.          *)
EXTENDS Shenv, TLC

CONSTANTS alice, bob, ka, kb, k3, sa, sb, s2, P, Q, e1, e2

MCLook == [n \in {alice, bob} |-> n]
MCKeyOf == [u \in User |-> IF u = alice THEN ka ELSE kb]
MCDerive == [k \in Key |-> IF k = ka THEN sa ELSE IF k = kb THEN sb ELSE s2]

Entry(n, k, s) == [name |-> n, key |-> k, sign |-> s]
A  == Entry(alice, ka, sa)
B  == Entry(bob, kb, sb)
B3 == Entry(bob, k3, s2)
B2 == Entry(bob, kb, s2)
A2 == Entry(alice, ka, s2)

(* e2 begins with a line that reads as an entry of Bob's, with another key. *)
MCHeading == [e \in Env |-> IF e = e2 THEN {B3} ELSE {}]
MCBeneath == [e \in Env |-> e1]

OneEach   == [p \in Proc |-> IF p = 1 THEN alice ELSE bob]
BothAlice == [p \in Proc |-> alice]

ByBob(list, c) == Sealed(0, list, B, c, e1)
Unsigned == [ByBob({A, B}, NoProject) EXCEPT !.signer = NoSigner, !.manifest = {}]

MCSymmetry == Permutations(Proc)

ForBoth == {ByBob({A, B}, P)}
Varied  == {ByBob({A, B}, P), ByBob({A, B}, NoProject), ByBob({A, B}, Q),
            ByBob({B}, P), Unsigned, Sealed(0, {A, B}, A, P, e1)}

ByB2    == {Sealed(0, {A, B2}, B2, NoProject, e1)}

NoPins   == {}
OldPins  == {[members |-> {A, B}, project |-> Unrecorded]}
SomePins == OldPins \cup {[members |-> {A}, project |-> P]}

Team     == {{A, B}}
Drifting == {{A, B}, {A, B2}}
\* With no file at all, and with a merge that kept both of Bob's lines.
AnyList  == {{A, B}, {A, B3}, {A2, B}, {A, B, B2}, {}}
Stale    == {{A, B}, {A}}
============================================================================
