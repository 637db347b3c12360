---------------------------- MODULE MCIdentity ----------------------------
(* Two terminals of one user, who starts with no key or with one.          *)
EXTENDS Identity, TLC

CONSTANTS k0, s1, s2

Legacy == {[id |-> k0, pass |-> s1, comment |-> NoComment]}
AnyAge == Legacy \cup {[id |-> k0, pass |-> s1, comment |-> k0],
                       [id |-> k0, pass |-> NoPass, comment |-> NoComment]}

MCSymmetry == Permutations(Proc)
============================================================================
