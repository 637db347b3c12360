---------------------------- MODULE SecretStore ----------------------------
(***************************************************************************)
(* What shenv promises of the secrets a team shares: whatever is stored    *)
(* comes from a seal by one of the users, for a member list which that     *)
(* user had accepted, which the next command can load, and which has the   *)
(* sealer in it; the blob is encrypted for that very list and signed by    *)
(* the sealer.  What a user has accepted stays accepted.                   *)
(***************************************************************************)
EXTENDS Payload

CONSTANTS User, KeyOf, Derive, NoBlob

VARIABLES store,   \* the blob
          lists    \* per user: the member lists accepted so far

Init == /\ store \in Blob \cup {NoBlob}
        /\ lists \in [User -> SUBSET File]

Accept(u) == /\ \E f \in lists'[u] : f \in File /\ lists' = [lists EXCEPT ![u] = @ \cup {f}]
             /\ UNCHANGED store

(* No two seals give the same bytes: ver is some number. *)
Seal(u, f, m) ==
    /\ Loadable(f)
    /\ m.key = KeyOf[u] /\ m.sign = Derive[KeyOf[u]]
    /\ store'.ver \in Nat
    /\ \E c \in AnyProject, e \in Env : store' = Sealed(store'.ver, f, m, c, e)
    /\ UNCHANGED lists

Next == \E u \in User : \/ Accept(u)
                         \/ \E f \in lists[u] : \E m \in f : Seal(u, f, m)

Spec == Init /\ [][Next]_<<store, lists>>
============================================================================
