----------------------------- MODULE BlobStore -----------------------------
(***************************************************************************)
(* What a place for the encrypted blob promises: whoever reads it is given *)
(* a whole blob that somebody put there, or finds that there is none.  A   *)
(* put replaces the blob at once.  A power failure may take back the puts  *)
(* that have not settled on disk, and does nothing else.                   *)
(***************************************************************************)
CONSTANTS Blob, NoBlob

VARIABLES blob,    \* what a reader is given
          recent   \* what a power failure may bring back

Init == /\ blob \in Blob \cup {NoBlob}
        /\ recent = {}

Stores(b) == /\ blob' = b
             /\ recent' = recent \cup {blob}

Settles == /\ recent' = {}
           /\ UNCHANGED blob

PowerFails == /\ blob' \in recent \cup {blob}
              /\ recent' = {}

Next == \/ \E b \in Blob : Stores(b)
        \/ Settles
        \/ PowerFails

Spec == Init /\ [][Next]_<<blob, recent>>
============================================================================
