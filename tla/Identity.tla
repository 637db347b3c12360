----------------------------- MODULE Identity -----------------------------
(***************************************************************************)
(* A user's private key in ~/.shenv/key.txt, and the keychain that may     *)
(* hold its passphrase (src/internal/identity, command/remember.go, and    *)
(* the identity half of init, keygen and whoami).  Commands in several     *)
(* terminals interleave at every read and write of the key file.           *)
(*                                                                         *)
(* An error, a wrong passphrase and a kill are all Stop: the command is    *)
(* gone and the files stay as they are.  The user removes a key by hand    *)
(* only while no command runs.                                             *)
(***************************************************************************)
EXTENDS Naturals

CONSTANTS Proc,
          Id,           \* identities; one stands for both its public keys
          Pass,         \* passphrases
          NoPass,       \* "": the key is stored in the clear
          NoComment,    \* a key file written before signing existed
          NoId, Absent,
          Empty,        \* a key file without a key in it
          InitFiles,    \* what may be in ~/.shenv at the start
          MaxRemovals   \* bound on the removals by hand

KeyFile == [id : Id, pass : Pass \cup {NoPass}, comment : Id \cup {NoComment}]

ASSUME FileAssumption == /\ InitFiles \subseteq KeyFile
                         /\ \A f \in InitFiles : f.comment \in {f.id, NoComment}
                         /\ Absent \notin KeyFile /\ Empty \notin KeyFile
                         /\ Absent # Empty
ASSUME RemovalsAssumption == MaxRemovals \in Nat
ASSUME NoneAssumption == NoPass \notin Pass /\ NoComment \notin Id /\ NoId \notin Id

VARIABLES file,     \* key.txt
          cache,    \* the keychain: a passphrase per public key
          made,     \* identities generated so far; history
          shared,   \* entries registered or printed since the last removal; history
          removals,
          at, op,   \* per command: its next step, and what it was started as
          pub, sign, pass, data  \* its local variables

locals == <<op, pub, sign, pass, data>>
vars   == <<file, cache, made, shared, removals, at, locals>>

Steps == {"idle", "open", "fill", "made", "verify", "unlock", "truncate", "heal",
          "share", "check"}

TypeOK == /\ file \in KeyFile \cup {Absent, Empty}
          /\ cache \in [Id -> Pass \cup {NoPass}]
          /\ made \in SUBSET Id
          /\ shared \in SUBSET [key : Id, sign : Id]
          /\ removals \in 0..MaxRemovals
          /\ at \in [Proc -> Steps]
          /\ op \in [Proc -> {"none", "keygen", "init", "whoami", "remember"}]
          /\ pub \in [Proc -> Id \cup {NoId}]
          /\ sign \in [Proc -> Id \cup {NoId}]
          /\ pass \in [Proc -> Pass \cup {NoPass}]
          /\ data \in [Proc -> KeyFile \cup {Absent}]

Init == /\ file \in InitFiles \cup {Absent}
        /\ cache = [k \in Id |-> NoPass]
        /\ made = IF file = Absent THEN {} ELSE {file.id}
        /\ shared = {}
        /\ removals = 0
        /\ at = [p \in Proc |-> "idle"]
        /\ op = [p \in Proc |-> "none"]
        /\ pub = [p \in Proc |-> NoId]
        /\ sign = [p \in Proc |-> NoId]
        /\ pass = [p \in Proc |-> NoPass]
        /\ data = [p \in Proc |-> Absent]

Goes(p, from, to) == at[p] = from /\ at' = [at EXCEPT ![p] = to]

Ends(p) == /\ at' = [at EXCEPT ![p] = "idle"]
           /\ op' = [op EXCEPT ![p] = "none"]
           /\ pub' = [pub EXCEPT ![p] = NoId]
           /\ sign' = [sign EXCEPT ![p] = NoId]
           /\ pass' = [pass EXCEPT ![p] = NoPass]
           /\ data' = [data EXCEPT ![p] = Absent]

Stop(p) == /\ at[p] # "idle"
           /\ Ends(p)
           /\ UNCHANGED <<file, cache, made, shared, removals>>

----------------------------------------------------------------------------
(* PublicKey finds a key: init and whoami go on to the signing key,        *)
(* remember, if there is a passphrase, to checking it.  keygen prints it.  *)
Finds(p, o) ==
    /\ file \in KeyFile
    /\ \/ o \in {"init", "whoami"} /\ Goes(p, "idle", "verify")
       \/ o = "remember" /\ file.pass # NoPass /\ Goes(p, "idle", "check")
    /\ op' = [op EXCEPT ![p] = o]
    /\ pub' = [pub EXCEPT ![p] = file.id]
    /\ UNCHANGED <<file, cache, made, shared, removals, sign, pass, data>>

(* PublicKey fails for whatever reason: init and keygen ask for a new      *)
(* passphrase and generate an identity.                                    *)
Generates(p, o, k, s) ==
    /\ file \notin KeyFile
    /\ k \notin made
    /\ Goes(p, "idle", "open")
    /\ op' = [op EXCEPT ![p] = o]
    /\ pub' = [pub EXCEPT ![p] = k]
    /\ sign' = [sign EXCEPT ![p] = k]
    /\ pass' = [pass EXCEPT ![p] = s]
    /\ made' = made \cup {k}
    /\ UNCHANGED <<file, cache, shared, removals, data>>

(* Mutant: Create opens the file without O_EXCL. *)
OpensAnyway(p) == /\ Goes(p, "open", "fill")
                  /\ file' = Empty
                  /\ UNCHANGED <<cache, made, shared, removals, locals>>

(* Mutant: Create clears up the key path when it cannot create the file. *)
OpensOrClears(p) == IF file = Absent
                    THEN /\ Goes(p, "open", "fill")
                         /\ file' = Empty
                         /\ UNCHANGED <<cache, made, shared, removals, locals>>
                    ELSE /\ at[p] = "open"
                         /\ file' = Absent
                         /\ Ends(p)
                         /\ UNCHANGED <<cache, made, shared, removals>>

(* Create: the file is made, empty, only if nothing is there. *)
Opens(p) == /\ Goes(p, "open", "fill")
            /\ file = Absent
            /\ file' = Empty
            /\ UNCHANGED <<cache, made, shared, removals, locals>>

Fills(p) ==
    /\ Goes(p, "fill", "made")
    /\ file' = [id |-> pub[p], pass |-> pass[p], comment |-> sign[p]]
    /\ UNCHANGED <<cache, made, shared, removals, locals>>

(* Securing, writing or closing it fails: it is removed again. *)
FillFails(p) == /\ at[p] = "fill"
                /\ file' = Absent
                /\ Ends(p)
                /\ UNCHANGED <<cache, made, shared, removals>>

(* createIdentity prints the key, and may cache the passphrase. *)
Made(p, remember) ==
    /\ Goes(p, "made", "share")
    /\ remember => pass[p] # NoPass
    /\ cache' = IF remember THEN [cache EXCEPT ![pub[p]] = pass[p]] ELSE cache
    /\ UNCHANGED <<file, made, shared, removals, locals>>

----------------------------------------------------------------------------
(* VerifyKey: a key in the clear and a comment give the signing key. *)
ReadsComment(p) ==
    /\ Goes(p, "verify", "share")
    /\ file \in KeyFile
    /\ file.pass = NoPass \/ file.comment # NoComment
    /\ sign' = [sign EXCEPT ![p] = IF file.pass = NoPass THEN file.id ELSE file.comment]
    /\ UNCHANGED <<file, cache, made, shared, removals, op, pub, pass, data>>

LacksComment(p) ==
    /\ Goes(p, "verify", "unlock")
    /\ file \in KeyFile
    /\ file.pass # NoPass /\ file.comment = NoComment
    /\ data' = [data EXCEPT ![p] = file]
    /\ UNCHANGED <<file, cache, made, shared, removals, op, pub, sign, pass>>

(* Load reads the file again; a cached passphrase is used without asking.  *)
Opened(p, s) == /\ file \in KeyFile
                /\ file.pass = s

Unlocks(p, s) ==
    /\ Goes(p, "unlock", "truncate")
    /\ cache[pub[p]] \in {NoPass, s}
    /\ Opened(p, s)
    /\ sign' = [sign EXCEPT ![p] = file.id]
    /\ UNCHANGED <<file, cache, made, shared, removals, op, pub, pass, data>>

(* The comment is added to the contents read first and os.WriteFile puts   *)
(* them back, which truncates the file before it writes.                   *)
Truncates(p) == /\ Goes(p, "truncate", "heal")
                /\ file' = Empty
                /\ UNCHANGED <<cache, made, shared, removals, locals>>

Heals(p) == /\ Goes(p, "heal", "share")
            /\ file' = [data[p] EXCEPT !.comment = sign[p]]
            /\ UNCHANGED <<cache, made, shared, removals, locals>>

(* The file cannot be opened, or the write fails; VerifyKey ignores it. *)
HealFails(p) == /\ \/ Goes(p, "truncate", "share")
                   \/ Goes(p, "heal", "share")
                /\ UNCHANGED <<file, cache, made, shared, removals, locals>>

(* init registers the user's keys, whoami and keygen print them. *)
Shares(p) == /\ at[p] = "share"
             /\ shared' = shared \cup {[key |-> pub[p], sign |-> sign[p]]}
             /\ Ends(p)
             /\ UNCHANGED <<file, cache, made, removals>>

----------------------------------------------------------------------------
(* Mutant: remember stores the passphrase without trying it. *)
ChecksNothing(p, s) == /\ at[p] = "check"
                       /\ cache' = [cache EXCEPT ![pub[p]] = s]
                       /\ Ends(p)
                       /\ UNCHANGED <<file, made, shared, removals>>

Checks(p, s) == /\ at[p] = "check"
                /\ Opened(p, s)
                /\ cache' = [cache EXCEPT ![pub[p]] = s]
                /\ Ends(p)
                /\ UNCHANGED <<file, made, shared, removals>>

Forget == /\ file \in KeyFile
          /\ cache' = [cache EXCEPT ![file.id] = NoPass]
          /\ UNCHANGED <<file, made, shared, removals, at, locals>>

(* "remove it manually to regenerate" *)
UserRemoves == /\ \A p \in Proc : at[p] = "idle"
               /\ removals < MaxRemovals
               /\ removals' = removals + 1
               /\ file' = Absent
               /\ shared' = {}
               /\ UNCHANGED <<cache, made, at, locals>>

Next == \/ \E p \in Proc :
              \/ \E o \in {"init", "whoami", "remember"} : Finds(p, o)
              \/ \E o \in {"init", "keygen"}, k \in Id, s \in Pass \cup {NoPass} :
                    Generates(p, o, k, s)
              \/ Opens(p) \/ Fills(p) \/ FillFails(p)
              \/ \E remember \in BOOLEAN : Made(p, remember)
              \/ ReadsComment(p) \/ LacksComment(p)
              \/ \E s \in Pass : Unlocks(p, s)
              \/ Truncates(p) \/ Heals(p) \/ HealFails(p)
              \/ Shares(p)
              \/ \E s \in Pass : Checks(p, s)
              \/ Stop(p)
        \/ Forget
        \/ UserRemoves

Spec == Init /\ [][Next]_vars

----------------------------------------------------------------------------
(* The key in hand of a command that found or made one is the file's, and  *)
(* so is everything it has told anyone, unless the file has lost its key.  *)
(* A key the file never got is in no one else's hands (identity.go:262).   *)
InHand(p) ==
    /\ at[p] \in {"made", "verify", "unlock", "truncate", "heal", "share", "check"}
          => file # Absent /\ (file \in KeyFile => file.id = pub[p])
    /\ at[p] \in {"unlock", "truncate", "heal"} => data[p] \in KeyFile /\ data[p].id = pub[p]
    /\ at[p] \in {"truncate", "heal", "share"} => sign[p] = pub[p]

Inv == /\ TypeOK
       /\ \A p \in Proc : InHand(p)
       /\ file \in KeyFile => file.comment \in {file.id, NoComment}

(* One user is one identity: until the key file is removed by hand, no two *)
(* commands register or print different keys, and each signing key goes    *)
(* with its own age key, so teammates never encrypt for a key that another *)
(* terminal's command has replaced (identity.go:262-271).                  *)
OneIdentity == \A s, t \in shared : s = t /\ s.sign = s.key

(* The keychain never holds a passphrase that does not open the key it is  *)
(* filed under, which would fail every later unlock without asking         *)
(* (remember.go:35: "so a wrong passphrase is never stored").              *)
CachedUnlocks == file \in KeyFile => cache[file.id] \in {NoPass, file.pass}

(* Looking up the signing key never costs the user the key itself: with no *)
(* command running, a key that was shared is still on the disk.            *)
KeyKept == (\A p \in Proc : at[p] = "idle") /\ shared # {} =>
              file \in KeyFile /\ \E s \in shared : s.key = file.id
============================================================================
