-------------------------- MODULE RecipientsFile --------------------------
(***************************************************************************)
(* init, add-member and remove-member on one checkout's recipients.shenv.  *)
(* Each loads the file, computes the next list in memory and saves it;     *)
(* nothing locks the file in between, so commands in two terminals, a      *)
(* `git pull` and a text editor interleave with those two steps.  Save is  *)
(* one step: it replaces the file by a rename (WriteFileAtomic, module     *)
(* Backend).                                                               *)
(*                                                                         *)
(* A signing key is a spelling of one: what ParseVerifyKey accepts may     *)
(* have line breaks in it, which base64 skips.  Save prints it as it is,   *)
(* so that Load need not read back what was saved.                         *)
(***************************************************************************)
EXTENDS Recipients

CONSTANTS Proc,     \* running commands
          Outside,  \* what a pull or an editor may leave in the file
          Reads,    \* what Load makes of a signing key as Save prints it: the
                    \* key itself, or the key without the breaks around it
          Torn      \* or nothing: a break splits the line or the key in two

ASSUME OutsideAssumption == Outside \subseteq File
ASSUME ReadsAssumption == /\ Torn \notin SignKey
                          /\ Reads \in [SignKey -> SignKey \cup {Torn}]
                          /\ \A k \in SignKey : Reads[k] # Torn => Reads[Reads[k]] = Reads[k]

VARIABLES file,     \* recipients.shenv, as printed; a missing file is an empty list
          pc,       \* "idle" or "save"
          loaded,   \* the list this command loaded
          job,      \* what it was asked to do
          next      \* the list it is about to save

vars == <<file, pc, loaded, job, next>>

Job == [kind : {"add"}, member : Member] \cup [kind : {"remove"}, name : Name]
    \cup {[kind |-> "none"]}

TypeOK == /\ file \in File
          /\ pc \in [Proc -> {"idle", "save"}]
          /\ loaded \in [Proc -> File]
          /\ job \in [Proc -> Job]
          /\ next \in [Proc -> File]

Init == /\ file = {}
        /\ pc = [p \in Proc |-> "idle"]
        /\ loaded = [p \in Proc |-> {}]
        /\ job = [p \in Proc |-> [kind |-> "none"]]
        /\ next = [p \in Proc |-> {}]

ReadBack(m) == [m EXCEPT !.sign = Reads[@]]

(* Load accepts the file: every line is whole, and any two may stand       *)
(* together.                                                               *)
Loads(f) == /\ \A m \in f : Reads[m.sign] # Torn
            /\ \A m, n \in f : m # n => Apart(ReadBack(m), ReadBack(n))

(* The list Load returns. *)
Entries == {ReadBack(m) : m \in file}

(* Mutant: a list that does not load is taken as it stands. *)
LoadsAnything(p) == /\ pc[p] = "idle"
                    /\ pc' = [pc EXCEPT ![p] = "save"]
                    /\ loaded' = [loaded EXCEPT ![p] = Entries]
                    /\ UNCHANGED file

Load(p) == /\ pc[p] = "idle"
           /\ Loads(file)
           /\ pc' = [pc EXCEPT ![p] = "save"]
           /\ loaded' = [loaded EXCEPT ![p] = Entries]
           /\ UNCHANGED file

(* recipients.Add up to its Save, for `shenv init` and `shenv add-member`: *)
(* the new signing key is compared as it was typed.                        *)
LoadToAdd(p, m) ==
    /\ Load(p)
    /\ ~AddRefused(Entries, m)
    /\ job' = [job EXCEPT ![p] = [kind |-> "add", member |-> m]]
    /\ next' = [next EXCEPT ![p] = Added(Entries, m)]

(* recipients.Remove up to its Save. *)
LoadToRemove(p, x) ==
    /\ Load(p)
    /\ HasName(Entries, x)
    /\ job' = [job EXCEPT ![p] = [kind |-> "remove", name |-> x]]
    /\ next' = [next EXCEPT ![p] = Removed(Entries, x)]

Ends(p) == /\ pc' = [pc EXCEPT ![p] = "idle"]
           /\ loaded' = [loaded EXCEPT ![p] = {}]
           /\ job' = [job EXCEPT ![p] = [kind |-> "none"]]
           /\ next' = [next EXCEPT ![p] = {}]

Save(p) == /\ pc[p] = "save"
           /\ file' = next[p]
           /\ Ends(p)

(* Save fails (a symlink at the path, a full disk) or the command is killed *)
(* before the rename: the file keeps what it had.                           *)
SaveFails(p) == /\ pc[p] = "save"
                /\ Ends(p)
                /\ UNCHANGED file

(* A `git pull`, a merge or an editor rewrites the file. *)
OutsideWrite(f) == /\ file' = f
                   /\ UNCHANGED <<pc, loaded, job, next>>

Next == \/ \E p \in Proc : \/ \E m \in Member : LoadToAdd(p, m)
                           \/ \E x \in Name : LoadToRemove(p, x)
                           \/ Save(p)
                           \/ SaveFails(p)
        \/ \E f \in Outside : OutsideWrite(f)

Spec == Init /\ [][Next]_vars

----------------------------------------------------------------------------
(* A key that is added reads back as it was typed.  So do all that `init`  *)
(* adds, and all that `shenv whoami` prints on its one line.               *)
Unbroken(p) == job[p].kind = "add" => Reads[job[p].member.sign] = job[p].member.sign

(* A command about to save holds exactly what its job makes of a list that *)
(* loaded; with TypeOK this is inductive, and the properties follow.       *)
Prepared(p) ==
    /\ Loadable(loaded[p])
    /\ \A m \in loaded[p] : Reads[m.sign] = m.sign
    /\ \/ /\ job[p].kind = "add"
          /\ ~AddRefused(loaded[p], job[p].member)
          /\ next[p] = Added(loaded[p], job[p].member)
       \/ /\ job[p].kind = "remove"
          /\ HasName(loaded[p], job[p].name)
          /\ next[p] = Removed(loaded[p], job[p].name)

(* No interleaving lets a command reach its save with anything but the     *)
(* result of its own checks on one loaded list (recipients.go:130-191).    *)
Inv == /\ TypeOK
       /\ \A p \in Proc : pc[p] = "save" => Prepared(p)

----------------------------------------------------------------------------
(* "Never persist a list the next Load would reject" (recipients.go:165).  *)
(* The code does, for a signing key typed with a line break in it: Load    *)
(* finds half a line, or, if the break is at the end of the key, the key   *)
(* of somebody else that the comparison of what was typed has missed.      *)
NeverRejected ==
    [][\A p \in Proc : Save(p) => Loads(file')]_vars

(* But for that case it holds: what remove-member leaves, and what is left *)
(* by an add of a key without such a break, loads again, whatever else     *)
(* wrote the file since it was loaded.                                     *)
SavedLoadable ==
    [][\A p \in Proc : Save(p) /\ Unbroken(p) => Loads(file')]_vars

(* One person stays one entry: after an add there is exactly one line with *)
(* the name, it is also the only one with the key, and no other line has   *)
(* that spelling of the signing key.  (One key has several: ParseVerifyKey *)
(* skips line breaks, and the last bits of the base64 text.)               *)
OnePersonOneEntry ==
    [][\A p \in Proc : Save(p) /\ job[p].kind = "add" =>
          LET m == job[p].member
          IN {n \in file' : n.name = m.name \/ n.key = m.key \/ n.sign = m.sign} = {m}]_vars

(* Against the list it loaded, a command changes one person: nobody else   *)
(* is dropped, renamed or given other keys, and no outsider comes in.      *)
OthersKept ==
    [][\A p \in Proc : Save(p) =>
          LET gone == loaded[p] \ file'
              new  == file' \ loaded[p]
          IN /\ \A m, n \in gone : m = n
             /\ new \subseteq IF job[p].kind = "add" THEN {job[p].member} ELSE {}
             /\ job[p].kind = "remove" => gone # {}
             /\ job[p].kind = "add" =>
                   \A m \in gone : SamePerson(m, job[p].member)]_vars

============================================================================
