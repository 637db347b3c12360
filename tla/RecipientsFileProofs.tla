----------------------- MODULE RecipientsFileProofs -----------------------
(* What a member list goes through in Add and Remove, and that no          *)
(* interleaving of commands, pulls and editors makes a command save a list *)
(* the next Load rejects, unless it adds a key typed with a line break.    *)
EXTENDS RecipientsFile, TLAPS

(* Add's checks are enough for entries that read back as they are: from a  *)
(* list that loads they let through only one that may stand in a file      *)
(* (recipients.go:165-174).                                                *)
LEMMA AddedLoadable ==
    ASSUME NEW f, NEW m, Loadable(f), ~AddRefused(f, m)
    PROVE  Loadable(Added(f, m))
<1>1. \A n \in f : ~SamePerson(n, m) => Apart(n, m) /\ Apart(m, n)
  BY DEF AddRefused, Collides, Added, SamePerson, Apart
<1>2. QED
  BY <1>1 DEF Loadable, Added

(* An entry taken away leaves a list that loads. *)
LEMMA RemovedLoadable ==
    ASSUME NEW f, NEW x, Loadable(f)
    PROVE  Loadable(Removed(f, x))
BY DEF Loadable, Removed

(* Add replaces at most one entry, that of the person it adds. *)
LEMMA AddReplacesOne ==
    ASSUME NEW f, NEW m, Loadable(f), ~AddRefused(f, m),
           NEW n \in f, NEW o \in f, SamePerson(n, m), SamePerson(o, m)
    PROVE  n = o
BY DEF Loadable, Apart, AddRefused, Contested, SamePerson

(* What Load returns of a file it accepts is a list whose entries Save     *)
(* prints as Load will read them.                                          *)
LEMMA LoadedList ==
    ASSUME file \in File, Loads(file)
    PROVE  /\ Entries \in File /\ Loadable(Entries)
           /\ \A m \in Entries : Reads[m.sign] = m.sign
<1>1. ASSUME NEW m \in file
      PROVE  /\ ReadBack(m) \in Member
             /\ Reads[ReadBack(m).sign] = ReadBack(m).sign
  <2>1. m \in Member /\ m.sign \in SignKey /\ Reads[m.sign] \in SignKey
    BY ReadsAssumption DEF File, Member, Loads
  <2>2. ReadBack(m) = [name |-> m.name, key |-> m.key, sign |-> Reads[m.sign]]
    BY <2>1 DEF ReadBack, Member
  <2>3. Reads[Reads[m.sign]] = Reads[m.sign]
    BY <2>1, ReadsAssumption
  <2> QED
    BY <2>1, <2>2, <2>3 DEF Member
<1>2. Loadable(Entries)
  BY DEF Loads, Loadable, Entries
<1> QED
  BY <1>1, <1>2 DEF Entries, File

(* Conversely, such a list is accepted by the next Load.                   *)
LEMMA PrintedList ==
    ASSUME NEW f \in File, Loadable(f), \A m \in f : Reads[m.sign] = m.sign
    PROVE  Loads(f)
<1>1. ASSUME NEW m \in f
      PROVE  ReadBack(m) = m /\ Reads[m.sign] # Torn
  <2>1. m \in Member /\ m.sign \in SignKey /\ Reads[m.sign] = m.sign
    BY DEF File, Member
  <2> QED
    BY <2>1, ReadsAssumption DEF ReadBack, Member
<1> QED
  BY <1>1 DEF Loads, Loadable

----------------------------------------------------------------------------
(* The conjunct of Inv about one command. *)
Pending(p) == pc[p] = "save" => Prepared(p)

LEMMA InitInv == Init => Inv
BY DEF Init, Inv, TypeOK, File, Job

(* A load prepares a list that loads. *)
LEMMA LoadKeepsInv ==
    ASSUME Inv, NEW p \in Proc,
           \/ \E m \in Member : LoadToAdd(p, m)
           \/ \E x \in Name : LoadToRemove(p, x)
    PROVE  Inv'
<1>1. CASE \E m \in Member : LoadToAdd(p, m)
  <2>1. PICK m \in Member : LoadToAdd(p, m)
    BY <1>1
  <2>2. /\ Entries \in File /\ Loadable(Entries)
        /\ \A n \in Entries : Reads[n.sign] = n.sign
    BY <2>1, LoadedList DEF Inv, TypeOK, LoadToAdd, Load
  <2>3. Added(Entries, m) \in File
    BY <2>2 DEF File, Added
  <2>4. TypeOK'
    BY <2>1, <2>2, <2>3 DEF Inv, TypeOK, LoadToAdd, Load, Job
  <2>5. Pending(p)'
    BY <2>1, <2>2 DEF Inv, TypeOK, LoadToAdd, Load, Pending, Prepared
  <2>6. \A q \in Proc \ {p} : Pending(q)'
    BY <2>1 DEF Inv, TypeOK, LoadToAdd, Load, Pending, Prepared
  <2>7. QED
    BY <2>4, <2>5, <2>6 DEF Inv, Pending
<1>2. CASE \E x \in Name : LoadToRemove(p, x)
  <2>1. PICK x \in Name : LoadToRemove(p, x)
    BY <1>2
  <2>2. /\ Entries \in File /\ Loadable(Entries)
        /\ \A n \in Entries : Reads[n.sign] = n.sign
    BY <2>1, LoadedList DEF Inv, TypeOK, LoadToRemove, Load
  <2>3. Removed(Entries, x) \in File
    BY <2>2 DEF File, Removed
  <2>4. TypeOK'
    BY <2>1, <2>2, <2>3 DEF Inv, TypeOK, LoadToRemove, Load, Job
  <2>5. Pending(p)'
    BY <2>1, <2>2 DEF Inv, TypeOK, LoadToRemove, Load, Pending, Prepared
  <2>6. \A q \in Proc \ {p} : Pending(q)'
    BY <2>1 DEF Inv, TypeOK, LoadToRemove, Load, Pending, Prepared
  <2>7. QED
    BY <2>4, <2>5, <2>6 DEF Inv, Pending
<1>3. QED
  BY <1>1, <1>2

(* Once a command has ended it has nothing pending. *)
LEMMA EndKeepsInv ==
    ASSUME Inv, NEW p \in Proc, Ends(p), file' \in File
    PROVE  Inv'
<1>1. TypeOK'
  BY DEF Inv, TypeOK, Ends, File, Job
<1>2. \A q \in Proc : Pending(q)'
  BY DEF Inv, TypeOK, Ends, Pending, Prepared
<1>3. QED
  BY <1>1, <1>2 DEF Inv, Pending

LEMMA NextInv == Inv /\ [Next]_vars => Inv'
<1> SUFFICES ASSUME Inv, [Next]_vars PROVE Inv'
  OBVIOUS
<1>1. ASSUME NEW p \in Proc, \/ \E m \in Member : LoadToAdd(p, m)
                             \/ \E x \in Name : LoadToRemove(p, x)
      PROVE  Inv'
  BY <1>1, LoadKeepsInv
<1>2. ASSUME NEW p \in Proc, Save(p) PROVE Inv'
  BY <1>2, EndKeepsInv DEF Save, Inv, TypeOK
<1>3. ASSUME NEW p \in Proc, SaveFails(p) PROVE Inv'
  BY <1>3, EndKeepsInv DEF SaveFails, Inv, TypeOK
<1>4. ASSUME NEW f \in Outside, OutsideWrite(f) PROVE Inv'
  BY <1>4, OutsideAssumption DEF OutsideWrite, Inv, TypeOK, Prepared
<1>5. CASE UNCHANGED vars
  BY <1>5 DEF vars, Inv, TypeOK, Prepared
<1>6. QED
  BY <1>1, <1>2, <1>3, <1>4, <1>5 DEF Next

(* No interleaving lets a command reach its save with anything but the     *)
(* result of its own checks on one loaded list.                            *)
THEOREM Invariance == Spec => []Inv
BY InitInv, NextInv, PTL DEF Spec

----------------------------------------------------------------------------
(* A pending list whose new key, if any, reads back as it was typed is one *)
(* the next Load accepts.                                                  *)
LEMMA PendingLoads ==
    ASSUME Inv, NEW p \in Proc, pc[p] = "save", Unbroken(p)
    PROVE  Loads(next[p])
<1>1. next[p] \in File /\ Loadable(loaded[p])
  BY DEF Inv, TypeOK, Prepared
<1>2. \A m \in loaded[p] : Reads[m.sign] = m.sign
  BY DEF Inv, Prepared
<1>3. CASE job[p].kind = "add"
  <2>1. ~AddRefused(loaded[p], job[p].member) /\ next[p] = Added(loaded[p], job[p].member)
    BY <1>3 DEF Inv, Prepared
  <2>2. Loadable(next[p])
    BY <1>1, <2>1, AddedLoadable
  <2>3. \A m \in next[p] : Reads[m.sign] = m.sign
    BY <1>2, <1>3, <2>1 DEF Added, Unbroken
  <2> QED
    BY <1>1, <2>2, <2>3, PrintedList
<1>4. CASE job[p].kind = "remove"
  <2>1. next[p] = Removed(loaded[p], job[p].name)
    BY <1>4 DEF Inv, Prepared
  <2>2. Loadable(next[p])
    BY <1>1, <2>1, RemovedLoadable
  <2>3. \A m \in next[p] : Reads[m.sign] = m.sign
    BY <1>2, <2>1 DEF Removed
  <2> QED
    BY <1>1, <2>2, <2>3, PrintedList
<1> QED
  BY <1>3, <1>4 DEF Inv, Prepared

(* What a command leaves loads, whatever else wrote the file meanwhile,    *)
(* unless it adds a signing key typed with a line break in it.             *)
THEOREM SavesLoad == Spec => SavedLoadable
<1>1. Inv /\ [Next]_vars =>
        [\A p \in Proc : Save(p) /\ Unbroken(p) => Loads(file')]_vars
  <2> SUFFICES ASSUME Inv, NEW p \in Proc, Save(p), Unbroken(p)
               PROVE  Loads(file')
    OBVIOUS
  <2>1. pc[p] = "save" /\ file' = next[p]
    BY DEF Save
  <2> QED
    BY <2>1, PendingLoads
<1>2. QED
  BY <1>1, Invariance, PTL DEF Spec, SavedLoadable

(* After an add, the person added has exactly one entry, and no other      *)
(* entry has its name, key or that spelling of its signing key.            *)
THEOREM AddLeavesOneEntry == Spec => OnePersonOneEntry
<1>1. ASSUME Inv, NEW p \in Proc, Save(p), job[p].kind = "add"
      PROVE  {n \in file' : \/ n.name = job[p].member.name
                            \/ n.key = job[p].member.key
                            \/ n.sign = job[p].member.sign} = {job[p].member}
  <2>1. /\ file' = Added(loaded[p], job[p].member)
        /\ ~AddRefused(loaded[p], job[p].member)
    BY <1>1 DEF Inv, Prepared, Save
  <2>2. job[p].member \in file'
    BY <2>1 DEF Added
  <2>3. ASSUME NEW n \in file', n # job[p].member
        PROVE  /\ n.name # job[p].member.name
               /\ n.key # job[p].member.key
               /\ n.sign # job[p].member.sign
    BY <2>1, <2>3 DEF Added, AddRefused, Collides, SamePerson
  <2>4. QED
    BY <2>2, <2>3
<1>2. Inv /\ [Next]_vars =>
        [\A p \in Proc : Save(p) /\ job[p].kind = "add" =>
            LET m == job[p].member
            IN {n \in file' : n.name = m.name \/ n.key = m.key \/ n.sign = m.sign} = {m}]_vars
  BY <1>1
<1>3. QED
  BY <1>2, Invariance, PTL DEF Spec, OnePersonOneEntry

(* Against the list it loaded, a command changes one person's entry only. *)
THEOREM CommandsKeepOthers == Spec => OthersKept
<1> DEFINE gone(p) == loaded[p] \ file'
           new(p)  == file' \ loaded[p]
           Kept(p) == /\ \A m, n \in gone(p) : m = n
                      /\ new(p) \subseteq IF job[p].kind = "add" THEN {job[p].member}
                                                                ELSE {}
                      /\ job[p].kind = "remove" => gone(p) # {}
                      /\ job[p].kind = "add" =>
                            \A m \in gone(p) : SamePerson(m, job[p].member)
<1>1. ASSUME Inv, NEW p \in Proc, Save(p), job[p].kind = "add"
      PROVE  Kept(p)
  <2>1. /\ Loadable(loaded[p]) /\ ~AddRefused(loaded[p], job[p].member)
        /\ file' = Added(loaded[p], job[p].member)
    BY <1>1 DEF Inv, Prepared, Save
  <2>2. \A m \in gone(p) : SamePerson(m, job[p].member)
    BY <2>1 DEF Added
  <2>3. \A m, n \in gone(p) : m = n
    BY <2>1, <2>2, AddReplacesOne
  <2>4. QED
    BY <1>1, <2>1, <2>2, <2>3 DEF Added
<1>2. ASSUME Inv, NEW p \in Proc, Save(p), job[p].kind = "remove"
      PROVE  Kept(p)
  <2>1. /\ Loadable(loaded[p]) /\ HasName(loaded[p], job[p].name)
        /\ file' = Removed(loaded[p], job[p].name)
    BY <1>2 DEF Inv, Prepared, Save
  <2>2. QED
    BY <1>2, <2>1 DEF Removed, HasName, Loadable, Apart
<1>3. ASSUME Inv, NEW p \in Proc, Save(p)
      PROVE  job[p].kind \in {"add", "remove"}
  BY <1>3 DEF Inv, Prepared, Save
<1>4. Inv /\ [Next]_vars => [\A p \in Proc : Save(p) => Kept(p)]_vars
  BY <1>1, <1>2, <1>3
<1>5. QED
  BY <1>4, Invariance, PTL DEF Spec, OthersKept
============================================================================
