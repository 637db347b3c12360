--------------------------- MODULE IdentityProofs ---------------------------
(* One user is one identity, and the keychain holds only what opens it, for *)
(* every number of terminals, however their commands overlap, fail and are *)
(* killed, and from a key file of any age.                                 *)
EXTENDS Identity, TLAPS

Hand  == {"made", "verify", "unlock", "truncate", "heal", "share", "check"}
Fresh == {"open", "fill"}

(* Whoever has found or made a key has the same one in hand, which is the  *)
(* one that was shared and the one in the file.  Between the creation of   *)
(* the file and the key in it nobody has one, nor has anyone told of one.  *)
Filling(p) == at[p] = "fill" =>
    /\ file = Empty /\ shared = {}
    /\ \A q \in Proc : at[q] \notin Hand /\ (q # p => at[q] # "fill")

Single ==
    /\ \A p, q \in Proc : at[p] \in Hand /\ at[q] \in Hand => pub[p] = pub[q]
    /\ \A p \in Proc : at[p] \in Hand => \A s \in shared : s.key = pub[p]
    /\ file \in KeyFile => \A s \in shared : s.key = file.id
    /\ file = Absent => shared = {}
    /\ \A p \in Proc : Filling(p)
    /\ \A p \in Proc : at[p] \in Fresh \cup {"made"} => sign[p] = pub[p]
    /\ OneIdentity

(* The passphrase of an identity is what it was made with: in the file, in *)
(* what a repair will write back, and in the hands of who chose it.        *)
Knows     == {"made", "unlock", "truncate", "heal"}
Secret(p) == IF at[p] = "made" THEN pass[p] ELSE data[p].pass

Keeps(p) == at[p] \in Knows =>
    /\ cache[pub[p]] \in {NoPass, Secret(p)}
    /\ file \in KeyFile => file.pass = Secret(p)
    /\ \A q \in Proc : at[q] \in Knows => Secret(q) = Secret(p)

(* A key that is not in the file yet is nobody else's, and has no          *)
(* passphrase in the keychain.                                             *)
IsNew(p) == at[p] \in Fresh =>
    /\ cache[pub[p]] = NoPass
    /\ file \in KeyFile => file.id # pub[p]
    /\ \A q \in Proc \ {p} : at[q] \in Fresh \cup Hand => pub[q] # pub[p]

Secrets ==
    /\ \A p \in Proc : Keeps(p) /\ IsNew(p)
    /\ \A p \in Proc : at[p] \in Fresh \cup Hand => pub[p] \in made
    /\ file \in KeyFile => file.id \in made
    /\ \A k \in Id : k \notin made => cache[k] = NoPass
    /\ CachedUnlocks

IInv == Inv /\ Single /\ Secrets

(* A command that ends has its locals reset to values of their types. *)
LEMMA EndsTyped ==
    ASSUME TypeOK, NEW p \in Proc, Ends(p)
    PROVE  /\ at' \in [Proc -> Steps]
           /\ op' \in [Proc -> {"none", "keygen", "init", "whoami", "remember"}]
           /\ pub' \in [Proc -> Id \cup {NoId}]
           /\ sign' \in [Proc -> Id \cup {NoId}]
           /\ pass' \in [Proc -> Pass \cup {NoPass}]
           /\ data' \in [Proc -> KeyFile \cup {Absent}]
BY DEF TypeOK, Ends, Steps

(* The fields of a key file. *)
LEMMA Fields ==
    ASSUME NEW f \in KeyFile
    PROVE  /\ f.id \in Id
           /\ f.pass \in Pass \cup {NoPass}
           /\ f.comment \in Id \cup {NoComment}
BY DEF KeyFile

(* What a command writes into the file. *)
LEMMA Written ==
    ASSUME IInv, NEW p \in Proc
    PROVE  /\ at[p] \in Fresh \cup Hand => pub[p] \in Id
           /\ at[p] = "fill" =>
                 [id |-> pub[p], pass |-> pass[p], comment |-> sign[p]] \in KeyFile
           /\ at[p] = "heal" =>
                 /\ [data[p] EXCEPT !.comment = sign[p]] \in KeyFile
                 /\ [data[p] EXCEPT !.comment = sign[p]].id = pub[p]
                 /\ [data[p] EXCEPT !.comment = sign[p]].pass = data[p].pass
                 /\ [data[p] EXCEPT !.comment = sign[p]].comment = pub[p]
<1>1. at[p] \in Fresh \cup Hand => pub[p] \in Id
  BY DEF IInv, Secrets, Inv, TypeOK
<1>2. ASSUME at[p] = "fill"
      PROVE  [id |-> pub[p], pass |-> pass[p], comment |-> sign[p]] \in KeyFile
  BY <1>1, <1>2 DEF IInv, Single, Fresh, Inv, TypeOK, KeyFile
<1>3. ASSUME at[p] = "heal"
      PROVE  /\ [data[p] EXCEPT !.comment = sign[p]] \in KeyFile
             /\ [data[p] EXCEPT !.comment = sign[p]].id = pub[p]
             /\ [data[p] EXCEPT !.comment = sign[p]].pass = data[p].pass
             /\ [data[p] EXCEPT !.comment = sign[p]].comment = pub[p]
  <2>1. data[p] \in KeyFile /\ data[p].id = pub[p] /\ sign[p] = pub[p] /\ pub[p] \in Id
    BY <1>1, <1>3 DEF IInv, Inv, InHand, Hand
  <2>2. QED
    BY <2>1 DEF KeyFile
<1>4. QED
  BY <1>1, <1>2, <1>3

(* The initial states: no key file, or one of any age. *)
LEMMA InitIInv == Init => IInv
<1> SUFFICES ASSUME Init PROVE IInv
  OBVIOUS
<1> USE FileAssumption
<1>1. file \in KeyFile \cup {Absent, Empty} /\ file # Empty
  BY DEF Init
<1>2. file \in KeyFile => file.id \in Id /\ file.comment \in {file.id, NoComment}
  BY <1>1 DEF Init, KeyFile
<1>3. TypeOK
  <2>1. made \in SUBSET Id
    BY <1>1, <1>2 DEF Init
  <2>2. removals \in 0..MaxRemovals
    BY RemovalsAssumption DEF Init
  <2>3. QED
    BY <1>1, <2>1, <2>2 DEF Init, TypeOK, Steps
<1>4. Inv
  BY <1>2, <1>3 DEF Init, Inv, InHand
<1>5. Single
  BY DEF Init, Single, Filling, Hand, Fresh, OneIdentity
<1>6. Secrets
  BY <1>1, <1>2 DEF Init, Secrets, Keeps, IsNew, Knows, Fresh, Hand, CachedUnlocks
<1>7. QED
  BY <1>4, <1>5, <1>6 DEF IInv

----------------------------------------------------------------------------
(* No step leaves the types. *)
LEMMA NextType ==
    ASSUME IInv, [Next]_vars
    PROVE  TypeOK'
<1>0. TypeOK /\ \A q \in Proc : InHand(q)
  BY DEF IInv, Inv
<1> USE <1>0 DEF TypeOK, locals, Steps
<1>1. ASSUME NEW p \in Proc, NEW o \in {"init", "whoami", "remember"}, Finds(p, o)
      PROVE  TypeOK'
  BY <1>1, Fields DEF Finds, Goes
<1>2. ASSUME NEW p \in Proc, NEW o \in {"init", "keygen"},
             NEW k \in Id, NEW s \in Pass \cup {NoPass}, Generates(p, o, k, s)
      PROVE  TypeOK'
  BY <1>2 DEF Generates, Goes
<1>3. ASSUME NEW p \in Proc, Opens(p) PROVE TypeOK'
  BY <1>3 DEF Opens, Goes
<1>4. ASSUME NEW p \in Proc, Fills(p) PROVE TypeOK'
  BY <1>4, Written DEF Fills, Goes
<1>5. ASSUME NEW p \in Proc, FillFails(p) PROVE TypeOK'
  BY <1>5, EndsTyped DEF FillFails
<1>6. ASSUME NEW p \in Proc, NEW remember \in BOOLEAN, Made(p, remember) PROVE TypeOK'
  BY <1>6 DEF Made, Goes
<1>7. ASSUME NEW p \in Proc, ReadsComment(p) PROVE TypeOK'
  <2>1. pub[p] \in Id
    BY <1>7, Written DEF ReadsComment, Goes, Hand
  <2>2. sign' = [sign EXCEPT ![p] = IF file.pass = NoPass THEN file.id ELSE file.comment]
    BY <1>7 DEF ReadsComment
  <2>3. (IF file.pass = NoPass THEN file.id ELSE file.comment) \in Id
    BY <1>7, Fields DEF ReadsComment
  <2>4. QED
    BY <1>7, <2>2, <2>3 DEF ReadsComment, Goes
<1>8. ASSUME NEW p \in Proc, LacksComment(p) PROVE TypeOK'
  BY <1>8 DEF LacksComment, Goes
<1>9. ASSUME NEW p \in Proc, NEW s \in Pass, Unlocks(p, s) PROVE TypeOK'
  BY <1>9, Fields DEF Unlocks, Opened, Goes
<1>10. ASSUME NEW p \in Proc, Truncates(p) PROVE TypeOK'
  BY <1>10 DEF Truncates, Goes
<1>11. ASSUME NEW p \in Proc, Heals(p) PROVE TypeOK'
  BY <1>11, Written DEF Heals, Goes
<1>12. ASSUME NEW p \in Proc, HealFails(p) PROVE TypeOK'
  BY <1>12 DEF HealFails, Goes
<1>13. ASSUME NEW p \in Proc, Shares(p) PROVE TypeOK'
  <2>1. pub[p] \in Id /\ sign[p] = pub[p]
    BY <1>13, Written DEF Shares, InHand, Hand
  <2>2. QED
    BY <1>13, <2>1, EndsTyped DEF Shares
<1>14. ASSUME NEW p \in Proc, NEW s \in Pass, Checks(p, s) PROVE TypeOK'
  BY <1>14, EndsTyped DEF Checks, Opened
<1>15. ASSUME NEW p \in Proc, Stop(p) PROVE TypeOK'
  BY <1>15, EndsTyped DEF Stop
<1>16. CASE Forget
  BY <1>16 DEF Forget
<1>17. CASE UserRemoves
  <2>1. removals' \in 0..MaxRemovals
    BY <1>17, RemovalsAssumption DEF UserRemoves
  <2>2. QED
    BY <1>17, <2>1 DEF UserRemoves
<1>18. CASE UNCHANGED vars
  BY <1>18 DEF vars
<1>19. QED
  BY <1>1, <1>2, <1>3, <1>4, <1>5, <1>6, <1>7, <1>8, <1>9, <1>10, <1>11, <1>12,
     <1>13, <1>14, <1>15, <1>16, <1>17, <1>18
  DEF Next

(* What a command has in hand is what the file holds. *)
LEMMA NextInHand ==
    ASSUME IInv, [Next]_vars
    PROVE  \A q \in Proc : InHand(q)'
<1> USE FileAssumption, NoneAssumption
    DEF IInv, Inv, TypeOK, InHand, Single, Filling, Hand, Fresh, locals
<1>1. ASSUME NEW p \in Proc, NEW o \in {"init", "whoami", "remember"}, Finds(p, o)
      PROVE  \A q \in Proc : InHand(q)'
  BY <1>1 DEF Finds, Goes
<1>2. ASSUME NEW p \in Proc, NEW o \in {"init", "keygen"},
             NEW k \in Id, NEW s \in Pass \cup {NoPass}, Generates(p, o, k, s)
      PROVE  \A q \in Proc : InHand(q)'
  BY <1>2 DEF Generates, Goes
<1>3. ASSUME NEW p \in Proc, Opens(p) PROVE \A q \in Proc : InHand(q)'
  BY <1>3 DEF Opens, Goes
<1>4. ASSUME NEW p \in Proc, Fills(p) PROVE \A q \in Proc : InHand(q)'
  BY <1>4, Written DEF Fills, Goes
<1>5. ASSUME NEW p \in Proc, FillFails(p) PROVE \A q \in Proc : InHand(q)'
  BY <1>5 DEF FillFails, Ends
<1>6. ASSUME NEW p \in Proc, NEW remember \in BOOLEAN, Made(p, remember)
      PROVE  \A q \in Proc : InHand(q)'
  BY <1>6 DEF Made, Goes
<1>7. ASSUME NEW p \in Proc, ReadsComment(p) PROVE \A q \in Proc : InHand(q)'
  BY <1>7 DEF ReadsComment, Goes
<1>8. ASSUME NEW p \in Proc, LacksComment(p) PROVE \A q \in Proc : InHand(q)'
  BY <1>8 DEF LacksComment, Goes
<1>9. ASSUME NEW p \in Proc, NEW s \in Pass, Unlocks(p, s)
      PROVE  \A q \in Proc : InHand(q)'
  BY <1>9 DEF Unlocks, Opened, Goes
<1>10. ASSUME NEW p \in Proc, Truncates(p) PROVE \A q \in Proc : InHand(q)'
  BY <1>10 DEF Truncates, Goes
<1>11. ASSUME NEW p \in Proc, Heals(p) PROVE \A q \in Proc : InHand(q)'
  BY <1>11, Written DEF Heals, Goes
<1>12. ASSUME NEW p \in Proc, HealFails(p) PROVE \A q \in Proc : InHand(q)'
  BY <1>12 DEF HealFails, Goes
<1>13. ASSUME NEW p \in Proc, Shares(p) PROVE \A q \in Proc : InHand(q)'
  BY <1>13 DEF Shares, Ends
<1>14. ASSUME NEW p \in Proc, NEW s \in Pass, Checks(p, s)
      PROVE  \A q \in Proc : InHand(q)'
  BY <1>14 DEF Checks, Opened, Ends
<1>15. ASSUME NEW p \in Proc, Stop(p) PROVE \A q \in Proc : InHand(q)'
  BY <1>15 DEF Stop, Ends
<1>16. CASE Forget
  BY <1>16 DEF Forget
<1>17. CASE UserRemoves
  BY <1>17 DEF UserRemoves
<1>18. CASE UNCHANGED vars
  BY <1>18 DEF vars
<1>19. QED
  BY <1>1, <1>2, <1>3, <1>4, <1>5, <1>6, <1>7, <1>8, <1>9, <1>10, <1>11, <1>12,
     <1>13, <1>14, <1>15, <1>16, <1>17, <1>18
  DEF Next

(* The comment of a key file is its own signing key. *)
LEMMA NextComment ==
    ASSUME IInv, [Next]_vars
    PROVE  (file \in KeyFile => file.comment \in {file.id, NoComment})'
<1> DEFINE CommentOK == file \in KeyFile => file.comment \in {file.id, NoComment}
<1> SUFFICES CommentOK'
  OBVIOUS
<1> USE FileAssumption DEF IInv, Inv, TypeOK, InHand, locals
<1>1. ASSUME NEW p \in Proc, NEW o \in {"init", "whoami", "remember"}, Finds(p, o)
      PROVE  CommentOK'
  BY <1>1 DEF Finds, Goes
<1>2. ASSUME NEW p \in Proc, NEW o \in {"init", "keygen"},
             NEW k \in Id, NEW s \in Pass \cup {NoPass}, Generates(p, o, k, s)
      PROVE  CommentOK'
  BY <1>2 DEF Generates, Goes
<1>3. ASSUME NEW p \in Proc, Opens(p) PROVE CommentOK'
  BY <1>3 DEF Opens, Goes
<1>4. ASSUME NEW p \in Proc, Fills(p) PROVE CommentOK'
  <2>1. sign[p] = pub[p]
    BY <1>4 DEF Fills, Goes, Single, Fresh
  <2>2. QED
    BY <1>4, <2>1 DEF Fills, Goes
<1>5. ASSUME NEW p \in Proc, FillFails(p) PROVE CommentOK'
  BY <1>5 DEF FillFails, Ends
<1>6. ASSUME NEW p \in Proc, NEW remember \in BOOLEAN, Made(p, remember) PROVE CommentOK'
  BY <1>6 DEF Made, Goes
<1>7. ASSUME NEW p \in Proc, ReadsComment(p) PROVE CommentOK'
  BY <1>7 DEF ReadsComment, Goes
<1>8. ASSUME NEW p \in Proc, LacksComment(p) PROVE CommentOK'
  BY <1>8 DEF LacksComment, Goes
<1>9. ASSUME NEW p \in Proc, NEW s \in Pass, Unlocks(p, s) PROVE CommentOK'
  BY <1>9 DEF Unlocks, Opened, Goes
<1>10. ASSUME NEW p \in Proc, Truncates(p) PROVE CommentOK'
  BY <1>10 DEF Truncates, Goes
<1>11. ASSUME NEW p \in Proc, Heals(p) PROVE CommentOK'
  BY <1>11, Written DEF Heals, Goes
<1>12. ASSUME NEW p \in Proc, HealFails(p) PROVE CommentOK'
  BY <1>12 DEF HealFails, Goes
<1>13. ASSUME NEW p \in Proc, Shares(p) PROVE CommentOK'
  BY <1>13 DEF Shares, Ends
<1>14. ASSUME NEW p \in Proc, NEW s \in Pass, Checks(p, s) PROVE CommentOK'
  BY <1>14 DEF Checks, Opened, Ends
<1>15. ASSUME NEW p \in Proc, Stop(p) PROVE CommentOK'
  BY <1>15 DEF Stop, Ends
<1>16. CASE Forget
  BY <1>16 DEF Forget
<1>17. CASE UserRemoves
  BY <1>17 DEF UserRemoves
<1>18. CASE UNCHANGED vars
  BY <1>18 DEF vars
<1>19. QED
  BY <1>1, <1>2, <1>3, <1>4, <1>5, <1>6, <1>7, <1>8, <1>9, <1>10, <1>11, <1>12,
     <1>13, <1>14, <1>15, <1>16, <1>17, <1>18
  DEF Next

(* There is one identity. *)
LEMMA NextSingle ==
    ASSUME IInv, [Next]_vars
    PROVE  Single'
<1> USE FileAssumption
    DEF IInv, Inv, TypeOK, InHand, Single, Filling, Hand, Fresh, OneIdentity, locals
<1>1. ASSUME NEW p \in Proc, NEW o \in {"init", "whoami", "remember"}, Finds(p, o)
      PROVE  Single'
  BY <1>1 DEF Finds, Goes
<1>2. ASSUME NEW p \in Proc, NEW o \in {"init", "keygen"},
             NEW k \in Id, NEW s \in Pass \cup {NoPass}, Generates(p, o, k, s)
      PROVE  Single'
  BY <1>2 DEF Generates, Goes
<1>3. ASSUME NEW p \in Proc, Opens(p) PROVE Single'
  BY <1>3 DEF Opens, Goes
<1>4. ASSUME NEW p \in Proc, Fills(p) PROVE Single'
  BY <1>4 DEF Fills, Goes
<1>5. ASSUME NEW p \in Proc, FillFails(p) PROVE Single'
  BY <1>5 DEF FillFails, Ends
<1>6. ASSUME NEW p \in Proc, NEW remember \in BOOLEAN, Made(p, remember) PROVE Single'
  BY <1>6 DEF Made, Goes
<1>7. ASSUME NEW p \in Proc, ReadsComment(p) PROVE Single'
  BY <1>7 DEF ReadsComment, Goes
<1>8. ASSUME NEW p \in Proc, LacksComment(p) PROVE Single'
  BY <1>8 DEF LacksComment, Goes
<1>9. ASSUME NEW p \in Proc, NEW s \in Pass, Unlocks(p, s) PROVE Single'
  BY <1>9 DEF Unlocks, Opened, Goes
<1>10. ASSUME NEW p \in Proc, Truncates(p) PROVE Single'
  BY <1>10 DEF Truncates, Goes
<1>11. ASSUME NEW p \in Proc, Heals(p) PROVE Single'
  <2>1. file' \in KeyFile /\ file'.id = pub[p]
    BY <1>11, Written DEF Heals, Goes
  <2>2. \A q \in Proc : at[q] # "fill" /\ at'[q] # "fill"
    BY <1>11 DEF Heals, Goes
  <2>3. (file \in KeyFile => \A s \in shared : s.key = file.id)'
    BY <1>11, <2>1 DEF Heals, Goes
  <2>4. (file = Absent => shared = {})'
    BY <2>1
  <2>5. QED
    BY <1>11, <2>2, <2>3, <2>4 DEF Heals, Goes
<1>12. ASSUME NEW p \in Proc, HealFails(p) PROVE Single'
  BY <1>12 DEF HealFails, Goes
<1>13. ASSUME NEW p \in Proc, Shares(p) PROVE Single'
  BY <1>13 DEF Shares, Ends
<1>14. ASSUME NEW p \in Proc, NEW s \in Pass, Checks(p, s) PROVE Single'
  BY <1>14 DEF Checks, Opened, Ends
<1>15. ASSUME NEW p \in Proc, Stop(p) PROVE Single'
  BY <1>15 DEF Stop, Ends
<1>16. CASE Forget
  BY <1>16 DEF Forget
<1>17. CASE UserRemoves
  BY <1>17 DEF UserRemoves
<1>18. CASE UNCHANGED vars
  BY <1>18 DEF vars
<1>19. QED
  BY <1>1, <1>2, <1>3, <1>4, <1>5, <1>6, <1>7, <1>8, <1>9, <1>10, <1>11, <1>12,
     <1>13, <1>14, <1>15, <1>16, <1>17, <1>18
  DEF Next

(* A passphrase stays with its identity. *)
LEMMA NextKeeps ==
    ASSUME IInv, [Next]_vars
    PROVE  \A q \in Proc : Keeps(q)'
<1> USE FileAssumption
    DEF IInv, Inv, TypeOK, InHand, Single, Filling, Hand, Fresh, Secrets, Keeps, IsNew,
        Knows, Secret, locals
<1>1. ASSUME NEW p \in Proc, NEW o \in {"init", "whoami", "remember"}, Finds(p, o)
      PROVE  \A q \in Proc : Keeps(q)'
  BY <1>1 DEF Finds, Goes
<1>2. ASSUME NEW p \in Proc, NEW o \in {"init", "keygen"},
             NEW k \in Id, NEW s \in Pass \cup {NoPass}, Generates(p, o, k, s)
      PROVE  \A q \in Proc : Keeps(q)'
  BY <1>2 DEF Generates, Goes
<1>3. ASSUME NEW p \in Proc, Opens(p) PROVE \A q \in Proc : Keeps(q)'
  BY <1>3 DEF Opens, Goes
<1>4. ASSUME NEW p \in Proc, Fills(p) PROVE \A q \in Proc : Keeps(q)'
  BY <1>4 DEF Fills, Goes
<1>5. ASSUME NEW p \in Proc, FillFails(p) PROVE \A q \in Proc : Keeps(q)'
  BY <1>5 DEF FillFails, Ends
<1>6. ASSUME NEW p \in Proc, NEW remember \in BOOLEAN, Made(p, remember)
      PROVE  \A q \in Proc : Keeps(q)'
  BY <1>6 DEF Made, Goes
<1>7. ASSUME NEW p \in Proc, ReadsComment(p) PROVE \A q \in Proc : Keeps(q)'
  BY <1>7 DEF ReadsComment, Goes
<1>8. ASSUME NEW p \in Proc, LacksComment(p) PROVE \A q \in Proc : Keeps(q)'
  <2>1. file \in KeyFile /\ file.id = pub[p]
    BY <1>8 DEF LacksComment, Goes
  <2>2. at'[p] = "unlock" /\ Secret(p)' = file.pass
    BY <1>8 DEF LacksComment, Goes
  <2>3. ASSUME NEW q \in Proc, q # p PROVE Secret(q)' = Secret(q) /\ at'[q] = at[q]
    BY <1>8, <2>3 DEF LacksComment, Goes
  <2>4. ASSUME NEW q \in Proc, at'[q] \in Knows PROVE Secret(q)' = file.pass
    BY <2>1, <2>2, <2>3, <2>4
  <2>5. ASSUME NEW q \in Proc, at'[q] \in Knows
      PROVE  cache[pub[q]] \in {NoPass, file.pass}
    <3>1. pub[q] = file.id
      BY <1>8, <2>1, <2>2, <2>3, <2>5 DEF LacksComment, Goes
    <3>2. QED
      BY <2>1, <3>1 DEF CachedUnlocks
  <2>6. UNCHANGED <<file, cache, pub>>
    BY <1>8 DEF LacksComment
  <2>7. QED
    BY <2>1, <2>4, <2>5, <2>6
<1>9. ASSUME NEW p \in Proc, NEW s \in Pass, Unlocks(p, s) PROVE \A q \in Proc : Keeps(q)'
  BY <1>9 DEF Unlocks, Opened, Goes
<1>10. ASSUME NEW p \in Proc, Truncates(p) PROVE \A q \in Proc : Keeps(q)'
  BY <1>10 DEF Truncates, Goes
<1>11. ASSUME NEW p \in Proc, Heals(p) PROVE \A q \in Proc : Keeps(q)'
  BY <1>11 DEF Heals, Goes
<1>12. ASSUME NEW p \in Proc, HealFails(p) PROVE \A q \in Proc : Keeps(q)'
  BY <1>12 DEF HealFails, Goes
<1>13. ASSUME NEW p \in Proc, Shares(p) PROVE \A q \in Proc : Keeps(q)'
  BY <1>13 DEF Shares, Ends
<1>14. ASSUME NEW p \in Proc, NEW s \in Pass, Checks(p, s) PROVE \A q \in Proc : Keeps(q)'
  BY <1>14 DEF Checks, Opened, Ends
<1>15. ASSUME NEW p \in Proc, Stop(p) PROVE \A q \in Proc : Keeps(q)'
  BY <1>15 DEF Stop, Ends
<1>16. CASE Forget
  BY <1>16 DEF Forget
<1>17. CASE UserRemoves
  BY <1>17 DEF UserRemoves
<1>18. CASE UNCHANGED vars
  BY <1>18 DEF vars
<1>19. QED
  BY <1>1, <1>2, <1>3, <1>4, <1>5, <1>6, <1>7, <1>8, <1>9, <1>10, <1>11, <1>12,
     <1>13, <1>14, <1>15, <1>16, <1>17, <1>18
  DEF Next

(* A key that is not in the file yet stays out of everyone else's hands. *)
LEMMA NextIsNew ==
    ASSUME IInv, [Next]_vars
    PROVE  \A q \in Proc : IsNew(q)'
<1> USE FileAssumption
    DEF IInv, Inv, TypeOK, InHand, Single, Filling, Hand, Fresh, Secrets, IsNew, locals
<1>1. ASSUME NEW p \in Proc, NEW o \in {"init", "whoami", "remember"}, Finds(p, o)
      PROVE  \A q \in Proc : IsNew(q)'
  BY <1>1 DEF Finds, Goes
<1>2. ASSUME NEW p \in Proc, NEW o \in {"init", "keygen"},
             NEW k \in Id, NEW s \in Pass \cup {NoPass}, Generates(p, o, k, s)
      PROVE  \A q \in Proc : IsNew(q)'
  BY <1>2 DEF Generates, Goes
<1>3. ASSUME NEW p \in Proc, Opens(p) PROVE \A q \in Proc : IsNew(q)'
  BY <1>3 DEF Opens, Goes
<1>4. ASSUME NEW p \in Proc, Fills(p) PROVE \A q \in Proc : IsNew(q)'
  BY <1>4 DEF Fills, Goes
<1>5. ASSUME NEW p \in Proc, FillFails(p) PROVE \A q \in Proc : IsNew(q)'
  BY <1>5 DEF FillFails, Ends
<1>6. ASSUME NEW p \in Proc, NEW remember \in BOOLEAN, Made(p, remember)
      PROVE  \A q \in Proc : IsNew(q)'
  BY <1>6 DEF Made, Goes
<1>7. ASSUME NEW p \in Proc, ReadsComment(p) PROVE \A q \in Proc : IsNew(q)'
  BY <1>7 DEF ReadsComment, Goes
<1>8. ASSUME NEW p \in Proc, LacksComment(p) PROVE \A q \in Proc : IsNew(q)'
  BY <1>8 DEF LacksComment, Goes
<1>9. ASSUME NEW p \in Proc, NEW s \in Pass, Unlocks(p, s) PROVE \A q \in Proc : IsNew(q)'
  BY <1>9 DEF Unlocks, Opened, Goes
<1>10. ASSUME NEW p \in Proc, Truncates(p) PROVE \A q \in Proc : IsNew(q)'
  BY <1>10 DEF Truncates, Goes
<1>11. ASSUME NEW p \in Proc, Heals(p) PROVE \A q \in Proc : IsNew(q)'
  BY <1>11 DEF Heals, Goes
<1>12. ASSUME NEW p \in Proc, HealFails(p) PROVE \A q \in Proc : IsNew(q)'
  BY <1>12 DEF HealFails, Goes
<1>13. ASSUME NEW p \in Proc, Shares(p) PROVE \A q \in Proc : IsNew(q)'
  BY <1>13 DEF Shares, Ends
<1>14. ASSUME NEW p \in Proc, NEW s \in Pass, Checks(p, s) PROVE \A q \in Proc : IsNew(q)'
  BY <1>14 DEF Checks, Opened, Ends
<1>15. ASSUME NEW p \in Proc, Stop(p) PROVE \A q \in Proc : IsNew(q)'
  BY <1>15 DEF Stop, Ends
<1>16. CASE Forget
  BY <1>16 DEF Forget
<1>17. CASE UserRemoves
  BY <1>17 DEF UserRemoves
<1>18. CASE UNCHANGED vars
  BY <1>18 DEF vars
<1>19. QED
  BY <1>1, <1>2, <1>3, <1>4, <1>5, <1>6, <1>7, <1>8, <1>9, <1>10, <1>11, <1>12,
     <1>13, <1>14, <1>15, <1>16, <1>17, <1>18
  DEF Next

(* Only identities that were made are used, and only theirs are cached. *)
LEMMA NextMade ==
    ASSUME IInv, [Next]_vars
    PROVE  /\ (\A p \in Proc : at[p] \in Fresh \cup Hand => pub[p] \in made)'
           /\ (file \in KeyFile => file.id \in made)'
           /\ (\A k \in Id : k \notin made => cache[k] = NoPass)'
<1> DEFINE Used == /\ \A p \in Proc : at[p] \in Fresh \cup Hand => pub[p] \in made
                   /\ file \in KeyFile => file.id \in made
                   /\ \A k \in Id : k \notin made => cache[k] = NoPass
<1> SUFFICES Used'
  OBVIOUS
<1> USE FileAssumption
    DEF IInv, Inv, TypeOK, InHand, Hand, Fresh, Secrets, locals
<1>1. ASSUME NEW p \in Proc, NEW o \in {"init", "whoami", "remember"}, Finds(p, o)
      PROVE  Used'
  BY <1>1 DEF Finds, Goes
<1>2. ASSUME NEW p \in Proc, NEW o \in {"init", "keygen"},
             NEW k \in Id, NEW s \in Pass \cup {NoPass}, Generates(p, o, k, s) PROVE Used'
  BY <1>2 DEF Generates, Goes
<1>3. ASSUME NEW p \in Proc, Opens(p) PROVE Used'
  BY <1>3 DEF Opens, Goes
<1>4. ASSUME NEW p \in Proc, Fills(p) PROVE Used'
  BY <1>4 DEF Fills, Goes
<1>5. ASSUME NEW p \in Proc, FillFails(p) PROVE Used'
  BY <1>5 DEF FillFails, Ends
<1>6. ASSUME NEW p \in Proc, NEW remember \in BOOLEAN, Made(p, remember) PROVE Used'
  BY <1>6 DEF Made, Goes
<1>7. ASSUME NEW p \in Proc, ReadsComment(p) PROVE Used'
  BY <1>7 DEF ReadsComment, Goes
<1>8. ASSUME NEW p \in Proc, LacksComment(p) PROVE Used'
  BY <1>8 DEF LacksComment, Goes
<1>9. ASSUME NEW p \in Proc, NEW s \in Pass, Unlocks(p, s) PROVE Used'
  BY <1>9 DEF Unlocks, Opened, Goes
<1>10. ASSUME NEW p \in Proc, Truncates(p) PROVE Used'
  BY <1>10 DEF Truncates, Goes
<1>11. ASSUME NEW p \in Proc, Heals(p) PROVE Used'
  BY <1>11 DEF Heals, Goes
<1>12. ASSUME NEW p \in Proc, HealFails(p) PROVE Used'
  BY <1>12 DEF HealFails, Goes
<1>13. ASSUME NEW p \in Proc, Shares(p) PROVE Used'
  BY <1>13 DEF Shares, Ends
<1>14. ASSUME NEW p \in Proc, NEW s \in Pass, Checks(p, s) PROVE Used'
  BY <1>14 DEF Checks, Opened, Ends
<1>15. ASSUME NEW p \in Proc, Stop(p) PROVE Used'
  BY <1>15 DEF Stop, Ends
<1>16. CASE Forget
  BY <1>16 DEF Forget
<1>17. CASE UserRemoves
  BY <1>17 DEF UserRemoves
<1>18. CASE UNCHANGED vars
  BY <1>18 DEF vars
<1>19. QED
  BY <1>1, <1>2, <1>3, <1>4, <1>5, <1>6, <1>7, <1>8, <1>9, <1>10, <1>11, <1>12,
     <1>13, <1>14, <1>15, <1>16, <1>17, <1>18
  DEF Next

(* What the keychain holds for the key in the file opens it. *)
LEMMA NextCached ==
    ASSUME IInv, [Next]_vars
    PROVE  CachedUnlocks'
<1> USE FileAssumption
    DEF IInv, Inv, TypeOK, InHand, Hand, Fresh, Secrets, Keeps, IsNew, Knows, Secret,
        CachedUnlocks, locals
<1>1. ASSUME NEW p \in Proc, NEW o \in {"init", "whoami", "remember"}, Finds(p, o)
      PROVE  CachedUnlocks'
  BY <1>1 DEF Finds, Goes
<1>2. ASSUME NEW p \in Proc, NEW o \in {"init", "keygen"},
             NEW k \in Id, NEW s \in Pass \cup {NoPass}, Generates(p, o, k, s)
      PROVE  CachedUnlocks'
  BY <1>2 DEF Generates, Goes
<1>3. ASSUME NEW p \in Proc, Opens(p) PROVE CachedUnlocks'
  BY <1>3 DEF Opens, Goes
<1>4. ASSUME NEW p \in Proc, Fills(p) PROVE CachedUnlocks'
  BY <1>4 DEF Fills, Goes
<1>5. ASSUME NEW p \in Proc, FillFails(p) PROVE CachedUnlocks'
  BY <1>5 DEF FillFails, Ends
<1>6. ASSUME NEW p \in Proc, NEW remember \in BOOLEAN, Made(p, remember)
      PROVE  CachedUnlocks'
  BY <1>6 DEF Made, Goes
<1>7. ASSUME NEW p \in Proc, ReadsComment(p) PROVE CachedUnlocks'
  BY <1>7 DEF ReadsComment, Goes
<1>8. ASSUME NEW p \in Proc, LacksComment(p) PROVE CachedUnlocks'
  BY <1>8 DEF LacksComment, Goes
<1>9. ASSUME NEW p \in Proc, NEW s \in Pass, Unlocks(p, s) PROVE CachedUnlocks'
  BY <1>9 DEF Unlocks, Opened, Goes
<1>10. ASSUME NEW p \in Proc, Truncates(p) PROVE CachedUnlocks'
  BY <1>10 DEF Truncates, Goes
<1>11. ASSUME NEW p \in Proc, Heals(p) PROVE CachedUnlocks'
  BY <1>11 DEF Heals, Goes
<1>12. ASSUME NEW p \in Proc, HealFails(p) PROVE CachedUnlocks'
  BY <1>12 DEF HealFails, Goes
<1>13. ASSUME NEW p \in Proc, Shares(p) PROVE CachedUnlocks'
  BY <1>13 DEF Shares, Ends
<1>14. ASSUME NEW p \in Proc, NEW s \in Pass, Checks(p, s) PROVE CachedUnlocks'
  BY <1>14 DEF Checks, Opened, Ends
<1>15. ASSUME NEW p \in Proc, Stop(p) PROVE CachedUnlocks'
  BY <1>15 DEF Stop, Ends
<1>16. CASE Forget
  BY <1>16 DEF Forget
<1>17. CASE UserRemoves
  BY <1>17 DEF UserRemoves
<1>18. CASE UNCHANGED vars
  BY <1>18 DEF vars
<1>19. QED
  BY <1>1, <1>2, <1>3, <1>4, <1>5, <1>6, <1>7, <1>8, <1>9, <1>10, <1>11, <1>12,
     <1>13, <1>14, <1>15, <1>16, <1>17, <1>18
  DEF Next

----------------------------------------------------------------------------
(* The inductive invariant. *)
LEMMA IdentityInvariance == Spec => []IInv
<1>1. IInv /\ [Next]_vars => IInv'
  <2> SUFFICES ASSUME IInv, [Next]_vars PROVE IInv'
    OBVIOUS
  <2>1. Inv'
    BY NextType, NextInHand, NextComment DEF Inv
  <2>2. Single'
    BY NextSingle
  <2>3. Secrets'
    BY NextKeeps, NextIsNew, NextMade, NextCached DEF Secrets
  <2>4. QED
    BY <2>1, <2>2, <2>3 DEF IInv
<1>2. QED
  BY InitIInv, <1>1, PTL DEF Spec

(* Types, and that the key in hand of a command is the one in the file and *)
(* goes with its own signing key.                                          *)
THEOREM Invariance == Spec => []Inv
BY IdentityInvariance, PTL DEF IInv

(* Until the key file is removed by hand, no two commands register or      *)
(* print different keys: the exclusive creation of the file decides which  *)
(* identity there is (identity.go:262-271).                                *)
THEOREM IdentityIsOne == Spec => []OneIdentity
<1>1. IInv => OneIdentity
  BY DEF IInv, Single
<1>2. QED
  BY IdentityInvariance, <1>1, PTL

(* What the keychain holds for the key in the file opens it                *)
(* (remember.go:35).                                                       *)
THEOREM CacheUnlocks == Spec => []CachedUnlocks
<1>1. IInv => CachedUnlocks
  BY DEF IInv, Secrets
<1>2. QED
  BY IdentityInvariance, <1>1, PTL

----------------------------------------------------------------------------
(* A key file that needs no repair is never put at risk: where every one   *)
(* at the start is of a current version, or in the clear, no command       *)
(* comes to the steps that truncate it, and who has a key in hand, or told *)
(* anyone of one, finds it in the file.                                    *)
NeedsNoRepair(f) == f.pass = NoPass \/ f.comment # NoComment
AllCurrent       == \A f \in InitFiles : NeedsNoRepair(f)

Durable == /\ file \in KeyFile => NeedsNoRepair(file)
           /\ \A p \in Proc : at[p] \notin {"unlock", "truncate", "heal"}
           /\ \A p \in Proc : at[p] \in Hand => file \in KeyFile
           /\ shared # {} => file \in KeyFile

LEMMA InitDurable == ASSUME AllCurrent, Init PROVE Durable
BY FileAssumption DEF AllCurrent, Init, Durable, Hand

LEMMA NextDurable ==
    ASSUME IInv, Durable, [Next]_vars
    PROVE  Durable'
<1> USE FileAssumption, NoneAssumption
    DEF IInv, Inv, TypeOK, InHand, Single, Filling, Hand, Fresh, Durable, locals,
        NeedsNoRepair
<1>1. ASSUME NEW p \in Proc, NEW o \in {"init", "whoami", "remember"}, Finds(p, o)
      PROVE  Durable'
  BY <1>1 DEF Finds, Goes
<1>2. ASSUME NEW p \in Proc, NEW o \in {"init", "keygen"},
             NEW k \in Id, NEW s \in Pass \cup {NoPass}, Generates(p, o, k, s)
      PROVE  Durable'
  BY <1>2 DEF Generates, Goes
<1>3. ASSUME NEW p \in Proc, Opens(p) PROVE Durable'
  BY <1>3 DEF Opens, Goes
<1>4. ASSUME NEW p \in Proc, Fills(p) PROVE Durable'
  <2>1. sign[p] = pub[p] /\ pub[p] \in Id
    BY <1>4, Written DEF Fills, Goes
  <2>2. file'.comment = pub[p] /\ file' \in KeyFile
    BY <1>4, <2>1, Written DEF Fills, Goes
  <2>3. QED
    BY <1>4, <2>1, <2>2 DEF Fills, Goes
<1>5. ASSUME NEW p \in Proc, FillFails(p) PROVE Durable'
  BY <1>5 DEF FillFails, Ends
<1>6. ASSUME NEW p \in Proc, NEW remember \in BOOLEAN, Made(p, remember) PROVE Durable'
  BY <1>6 DEF Made, Goes
<1>7. ASSUME NEW p \in Proc, ReadsComment(p) PROVE Durable'
  BY <1>7 DEF ReadsComment, Goes
<1>8. ASSUME NEW p \in Proc, LacksComment(p) PROVE Durable'
  BY <1>8 DEF LacksComment
<1>9. ASSUME NEW p \in Proc, NEW s \in Pass, Unlocks(p, s) PROVE Durable'
  BY <1>9 DEF Unlocks, Goes
<1>10. ASSUME NEW p \in Proc, Truncates(p) PROVE Durable'
  BY <1>10 DEF Truncates, Goes
<1>11. ASSUME NEW p \in Proc, Heals(p) PROVE Durable'
  BY <1>11 DEF Heals, Goes
<1>12. ASSUME NEW p \in Proc, HealFails(p) PROVE Durable'
  BY <1>12 DEF HealFails, Goes
<1>13. ASSUME NEW p \in Proc, Shares(p) PROVE Durable'
  BY <1>13 DEF Shares, Ends
<1>14. ASSUME NEW p \in Proc, NEW s \in Pass, Checks(p, s) PROVE Durable'
  BY <1>14 DEF Checks, Ends
<1>15. ASSUME NEW p \in Proc, Stop(p) PROVE Durable'
  BY <1>15 DEF Stop, Ends
<1>16. CASE Forget
  BY <1>16 DEF Forget
<1>17. CASE UserRemoves
  BY <1>17 DEF UserRemoves
<1>18. CASE UNCHANGED vars
  BY <1>18 DEF vars
<1>19. QED
  BY <1>1, <1>2, <1>3, <1>4, <1>5, <1>6, <1>7, <1>8, <1>9, <1>10, <1>11, <1>12,
     <1>13, <1>14, <1>15, <1>16, <1>17, <1>18
  DEF Next

(* From such a file, or from none, the key is kept: what has been told to  *)
(* anyone is on the disk whenever no command runs, whatever was killed or  *)
(* failed, in any number of terminals.  The run identity_heal shows that a *)
(* file of an old version may be lost.                                     *)
THEOREM CurrentKeyKept == ASSUME AllCurrent PROVE Spec => []KeyKept
<1>1. IInv /\ Durable => KeyKept
  BY DEF IInv, Single, Durable, KeyKept
<1>2. IInv /\ Durable /\ [Next]_vars => Durable'
  BY NextDurable
<1>3. QED
  BY IdentityInvariance, InitDurable, <1>1, <1>2, PTL DEF Spec
============================================================================
