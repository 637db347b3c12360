----------------------------- MODULE Versions -----------------------------
(***************************************************************************)
(* How shenv orders versions (src/internal/update/update.go): a core of    *)
(* fields and, after a "-", pre-release identifiers.  A field is an opaque *)
(* identifier: Num is what Atoi reads in it, and NaN where that fails;     *)
(* Bytes is its place in the byte order of strings.  Build metadata, which *)
(* the code cuts off, is not part of a version here.                       *)
(***************************************************************************)
EXTENDS Integers, Sequences, FiniteSetsExt

CONSTANTS Ident, Zero, Num, NaN, Bytes

ASSUME IdentAssumption == /\ Zero \in Ident /\ Num[Zero] = 0
                          /\ NaN \notin Nat
                          /\ Num \in [Ident -> Nat \cup {NaN}]
                          /\ Bytes \in [Ident -> Nat]

IsVersion(v) == v.core \in Seq(Ident) \ {<<>>} /\ v.pre \in Seq(Ident)

IsNum(i)   == Num[i] # NaN
Sign(m, n) == IF m < n THEN -1 ELSE IF m > n THEN 1 ELSE 0

(* The first of the verdicts that is not "equal", if there is one. *)
FirstOf(verdict, otherwise) ==
    LET differ == {i \in DOMAIN verdict : verdict[i] # 0}
    IN IF differ = {} THEN otherwise ELSE verdict[Min(differ)]

(* Mutant: fields are compared as strings. *)
CompareFieldText(a, b) == Sign(Bytes[a], Bytes[b])

CompareNumericField(a, b) ==
    IF IsNum(a) /\ IsNum(b) THEN Sign(Num[a], Num[b]) ELSE Sign(Bytes[a], Bytes[b])

Field(fields, i) == IF i <= Len(fields) THEN fields[i] ELSE Zero

(* A field that is missing counts as 0. *)
CompareCore(a, b) ==
    FirstOf([i \in 1..Max({Len(a), Len(b)}) |-> CompareNumericField(Field(a, i), Field(b, i))], 0)

CompareIdent(a, b) ==
    IF IsNum(a) # IsNum(b) THEN IF IsNum(a) THEN -1 ELSE 1
                           ELSE CompareNumericField(a, b)

(* Where all shared identifiers are equal, the shorter list is older. *)
ComparePrerelease(a, b) ==
    FirstOf([i \in 1..Min({Len(a), Len(b)}) |-> CompareIdent(a[i], b[i])],
            Sign(Len(a), Len(b)))

IsPrerelease(v) == v.pre # <<>>

(* Between equal cores, a release is newer than its pre-releases. *)
CompareVersions(a, b) ==
    LET c == CompareCore(a.core, b.core)
    IN IF c # 0 THEN c
       ELSE IF ~IsPrerelease(a) \/ ~IsPrerelease(b)
       THEN (IF IsPrerelease(b) THEN 1 ELSE 0) - (IF IsPrerelease(a) THEN 1 ELSE 0)
       ELSE ComparePrerelease(a.pre, b.pre)

IsNewer(latest, current) == CompareVersions(latest, current) > 0

(* Mutant: whoever asks for the latest release gets it. *)
PrereleaseAllowedToAll(latest, current) == TRUE

(* Only who runs a pre-release is offered one. *)
PrereleaseAllowed(latest, current) == ~IsPrerelease(latest) \/ IsPrerelease(current)

----------------------------------------------------------------------------
(* The order that semver.org defines (item 11), in relations: who comes    *)
(* before whom.  Where neither does they are of the same precedence.       *)
(* Numeric identifiers come first, and textual ones are in byte order.     *)
IdentPrecedes(i, j) == \/ IsNum(i) /\ IsNum(j) /\ Num[i] < Num[j]
                       \/ IsNum(i) /\ ~IsNum(j)
                       \/ ~IsNum(i) /\ ~IsNum(j) /\ Bytes[i] < Bytes[j]

SamePlace(i, j) == ~IdentPrecedes(i, j) /\ ~IdentPrecedes(j, i)

(* At the first difference, or where the shorter list ends. *)
PrePrecedes(a, b) == \E n \in 1..Len(b) :
    /\ n <= Len(a) + 1
    /\ \A m \in 1..(n - 1) : SamePlace(a[m], b[m])
    /\ n = Len(a) + 1 \/ IdentPrecedes(a[n], b[n])

(* The numbers of a core, any that are missing being 0. *)
Part(core, n) == IF n <= Len(core) THEN Num[core[n]] ELSE 0

CorePrecedes(a, b) == \E n \in DOMAIN a \cup DOMAIN b :
    /\ \A m \in 1..(n - 1) : Part(a, m) = Part(b, m)
    /\ Part(a, n) < Part(b, n)

Precedes(v, w) ==
    \/ CorePrecedes(v.core, w.core)
    \/ /\ ~CorePrecedes(w.core, v.core)
       /\ v.pre # <<>>
       /\ w.pre = <<>> \/ PrePrecedes(v.pre, w.pre)

(* Semantic versions have cores of numbers. *)
IsSemantic(v) == IsVersion(v) /\ \A i \in DOMAIN v.core : IsNum(v.core[i])
============================================================================
