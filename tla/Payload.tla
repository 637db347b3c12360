------------------------------ MODULE Payload ------------------------------
(***************************************************************************)
(* What env.shenv holds (src/internal/recipients/manifest.go): a payload   *)
(* encrypted to a set of age keys.  The payload names its signer, carries  *)
(* a signature, the list of members it was encrypted for, and the          *)
(* contents of .env.  Cryptography is symbolic: only an identity among     *)
(* `to` decrypts, and a signature verifies under the key that made it, over *)
(* the body and the project it was made for, and under no other.           *)
(***************************************************************************)
EXTENDS Recipients, Naturals

CONSTANTS Env,        \* contents of a .env file
          Project,    \* project ids config.shenv may name
          NoProject,  \* "": config.shenv names none; the signature is unbound
          NoSigner,   \* a payload of a version of shenv that did not sign
          Heading,    \* the member lines a .env happens to begin with
          Beneath     \* what such a .env holds after them

ASSUME NoProjectAssumption == NoProject \notin Project
ASSUME NoSignerAssumption  == NoSigner \notin Name
ASSUME HeadingAssumption   ==
    /\ Heading \in [Env -> SUBSET Member] /\ Beneath \in [Env -> Env]
    /\ \A e \in Env : /\ Heading[e] = {} => Beneath[e] = e
                      /\ Heading[Beneath[e]] = {}

AnyProject == Project \cup {NoProject}

(* ver numbers the seals, since no two produce the same bytes; signer,     *)
(* sign and project are the signer line: the name it claims, and the key   *)
(* and the project the signature was made with.                            *)
Blob == [ver : Nat, to : SUBSET Key, signer : Name \cup {NoSigner},
         sign : SignKey, project : AnyProject, manifest : File, env : Env]

CanDecrypt(b, k) == k \in b.to

(* ExtractManifest takes every member line at the start of the body for    *)
(* the manifest, those a .env begins with included, and what follows them  *)
(* for the contents.                                                       *)
MembersIn(b)  == b.manifest \cup Heading[b.env]
ContentsOf(b) == Beneath[b.env]

(* Mutant: the signature is made without the project. *)
SealedUnbound(v, members, self, project, env) ==
    [ver |-> v, to |-> KeysOf(members), signer |-> self.name, sign |-> self.sign,
     project |-> NoProject, manifest |-> members, env |-> env]

(* SealPayload and EncryptBytes: manifest and recipients are one list, and *)
(* the signature covers them, the contents and the project.                *)
Sealed(v, members, self, project, env) ==
    [ver |-> v, to |-> KeysOf(members), signer |-> self.name, sign |-> self.sign,
     project |-> project, manifest |-> members, env |-> env]

(* Mutant: a blob bound to one project is accepted in another. *)
VerifiedInAnyProject(b, project, members, allowUnbound) ==
    \E m \in members : m.name = b.signer /\ m.sign = b.sign

(* verifiedBody: a bound blob verifies only where config.shenv names its   *)
(* project; an unbound one where it names none, or in seal's lockout guard *)
(* while a repo migrates; and the signer must be a member, with that key.  *)
Verified(b, project, members, allowUnbound) ==
    /\ b.project = NoProject => project = NoProject \/ allowUnbound
    /\ b.project # NoProject => b.project = project
    /\ Loadable(members)
    /\ \E m \in members : m.name = b.signer /\ m.sign = b.sign
============================================================================
