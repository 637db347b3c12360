------------------------------ MODULE Backend ------------------------------
(***************************************************************************)
(* Where the blob is kept (src/internal/backend): a file of the repo that  *)
(* is replaced by an atomic rename, or a store behind two shell commands   *)
(* of config.shenv, which run only once the user has approved them.        *)
(*                                                                         *)
(* seal gets the blob for its lockout check and puts another one; open and *)
(* run only get.  A refusal, an error that ends a command, a no, ^C and a  *)
(* kill are Stop; the temporary file a kill leaves is never looked at.     *)
(* Blobs are opaque: those in Big are over MaxBlobSize.                    *)
(***************************************************************************)
EXTENDS FiniteSets, Naturals

CONSTANTS Proc,
          Command,      \* the get and put commands an exec backend may name
          Blob, Big, NoBlob,
          Torn,         \* what is left of a blob that was not written to the end
          InitFile, InitRemote, InitConfig,  \* what may be there at the start
          MaxMoves,     \* bound on pulls of another config.shenv
          MaxCommands   \* bound on the commands started

ASSUME BlobsAssumption == /\ Big \subseteq Blob
                          /\ NoBlob \notin Blob
                          /\ Torn \notin Blob \cup {NoBlob}
ASSUME CommandAssumption == "file" \notin Command
ASSUME InitAssumption == /\ InitFile \cup InitRemote \subseteq Blob \cup {NoBlob}
                         /\ InitConfig \subseteq Command \cup {"file"}
ASSUME BoundsAssumption == MaxMoves \in Nat /\ MaxCommands \in Nat

Backends == Command \cup {"file"}
Content  == [data : Blob \cup {Torn}, synced : BOOLEAN]
NoFile   == [data |-> NoBlob, synced |-> TRUE]
Flushed(c) == [data |-> c.data, synced |-> TRUE]

VARIABLES file, recent,    \* env.shenv, and what a power failure may bring back
          tmp,             \* per command: its temporary file beside env.shenv
          remote,          \* what the exec backend's storage holds
          orphans,         \* blobs a put left running may still store
          cfg,             \* the backend config.shenv names
          trusted, halfLine,  \* ~/.shenv/trusted, and whether its last line is cut
          approved,        \* commands the user said yes to; history
          moves, started,
          at, op, store, blob, result,  \* per command: its step and local variables
          child, out, holds,  \* its shell: running or how it ended, its output,
                              \* and whether something else holds its output open
          saw              \* what was stored while it was getting; history

files    == <<file, recent, tmp>>
remotes  == <<remote, orphans>>
trust    == <<trusted, halfLine, approved>>
config   == <<cfg, moves, started>>
locals   == <<op, store, blob, result>>
children == <<child, out, holds>>
vars     == <<files, remotes, trust, config, at, locals, children, saw>>

Steps == {"idle", "trust", "ask", "record", "get", "getting", "got", "put",
          "write", "sync", "rename", "putting"}

TypeOK ==
    /\ file \in Content \cup {NoFile}
    /\ recent \subseteq Content \cup {NoFile}
    /\ tmp \in [Proc -> Content \cup {NoFile}]
    /\ remote \in Blob \cup {NoBlob}
    /\ orphans \subseteq Blob
    /\ cfg \in Backends
    /\ trusted \subseteq Command
    /\ halfLine \in BOOLEAN
    /\ approved \subseteq Command
    /\ moves \in 0..MaxMoves /\ started \in 0..MaxCommands
    /\ at \in [Proc -> Steps]
    /\ op \in [Proc -> {"none", "seal", "open"}]
    /\ store \in [Proc -> Backends]
    /\ blob \in [Proc -> Blob \cup {NoBlob}]
    /\ result \in [Proc -> Blob \cup {NoBlob, Torn}]
    /\ child \in [Proc -> {"none", "running", "zero", "failed"}]
    /\ out \in [Proc -> Blob \cup {NoBlob, Torn}]
    /\ holds \in [Proc -> BOOLEAN]
    /\ saw \in [Proc -> SUBSET (Blob \cup {NoBlob, Torn})]

Init ==
    /\ file \in {[data |-> b, synced |-> TRUE] : b \in InitFile}
    /\ recent = {}
    /\ tmp = [p \in Proc |-> NoFile]
    /\ remote \in InitRemote
    /\ orphans = {}
    /\ cfg \in InitConfig
    /\ trusted = {} /\ halfLine = FALSE /\ approved = {}
    /\ moves = 0 /\ started = 0
    /\ at = [p \in Proc |-> "idle"]
    /\ op = [p \in Proc |-> "none"]
    /\ store = [p \in Proc |-> "file"]
    /\ blob = [p \in Proc |-> NoBlob]
    /\ result = [p \in Proc |-> NoBlob]
    /\ child = [p \in Proc |-> "none"]
    /\ out = [p \in Proc |-> NoBlob]
    /\ holds = [p \in Proc |-> FALSE]
    /\ saw = [p \in Proc |-> {}]

----------------------------------------------------------------------------
Goes(p, from, to) == at[p] = from /\ at' = [at EXCEPT ![p] = to]

Forgets(p) == /\ op' = [op EXCEPT ![p] = "none"]
              /\ store' = [store EXCEPT ![p] = "file"]
              /\ blob' = [blob EXCEPT ![p] = NoBlob]
              /\ result' = [result EXCEPT ![p] = NoBlob]
              /\ child' = [child EXCEPT ![p] = "none"]
              /\ out' = [out EXCEPT ![p] = NoBlob]
              /\ holds' = [holds EXCEPT ![p] = FALSE]
              /\ saw' = [saw EXCEPT ![p] = {}]

Ends(p) == at' = [at EXCEPT ![p] = "idle"] /\ Forgets(p)

(* A shell that was putting when its command is killed may go on. *)
MayLeave(p) == orphans' \in {orphans, IF at[p] = "putting" THEN orphans \cup {blob[p]}
                                                          ELSE orphans}

Stop(p) == /\ at[p] # "idle"
           /\ Ends(p)
           /\ tmp' = [tmp EXCEPT ![p] = NoFile]
           /\ MayLeave(p)
           /\ UNCHANGED <<file, recent, remote, trust, config>>

----------------------------------------------------------------------------
(* Load, then EnsureTrusted: the commands held in memory are the ones that *)
(* are looked up, shown, recorded and run.                                 *)
Starts(p, o, b) ==
    /\ Goes(p, "idle", "trust")
    /\ op' = [op EXCEPT ![p] = o]
    /\ store' = [store EXCEPT ![p] = cfg]
    /\ blob' = [blob EXCEPT ![p] = b]
    /\ started < MaxCommands
    /\ started' = started + 1
    /\ UNCHANGED <<files, remotes, trust, cfg, moves, result, children, saw>>

(* Mutant: a machine that has approved one exec backend approves them all. *)
IsTrustedOnce(c) == trusted # {}

IsTrusted(c) == c \in trusted

(* Mutant: a file backend is asked about as well. *)
ChecksAll(p) ==
    /\ Goes(p, "trust", IF IsTrusted(store[p]) THEN "get" ELSE "ask")
    /\ UNCHANGED <<files, remotes, trust, config, locals, children, saw>>

Checks(p) ==
    /\ Goes(p, "trust", IF store[p] = "file" \/ IsTrusted(store[p]) THEN "get" ELSE "ask")
    /\ UNCHANGED <<files, remotes, trust, config, locals, children, saw>>

(* A yes, or SHENV_ALLOW_EXEC=1, which records nothing. *)
Approves(p) ==
    /\ \E to \in {"record", "get"} : Goes(p, "ask", to)
    /\ approved' = approved \cup {store[p]}
    /\ UNCHANGED <<files, remotes, trusted, halfLine, config, locals, children, saw>>

(* addTrusted appends a line.  A line that was cut short before swallows   *)
(* the next one, and its commands are asked about again.                   *)
Records(p) ==
    /\ Goes(p, "record", "get")
    /\ trusted' = IF halfLine THEN trusted ELSE trusted \cup {store[p]}
    /\ halfLine' = FALSE
    /\ UNCHANGED <<files, remotes, approved, config, locals, children, saw>>

(* A line cut short past the fingerprint counts all the same. *)
RecordsHalf(p) ==
    /\ at[p] = "record"
    /\ trusted' \in IF halfLine THEN {trusted} ELSE {trusted, trusted \cup {store[p]}}
    /\ halfLine' = TRUE
    /\ Ends(p)
    /\ UNCHANGED <<files, remotes, approved, config>>

----------------------------------------------------------------------------
(* FileBackend.Get.  The file opened is never written to again, so that    *)
(* opening and reading it are one step.                                    *)
Readable(b) == b \notin Big

ReadsFile(p) ==
    /\ Goes(p, "get", "got")
    /\ store[p] = "file"
    /\ Readable(file.data)
    /\ result' = [result EXCEPT ![p] = file.data]
    /\ saw' = [saw EXCEPT ![p] = {file.data}]
    /\ UNCHANGED <<files, remotes, trust, config, op, store, blob, children>>

(* ExecBackend.Get: the shell and what it starts, until it ends. *)
RunsGet(p) ==
    /\ Goes(p, "get", "getting")
    /\ store[p] # "file"
    /\ child' = [child EXCEPT ![p] = "running"]
    /\ saw' = [saw EXCEPT ![p] = {remote}]
    /\ UNCHANGED <<files, remotes, trust, config, locals, out, holds>>

ChildEnds(p, how) ==
    /\ child[p] = "running"
    /\ child' = [child EXCEPT ![p] = how]
    /\ \E h \in BOOLEAN : holds' = [holds EXCEPT ![p] = h]

(* What a get that does not end well may have written. *)
SomeOutput(p) == IF at[p] = "getting" THEN {NoBlob, Torn, remote} ELSE {NoBlob}

(* The contract: exit 0 after the whole blob, or nothing if there is none. *)
Answers(p) ==
    /\ at[p] = "getting"
    /\ ChildEnds(p, "zero")
    /\ out' = [out EXCEPT ![p] = remote]
    /\ UNCHANGED <<files, remotes, trust, config, at, locals, saw>>

(* Mutant: the timeout covers get only. *)
GetTimesOut(p) ==
    /\ at[p] = "getting"
    /\ ChildEnds(p, "failed")
    /\ \E o \in SomeOutput(p) : out' = [out EXCEPT ![p] = o]
    /\ UNCHANGED <<files, remotes, trust, config, at, locals, saw>>

(* The shell is killed by the timeout of shellCommand, wherever it is.     *)
(* What it started is not: that may hold its output, or still store.       *)
TimesOut(p) ==
    /\ at[p] \in {"getting", "putting"}
    /\ ChildEnds(p, "failed")
    /\ \E o \in SomeOutput(p) : out' = [out EXCEPT ![p] = o]
    /\ MayLeave(p)
    /\ UNCHANGED <<files, remote, trust, config, at, locals, saw>>

(* A command that fails by itself exits with another status. *)
Fails(p) ==
    /\ at[p] \in {"getting", "putting"}
    /\ ChildEnds(p, "failed")
    /\ \E o \in SomeOutput(p) : out' = [out EXCEPT ![p] = o]
    /\ UNCHANGED <<files, remotes, trust, config, at, locals, saw>>

LetsGo(p) ==
    /\ holds[p]
    /\ holds' = [holds EXCEPT ![p] = FALSE]
    /\ UNCHANGED <<files, remotes, trust, config, at, locals, child, out, saw>>

(* capWriter keeps what fits, and notes that there was more. *)
Buffered(o) == IF o \in Big THEN Torn ELSE o

(* cmd.Run returns once the shell has ended and its output is closed. *)
Returned(p) == child[p] \in {"zero", "failed"} /\ ~holds[p]

(* Mutant: no output means that there is no blob, whatever the status. *)
AnsweredByOutput(p) == out[p] \notin Big /\ (out[p] = NoBlob \/ child[p] = "zero")

(* Output past the cap is an error, then any status but 0 is; of what is   *)
(* left, no output is ErrNotFound.                                         *)
Answered(p) == Readable(out[p]) /\ child[p] = "zero"

GetReturns(p) ==
    /\ at[p] = "getting"
    /\ Returned(p)
    /\ \/ /\ Answered(p)
          /\ at' = [at EXCEPT ![p] = "got"]
          /\ result' = [result EXCEPT ![p] = Buffered(out[p])]
          /\ child' = [child EXCEPT ![p] = "none"]
          /\ out' = [out EXCEPT ![p] = NoBlob]
          /\ UNCHANGED <<op, store, blob, holds, saw>>
       \/ ~Answered(p) /\ Ends(p)
    /\ UNCHANGED <<files, remotes, trust, config>>

(* open has its blob, or reports that there is none. *)
Opens(p) ==
    /\ at[p] = "got" /\ op[p] = "open"
    /\ Ends(p)
    /\ UNCHANGED <<files, remotes, trust, config>>

(* seal comes through its prompts, without a lockout check if there is none. *)
Seals(p) ==
    /\ op[p] = "seal"
    /\ Goes(p, "got", "put")
    /\ UNCHANGED <<files, remotes, trust, config, locals, children, saw>>

----------------------------------------------------------------------------
(* FileBackend.Put: WriteFileAtomic makes a file that nobody else has,     *)
(* writes it, syncs it, closes it and renames it.                          *)
Tmp(p, c) == tmp' = [tmp EXCEPT ![p] = c]

(* Mutant: the size is not checked before the blob is stored. *)
AnySize(b) == b \in Blob
(* checkBlobSize, and sealEnv's check of the finished blob before. *)
SizeOK(b) == b \notin Big

(* A blob over the limit is neither read nor stored. *)
Refuses(p) ==
    /\ \/ at[p] = "get" /\ store[p] = "file" /\ ~Readable(file.data)
       \/ at[p] = "put" /\ ~SizeOK(blob[p])
    /\ Ends(p)
    /\ UNCHANGED <<files, remotes, trust, config>>

CreatesTemp(p) ==
    /\ Goes(p, "put", "write")
    /\ store[p] = "file"
    /\ SizeOK(blob[p])
    /\ Tmp(p, [data |-> Torn, synced |-> FALSE])
    /\ UNCHANGED <<file, recent, remotes, trust, config, locals, children, saw>>

Writes(p) ==
    /\ Goes(p, "write", "sync")
    /\ Tmp(p, [data |-> blob[p], synced |-> FALSE])
    /\ UNCHANGED <<file, recent, remotes, trust, config, locals, children, saw>>

(* Mutant: the file is renamed before it has been flushed. *)
SyncsNothing(p) ==
    /\ Goes(p, "sync", "rename")
    /\ UNCHANGED <<files, remotes, trust, config, locals, children, saw>>

Syncs(p) ==
    /\ Goes(p, "sync", "rename")
    /\ Tmp(p, Flushed(tmp[p]))
    /\ UNCHANGED <<file, recent, remotes, trust, config, locals, children, saw>>

(* The directory is not synced: the old name may come back. *)
Renames(p) ==
    /\ at[p] = "rename"
    /\ file' = tmp[p]
    /\ recent' = recent \cup {file}
    /\ Tmp(p, NoFile)
    /\ Ends(p)
    /\ UNCHANGED <<remotes, trust, config>>

(* A step of WriteFileAtomic fails: what has been made is removed. *)
PutFails(p) ==
    /\ at[p] \in {"put", "write", "sync", "rename"}
    /\ Tmp(p, NoFile)
    /\ Ends(p)
    /\ UNCHANGED <<file, recent, remotes, trust, config>>

(* Every command is gone; a file that was not synced may be torn. *)
PowerFails ==
    /\ \E c \in recent \cup {file} :
          file' \in IF c.synced THEN {c} ELSE {Flushed(c), [data |-> Torn, synced |-> TRUE]}
    /\ recent' = {}
    /\ tmp' = [p \in Proc |-> NoFile]
    /\ at' = [p \in Proc |-> "idle"]
    /\ op' = [p \in Proc |-> "none"]
    /\ store' = [p \in Proc |-> "file"]
    /\ blob' = [p \in Proc |-> NoBlob]
    /\ result' = [p \in Proc |-> NoBlob]
    /\ child' = [p \in Proc |-> "none"]
    /\ out' = [p \in Proc |-> NoBlob]
    /\ holds' = [p \in Proc |-> FALSE]
    /\ saw' = [p \in Proc |-> {}]
    /\ orphans' = {}
    /\ UNCHANGED <<remote, trust, config>>

(* The system writes the directory, and with it the files, to the disk. *)
Settles ==
    /\ recent' = {}
    /\ file' = Flushed(file)
    /\ UNCHANGED <<tmp, remotes, trust, config, at, locals, children, saw>>

----------------------------------------------------------------------------
(* ExecBackend.Put. *)
RunsPut(p) ==
    /\ Goes(p, "put", "putting")
    /\ store[p] # "file"
    /\ SizeOK(blob[p])
    /\ child' = [child EXCEPT ![p] = "running"]
    /\ UNCHANGED <<files, remotes, trust, config, locals, out, holds, saw>>

RemoteIs(b) == /\ remote' = b
               /\ saw' = [q \in Proc |-> IF at[q] = "getting" THEN saw[q] \cup {b}
                                                             ELSE saw[q]]

(* The put command stores the blob, and then exits with 0, or does not. *)
Stored(p) ==
    /\ at[p] = "putting"
    /\ RemoteIs(blob[p])
    /\ \E how \in {"zero", "failed"} : ChildEnds(p, how)
    /\ UNCHANGED <<files, orphans, trust, config, at, locals, out>>

PutReturns(p) ==
    /\ at[p] = "putting"
    /\ Returned(p)
    /\ Ends(p)
    /\ UNCHANGED <<files, remotes, trust, config>>

OrphanStores(b) ==
    /\ b \in orphans
    /\ orphans' = orphans \ {b}
    /\ RemoteIs(b)
    /\ UNCHANGED <<files, trust, config, at, locals, children>>

(* A pull brings another config.shenv. *)
NewConfig(c) ==
    /\ moves < MaxMoves
    /\ moves' = moves + 1
    /\ cfg' = c
    /\ UNCHANGED <<files, remotes, trust, started, at, locals, children, saw>>

FileSteps(p) == \/ ReadsFile(p)
                \/ CreatesTemp(p)
                \/ Writes(p)
                \/ Syncs(p)
                \/ Renames(p)
                \/ PutFails(p)

(* What shenv itself does while it waits for nobody but the storage. *)
Own(p) == \/ Checks(p)
          \/ Records(p) \/ RecordsHalf(p)
          \/ FileSteps(p)
          \/ RunsGet(p) \/ GetReturns(p)
          \/ Opens(p) \/ Refuses(p)
          \/ RunsPut(p) \/ PutReturns(p)

Storage(p) == Answers(p) \/ Fails(p) \/ Stored(p) \/ LetsGo(p)

Next == \/ \E p \in Proc : \/ Starts(p, "open", NoBlob)
                           \/ \E b \in Blob : Starts(p, "seal", b)
                           \/ Approves(p) \/ Seals(p)
                           \/ Own(p) \/ Storage(p) \/ TimesOut(p) \/ Stop(p)
        \/ \E b \in Blob : OrphanStores(b)
        \/ \E c \in Backends : NewConfig(c)
        \/ Settles
        \/ PowerFails

(* shenv's own steps are not delayed forever, and the timeout fires.  The  *)
(* user and the storage are not obliged to anything.                       *)
Fairness == \A p \in Proc : WF_vars(Own(p)) /\ WF_vars(TimesOut(p))

Spec == Init /\ [][Next]_vars /\ Fairness

----------------------------------------------------------------------------
(* What each step of a command may rely on. *)
Writing == {"put", "write", "sync", "rename", "putting"}
Past    == {"record", "get", "getting", "got"} \cup Writing

Locals(p) ==
    /\ op[p] = "seal" => blob[p] \in Blob
    /\ at[p] \in Writing => op[p] = "seal"
    /\ at[p] \in Writing \ {"put"} => Readable(blob[p])
    /\ at[p] \in Past /\ store[p] # "file" => store[p] \in approved
    /\ at[p] \in {"ask", "record", "getting", "putting"} => store[p] # "file"
    /\ child[p] # "none" => at[p] \in {"getting", "putting"}

Gets(p) ==
    /\ at[p] = "getting" => remote \in saw[p]
    /\ at[p] = "getting" /\ child[p] = "zero" => out[p] \in saw[p]

(* Only the temporary file is ever unfinished. *)
Whole(c) == c.synced /\ c.data # Torn

WholeFiles ==
    /\ Whole(file) /\ \A c \in recent : Whole(c)
    /\ \A p \in Proc : /\ at[p] = "sync" => tmp[p].data = blob[p]
                       /\ at[p] = "rename" => Whole(tmp[p]) /\ tmp[p].data = blob[p]

Waiting == {"idle", "ask", "got"}

(* The file of the file backend keeps the promise of a blob store: however *)
(* writers overlap, fail, are killed or lose their power between two steps *)
(* of WriteFileAtomic, a reader is given a whole blob that was put, and    *)
(* only a power failure takes one back (backend.go:85-89).                 *)
Promise == INSTANCE BlobStore WITH blob <- file.data, recent <- {c.data : c \in recent}
ImplementsBlobStore == Promise!Spec

(* What Get returns was stored at some moment of the call, and ErrNotFound *)
(* means that nothing was: a failed, killed or cut-off get is never taken  *)
(* for a first seal, which would skip the lockout check, nor its output    *)
(* for the blob (backend.go:34-37, 164-169).                               *)
GetTrue == \A p \in Proc : at[p] = "got" => result[p] \in saw[p]

(* No command of a config.shenv runs on a machine whose user did not       *)
(* approve that very command, whatever a pull brings while the question is *)
(* open and however the record of approvals was cut short (trust.go:13-17).*)
RunsApproved == \A p \in Proc : child[p] # "none" => store[p] \in approved

(* The properties' common inductive strengthening. *)
Inv == /\ TypeOK
       /\ trusted \subseteq approved
       /\ WholeFiles
       /\ \A b \in orphans : Readable(b)
       /\ \A p \in Proc : Locals(p) /\ Gets(p)
       /\ GetTrue
       /\ RunsApproved

(* A put never replaces what can be read by what cannot: only a power      *)
(* failure that takes a put back brings an oversized blob of another tool  *)
(* to the file again (backend.go:26-32).                                   *)
StaysReadable ==
    [][/\ Readable(remote) => Readable(remote')
       /\ Readable(file.data) => \/ Readable(file.data)'
                                 \/ \E c \in recent : c.data = file'.data]_vars

(* Every call of the backend comes to an end: a shell that stalls is timed *)
(* out.  The exception is in the formula: while a process it has started   *)
(* holds its output open, cmd.Run waits on (backend.go:347-359).           *)
CallsReturn ==
    \A p \in Proc : []<>(~holds[p]) => (at[p] \notin Waiting ~> at[p] \in Waiting)
============================================================================
