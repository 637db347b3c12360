---------------------------- MODULE SelfUpdate ----------------------------
(***************************************************************************)
(* shenv update and the notice of a newer version (src/internal/update).   *)
(*                                                                         *)
(* One installed binary: the file at the path of the executable and, on    *)
(* Windows, the one the swap moves aside.  Every command starts from that  *)
(* path; it runs what it was started from until it ends.  A cache file     *)
(* under ~/.shenv holds the latest version heard of, and when it was asked *)
(* for.  GitHub answers with anything: what a genuine release holds is     *)
(* decided by the signature alone.  Stop is an error that ends a command,  *)
(* ^C and a kill.                                                          *)
(***************************************************************************)
EXTENDS Versions

CONSTANTS Proc,
          Version,      \* the versions released; they follow semver (CHANGELOG.md:5)
          Installed,    \* those one may have at the start
          Order,        \* their ranks in the precedence that semver.org defines
          Answers,      \* what GitHub and the downloads may come to
          None,         \* no file; no version
          Bad,          \* a binary that is no release
          MaxCommands   \* bound on the commands started

(* The tag, the archive behind it, the checksums file (whose archive it    *)
(* names and what it says of it), and the release the signature is for.    *)
Answer == [tag : Version, archive : Version \cup {Bad},
           sums : [of : Version, lists : Version \cup {Bad}],
           sig : Version \cup {None}]

ASSUME VersionAssumption == /\ \A v \in Version : IsSemantic(v)
                            /\ Installed \subseteq Version
                            /\ Order \in [Version -> Nat]
                            /\ \A v, w \in Version : Order[v] < Order[w] <=> Precedes(v, w)
                            /\ None \notin Version /\ Bad \notin Version /\ None # Bad
ASSUME AnswersAssumption == Answers \subseteq Answer
ASSUME CommandsAssumption == MaxCommands \in Nat

VARIABLES windows,      \* the platform; it never changes
          exe, old,     \* the binary, and <exe>.old
          cut,          \* an update was killed between its two renames, or
                        \* could not undo the first; history
          cache,        \* update-check.json
          known,        \* the version last recorded in it
          asks,         \* the requests made in its window
          lost,         \* how often the claim on the window was lost: a read or
                        \* a write of the cache failed or was cut short
          overlapped,   \* refreshes overlapped in the window; history, all four
          started,
          at, op, ver,  \* per command: its step, what it is, the version it runs
          loc,          \* where the file it runs from is now
          ans,          \* what GitHub answered
          st            \* the notice's copy of the cache

disk   == <<exe, old, cut>>
notice == <<cache, known, asks, lost, overlapped>>
locals == <<op, ver, loc, ans, st>>
vars   == <<windows, disk, notice, started, at, locals>>

Cache == [fresh : BOOLEAN, latest : Version \cup {None}]
Empty == [fresh |-> FALSE, latest |-> None]   \* how an empty or missing file loads
NoAnswer == [tag |-> None]

Updating   == {"query", "verify", "stage", "removeOld", "aside", "swap", "restore"}
Refreshing == {"claim", "claiming", "fetch", "save", "saving"}
Steps      == {"idle", "cleanup", "load"} \cup Updating \cup Refreshing

TypeOK ==
    /\ windows \in BOOLEAN /\ cut \in BOOLEAN /\ overlapped \in BOOLEAN
    /\ exe \in Version \cup {None, Bad} /\ old \in Version \cup {None, Bad}
    /\ cache \in Cache
    /\ known \in Version \cup {None}
    /\ asks \in Nat /\ lost \in Nat
    /\ started \in 0..MaxCommands
    /\ at \in [Proc -> Steps]
    /\ op \in [Proc -> {"none", "update", "other"}]
    /\ ver \in [Proc -> Version \cup {None, Bad}]
    /\ loc \in [Proc -> {"exe", "old", "gone"}]
    /\ ans \in [Proc -> Answer \cup {NoAnswer}]
    /\ st \in [Proc -> Cache]

Init ==
    /\ windows \in BOOLEAN
    /\ exe \in Installed /\ old = None /\ cut = FALSE
    /\ known \in Installed \cup {None}
    /\ cache = [fresh |-> FALSE, latest |-> known]
    /\ asks = 0 /\ lost = 0 /\ overlapped = FALSE
    /\ started = 0
    /\ at = [p \in Proc |-> "idle"]
    /\ op = [p \in Proc |-> "none"]
    /\ ver = [p \in Proc |-> None]
    /\ loc = [p \in Proc |-> "gone"]
    /\ ans = [p \in Proc |-> NoAnswer]
    /\ st = [p \in Proc |-> Empty]

----------------------------------------------------------------------------
Goes(p, from, to) == at[p] = from /\ at' = [at EXCEPT ![p] = to]

Forgets(p) == /\ op' = [op EXCEPT ![p] = "none"]
              /\ ver' = [ver EXCEPT ![p] = None]
              /\ ans' = [ans EXCEPT ![p] = NoAnswer]
              /\ st' = [st EXCEPT ![p] = Empty]

Ends(p) == /\ at' = [at EXCEPT ![p] = "idle"]
           /\ Forgets(p)
           /\ loc' = [loc EXCEPT ![p] = "gone"]

Stop(p) == /\ at[p] # "idle"
           /\ Ends(p)
           /\ cut' = (cut \/ at[p] \in {"swap", "restore"})
           /\ known' = IF at[p] \in {"claiming", "saving"} THEN None ELSE known
           /\ lost' = IF at[p] = "saving" THEN lost + 1 ELSE lost
           /\ UNCHANGED <<windows, exe, old, cache, asks, overlapped, started>>

(* Windows neither deletes nor replaces a file that a process runs from. *)
Locked(where) == \E p \in Proc : loc[p] = where

MovesTo(from, to) == loc' = [p \in Proc |-> IF loc[p] = from THEN to ELSE loc[p]]

Starts(p, o) ==
    /\ started < MaxCommands /\ started' = started + 1
    /\ exe # None
    /\ Goes(p, "idle", "cleanup")
    /\ op' = [op EXCEPT ![p] = o]
    /\ ver' = [ver EXCEPT ![p] = exe]
    /\ loc' = [loc EXCEPT ![p] = "exe"]
    /\ UNCHANGED <<windows, disk, notice, ans, st>>

RemovedOld == IF Locked("old") THEN old ELSE None

CleanupLeftovers(p) ==
    /\ Goes(p, "cleanup", IF op[p] = "update" THEN "query" ELSE "load")
    /\ old' = IF windows THEN RemovedOld ELSE old
    /\ UNCHANGED <<windows, exe, cut, notice, started, locals>>

----------------------------------------------------------------------------
(* SelfUpdate.  A release that is not newer, or not for this channel, ends *)
(* it without an error, and so does --check.                               *)
Wanted(latest, current) == IsNewer(latest, current) /\ PrereleaseAllowed(latest, current)

Queries(p, a) ==
    /\ at[p] = "query"
    /\ \/ /\ Wanted(a.tag, ver[p])
          /\ at' = [at EXCEPT ![p] = "verify"]
          /\ ans' = [ans EXCEPT ![p] = a]
          /\ UNCHANGED <<op, ver, loc, st>>
       \/ ~Wanted(a.tag, ver[p]) /\ Ends(p)
    /\ UNCHANGED <<windows, disk, notice, started>>

(* Mutant: the checksums file vouches for the archive unsigned. *)
SignatureUnchecked(a) == TRUE

(* The signature is over the name of the version's checksums file and what *)
(* is in it.                                                               *)
SignatureOK(a) == a.sig = a.tag /\ a.sums = [of |-> a.tag, lists |-> a.tag]

(* Mutant: the archive is not looked up in the checksums file. *)
ChecksumUnchecked(a) == TRUE

ChecksumOK(a) == a.sums = [of |-> a.tag, lists |-> a.archive]

(* Once everything is downloaded. *)
Verifies(p) ==
    /\ at[p] = "verify"
    /\ \/ /\ SignatureOK(ans[p]) /\ ChecksumOK(ans[p])
          /\ at' = [at EXCEPT ![p] = "stage"]
          /\ UNCHANGED locals
       \/ ~(SignatureOK(ans[p]) /\ ChecksumOK(ans[p])) /\ Ends(p)
    /\ UNCHANGED <<windows, disk, notice, started>>

(* The temporary file is written, and removed again if anything fails. *)
Stages(p) ==
    /\ Goes(p, "stage", IF windows THEN "removeOld" ELSE "swap")
    /\ UNCHANGED <<windows, disk, notice, started, locals>>

RemovesOld(p) ==
    /\ Goes(p, "removeOld", "aside")
    /\ old' = RemovedOld
    /\ UNCHANGED <<windows, exe, cut, notice, started, locals>>

MovesAside(p) ==
    /\ Goes(p, "aside", "swap")
    /\ exe # None
    /\ old = None \/ ~Locked("old")
    /\ old' = exe
    /\ exe' = None
    /\ MovesTo("exe", "old")
    /\ UNCHANGED <<windows, cut, notice, started, op, ver, ans, st>>

CannotMoveAside(p) ==
    /\ at[p] = "aside"
    /\ Ends(p)
    /\ UNCHANGED <<windows, disk, notice, started>>

Swaps(p) ==
    /\ at[p] = "swap"
    /\ windows => exe = None \/ ~Locked("exe")
    /\ exe' = ans[p].archive
    /\ at' = [at EXCEPT ![p] = "idle"]
    /\ Forgets(p)
    /\ loc' = [q \in Proc |-> IF q = p \/ loc[q] = "exe" THEN "gone" ELSE loc[q]]
    /\ UNCHANGED <<windows, old, cut, notice, started>>

(* Mutant: when the second rename fails, the first is not undone. *)
CannotSwapNorRestore(p) ==
    /\ at[p] = "swap"
    /\ Ends(p)
    /\ UNCHANGED <<windows, disk, notice, started>>

CannotSwap(p) ==
    /\ at[p] = "swap"
    /\ \/ ~windows /\ Ends(p)
       \/ windows /\ at' = [at EXCEPT ![p] = "restore"] /\ UNCHANGED locals
    /\ UNCHANGED <<windows, disk, notice, started>>

(* The original is put back; an error of that is ignored. *)
Restores(p) ==
    /\ at[p] = "restore"
    /\ old # None
    /\ exe = None \/ ~Locked("exe")
    /\ exe' = old
    /\ old' = None
    /\ at' = [at EXCEPT ![p] = "idle"]
    /\ Forgets(p)
    /\ loc' = [q \in Proc |-> IF q = p THEN "gone" ELSE IF loc[q] = "old" THEN "exe" ELSE loc[q]]
    /\ UNCHANGED <<windows, cut, notice, started>>

CannotRestore(p) ==
    /\ at[p] = "restore"
    /\ cut' = TRUE
    /\ Ends(p)
    /\ UNCHANGED <<windows, exe, old, notice, started>>

----------------------------------------------------------------------------
(* NotifyIfAvailable, after any other command that succeeded. *)
Overlaps(p) == \E q \in Proc \ {p} : at[q] \in Refreshing

(* Mutant: any newer version is announced. *)
AnnouncesNewer(p) == /\ at[p] = "load"
                     /\ cache.latest # None
                     /\ IsNewer(cache.latest, ver[p])

Announces(p) == /\ at[p] = "load"
                /\ cache.latest # None
                /\ Wanted(cache.latest, ver[p])

Loads(p) ==
    /\ at[p] = "load"
    /\ \/ cache.fresh /\ Ends(p) /\ UNCHANGED overlapped
       \/ /\ ~cache.fresh
          /\ at' = [at EXCEPT ![p] = "claim"]
          /\ st' = [st EXCEPT ![p] = cache]
          /\ overlapped' = (overlapped \/ Overlaps(p))
          /\ UNCHANGED <<op, ver, loc, ans>>
    /\ UNCHANGED <<windows, disk, cache, known, asks, lost, started>>

(* loadState ignores its errors: a cache that cannot be read is an empty one. *)
CannotLoad(p) ==
    /\ Goes(p, "load", "claim")
    /\ st' = [st EXCEPT ![p] = Empty]
    /\ lost' = IF cache.fresh THEN lost + 1 ELSE lost
    /\ overlapped' = (overlapped \/ Overlaps(p))
    /\ UNCHANGED <<windows, disk, cache, known, asks, started, op, ver, loc, ans>>

(* saveState truncates the file, and then writes it. *)
Truncates(p) ==
    /\ \/ Goes(p, "claim", "claiming")
       \/ Goes(p, "save", "saving")
    /\ cache' = Empty
    /\ UNCHANGED <<windows, disk, known, asks, lost, overlapped, started, locals>>

(* Mutant: only the time of the check is written up front. *)
ClaimedAlone(p) == [fresh |-> TRUE, latest |-> None]
(* Mutant: the window is claimed by the answer, not by the question. *)
ClaimedLater(p) == [fresh |-> FALSE, latest |-> st[p].latest]

Claimed(p) == [fresh |-> TRUE, latest |-> st[p].latest]

(* refresh claims the window before it asks.  The version it read is       *)
(* written back; after a failed read there is none to write.               *)
Claims(p) ==
    /\ Goes(p, "claiming", "fetch")
    /\ cache' = Claimed(p)
    /\ known' = IF st[p] = Empty THEN None ELSE known
    /\ asks' = asks + 1
    /\ UNCHANGED <<windows, disk, lost, overlapped, started, locals>>

(* saveState ignores its errors as well, and refresh goes on.  Either the  *)
(* file cannot be opened (no home, a ~/.shenv that is read-only) and stays *)
(* as it is,                                                               *)
CannotOpen(p) ==
    /\ \/ /\ Goes(p, "claim", "fetch")
          /\ asks' = asks + 1
          /\ lost' = lost + 1
          /\ UNCHANGED locals
       \/ /\ at[p] = "save"
          /\ Ends(p)
          /\ UNCHANGED <<asks, lost>>
    /\ UNCHANGED <<windows, disk, cache, known, overlapped, started>>

(* or the write fails once it is truncated (a full disk), and what there   *)
(* is of it does not parse.                                                *)
CannotWrite(p) ==
    /\ \/ /\ Goes(p, "claiming", "fetch")
          /\ asks' = asks + 1
          /\ UNCHANGED locals
       \/ /\ at[p] = "saving"
          /\ Ends(p)
          /\ UNCHANGED asks
    /\ known' = None
    /\ lost' = lost + 1
    /\ UNCHANGED <<windows, disk, cache, overlapped, started>>

Hears(p, a) ==
    /\ Goes(p, "fetch", "save")
    /\ st' = [st EXCEPT ![p].latest = a.tag]
    /\ UNCHANGED <<windows, disk, notice, started, op, ver, loc, ans>>

(* Mutant: the notice waits for its answer. *)
UpdateGivesUp(p) ==
    /\ at[p] = "query"
    /\ Ends(p)
    /\ UNCHANGED <<windows, disk, notice, started>>

(* A request or a download fails, or updateTimeout or noticeTimeout is over. *)
GivesUp(p) ==
    /\ at[p] \in {"query", "verify", "fetch"}
    /\ Ends(p)
    /\ UNCHANGED <<windows, disk, notice, started>>

Saves(p) ==
    /\ at[p] = "saving"
    /\ cache' = Claimed(p)
    /\ known' = st[p].latest
    /\ Ends(p)
    /\ UNCHANGED <<windows, disk, asks, lost, overlapped, started>>

(* A day goes by, and the histories of the notice begin anew. *)
Ages == /\ cache.fresh
        /\ \A p \in Proc : at[p] \notin Refreshing
        /\ cache' = [cache EXCEPT !.fresh = FALSE]
        /\ known' = cache.latest
        /\ asks' = 0 /\ lost' = 0 /\ overlapped' = FALSE
        /\ UNCHANGED <<windows, disk, started, at, locals>>

(* What shenv does without waiting for an answer. *)
Own(p) == \/ CleanupLeftovers(p)
          \/ Stages(p)
          \/ RemovesOld(p)
          \/ MovesAside(p) \/ CannotMoveAside(p)
          \/ Swaps(p) \/ CannotSwap(p)
          \/ Restores(p) \/ CannotRestore(p)
          \/ Loads(p) \/ CannotLoad(p)
          \/ Truncates(p)
          \/ Claims(p)
          \/ CannotOpen(p) \/ CannotWrite(p)
          \/ Saves(p)

Next == \/ \E p \in Proc : \/ \E o \in {"update", "other"} : Starts(p, o)
                           \/ Own(p)
                           \/ Verifies(p)
                           \/ \E a \in Answers : Queries(p, a) \/ Hears(p, a)
                           \/ GivesUp(p)
                           \/ Stop(p)
        \/ Ages

(* shenv's own steps are not delayed forever, and its timeouts fire. *)
Fairness == \A p \in Proc : WF_vars(Own(p)) /\ WF_vars(GivesUp(p))

Spec == Init /\ [][Next]_vars /\ Fairness

----------------------------------------------------------------------------
Verdict == [v \in Version |-> [w \in Version |-> CompareVersions(v, w)]]

(* A command that weighs a release against the version it runs weighs them *)
(* as semver.org orders them, for every release there is: it neither takes *)
(* an older one for an update nor a newer one for old (update.go:594-708). *)
VerdictsBySemver ==
    \A p \in Proc : at[p] # "idle" =>
        \A v \in Version : Verdict[v][ver[p]] = Sign(Order[v], Order[ver[p]])

(* Only a binary that the release key vouches for, by way of the checksums *)
(* file of the version it claims to be, is ever put in place               *)
(* (update.go:540-548).                                                    *)
OnlyReleased == exe # Bad /\ old # Bad

(* There is a binary, unless an update is just between its two renames, or *)
(* was killed there, or failed to undo the first; and then the previous    *)
(* one is still beside it (update.go:378-434, 436-453).                    *)
NeverWithout ==
    exe = None => /\ windows /\ old \in Version
                  /\ cut \/ \E p \in Proc : at[p] \in {"swap", "restore"}

(* On Windows, whoever is between the renames is there alone, and every    *)
(* command that runs holds the file it was started from.                   *)
Swapping == {"swap", "restore"}
Staged   == {"stage", "removeOld", "aside"} \cup Swapping

Locals(p) ==
    /\ at[p] # "idle" => ver[p] \in Version
    /\ at[p] \in Updating \ {"query"} => ans[p] \in Answers /\ Wanted(ans[p].tag, ver[p])
    /\ at[p] \in Staged => ans[p].archive = ans[p].tag /\ ans[p].archive \in Version
    /\ at[p] \in {"removeOld", "aside", "restore"} => windows
    /\ windows /\ at[p] # "idle" => loc[p] # "gone"
    /\ loc[p] = "exe" => exe # None
    /\ windows /\ at[p] \in Swapping =>
          exe = None /\ \A q \in Proc \ {p} : at[q] \notin Swapping

(* The common inductive strengthening of the two. *)
Inv == TypeOK /\ OnlyReleased /\ NeverWithout /\ \A p \in Proc : Locals(p)

(* An update that replaces the binary it was started from replaces it by a *)
(* newer one, and a stable one never by a pre-release, whatever GitHub     *)
(* calls its latest release (update.go:572-587).                           *)
Replaced == IF windows THEN old ELSE exe
Upgrades ==
    [][\A p \in Proc : Swaps(p) /\ Replaced = ver[p] =>
          /\ Order[exe'] > Order[Replaced]
          /\ IsPrerelease(exe') => IsPrerelease(Replaced)]_vars

(* The notice, which goes by what an earlier command heard, never urges an *)
(* update to an older version or from a stable one to a pre-release        *)
(* (notice.go:89-93).                                                      *)
NoticeTrue ==
    \A p \in Proc : Announces(p) =>
        /\ Order[cache.latest] > Order[ver[p]]
        /\ IsPrerelease(cache.latest) => IsPrerelease(ver[p])

(* The cache keeps the version last recorded, though every check begins by *)
(* claiming its window: a check whose request fails, or that is killed     *)
(* while it waits, or that cannot open the file, loses nothing.  Only a    *)
(* write that fails or is killed halfway, a read that fails, or two        *)
(* refreshes that overlap in the window do (notice.go:42-73, 103-132).     *)
NewsKept ==
    ~overlapped /\ (\A p \in Proc : at[p] \notin {"claiming", "saving"}) =>
        cache.latest = known

(* GitHub is asked once in a day, also if it does not answer and if the    *)
(* command is killed while it waits (notice.go:103-108), and once more for *)
(* each time the claim could not be written, was lost again by a later     *)
(* write, or could not be read, as those errors are ignored.  With an      *)
(* unwritable ~/.shenv every command asks, and notice.go:15-18 ("normal    *)
(* commands never repeatedly hit the network") does not hold.  Refreshes   *)
(* that overlap in the window are excepted.                                *)
OncePerWindow == ~overlapped => asks <= 1 + lost

(* An update and a notice end whether GitHub answers or not                *)
(* (notice.go:20-22, command/update.go:14-16).                             *)
CommandsEnd == \A p \in Proc : at[p] # "idle" ~> at[p] = "idle"
============================================================================
