# Verification of shenv

TLA+ modules that model shenv, TLC configurations that check them on small
instances, and theorems about them that TLAPS has checked. `PROJECT.json` ties
every definition to the lines it models, every run to its properties, and every
property to a mutant of the code that breaks it.

    tlc -config MCShenv_pull.cfg MCShenv      # one run; PROJECT.json lists them all
    tlapm ShenvProofs.tla                     # the proofs of a module

## The system

shenv keeps a team's `.env` in a repository, encrypted for the members listed in
`recipients.shenv`, signed by whoever sealed it, and stored as `env.shenv` in the
repository or behind an exec backend. Nobody runs a server. Each command is a
process that reads files, asks questions and writes files. The commands take no
locks, and the storage offers `Get` and `Put`, with no compare-and-swap. What is
hard is therefore what another command, a teammate or a `git pull` does between
two steps of a command.

| Component | State | Operations | Correct if |
|---|---|---|---|
| Member list, `internal/recipients/recipients.go` | `recipients.shenv` in each checkout | `init`, `add-member`, `remove-member`: load, compute, save | what is saved loads again; one person is one entry; nobody else is touched |
| Signed payload, `recipients/manifest.go`, `internal/crypto` | the blob: recipients, signer, signature, manifest, contents | `SealPayload`, `verifiedBody` | only members decrypt; a signature stands for one member and one project |
| `seal`, `command/command.go` | the shared store | lockout check, pin check, encrypt, `Put`, pin | nobody is locked out silently; nobody is let in silently; the sealer can open it |
| `open`, `run`, `command/run.go` | `.env` | get, decrypt, pin check, verify, write or inject | only blobs signed by someone this machine trusts are used |
| `edit`, `command/edit.go` | the edited text | fetch, verify, edit, re-fetch, seal, refresh `.env` | a teammate's seal is not overwritten unasked |
| Pins, `command/guard.go` | `~/.shenv/state/*`: list and project last accepted | `loadPin`, `confirm*Recipients`, `rememberRecipients` | a pin holds what the user accepted |
| Identity, `internal/identity` | `~/.shenv/key.txt` | `Create`, `PublicKey`, `VerifyKey` (which repairs old files), `Load` | a user is one identity; the private key is not lost |
| Keychain, `command/remember.go`, `internal/keystore` | a passphrase per public key | `remember`, `forget`, the offer of `init` | what is cached opens the key |
| Backends, `internal/backend` | the blob, `config.shenv`, `~/.shenv/trusted` | `Get`, `Put`, `WriteFileAtomic`, `EnsureTrusted`, `InitProject` | a failed read is not an absent blob; a crash leaves the old file or the new one |
| Git guard, `command/gitguard.go`, `command/plaintext.go` | `.gitignore`, the index | `ensureIgnored`, `writePlaintext` | plaintext is never where git would commit it |
| Self-update and notice, `internal/update` | the binary, the update cache | `SelfUpdate`, `replaceExecutable`, `refresh` | only a signed, newer release is installed; there is always a binary |
| Release tool, `status`, `.env` parser, hardening, style, command line | none that the others depend on | | |

How they interact: `init` uses the identity, the member list, the git guard and
the project id. `seal` reads `.env`, the list, the config and the key, calls the
backend twice (`Get` for the lockout check, `Put`) and writes the pin. `open`,
`run` and `edit` call `Get`, read or write the pin, and verify against the list
and the project. The pin is shared by the reading and the sealing commands of one
machine. `git pull` changes the list and the config under all of them.

## The modules

| Module | Models | Extends |
|---|---|---|
| `Recipients` | the member list as a set of entries; what `Load` refuses, what `Add` and `Remove` compute | |
| `RecipientsFile` | the member commands on one file, with other writers | `Recipients` |
| `Payload` | blobs, what it takes to decrypt and to verify one, and how one is split | `Recipients` |
| `SecretStore` | abstract: what shenv promises of the stored secrets | `Payload` |
| `Shenv` | `seal`, `open`, `run` and `edit` of several users on one store; implements `SecretStore` | `Payload` |
| `BlobStore` | abstract: what a place for the blob promises | |
| `Backend` | the file and the exec backend, the approval of commands; its file implements `BlobStore` | |
| `Identity` | the key file and the keychain | |
| `GitGuard` | how decrypted secrets are written into a git worktree | |
| `Versions` | how versions compare | |
| `SelfUpdate` | `shenv update`, the swap of the binary, and the notice's cache | `Versions` |
| `RecipientsFileProofs`, `ShenvProofs`, `BackendProofs`, `SelfUpdateProofs`, `IdentityProofs`, `GitGuardProofs` | the theorems | their module, `TLAPS` |
| `ConsentProofs`, `SecretStoreProofs` | more theorems about `Shenv`: what its users were told, and the refinement | `ShenvProofs` |
| `MCRecipientsFile`, `MCShenv`, `MCIdentity`, `MCGitGuard`, `MCBackend`, `MCSelfUpdate` | the instances TLC checks | their module |

`Shenv` takes `Get` and `Put` of the backend as one step each, `Backend` takes
them apart. That is sound where the file backend is used, since `Backend`'s file
implements `BlobStore`, whose reads and puts are single steps. With an exec
backend a `Get` reports what was stored at some moment of the call (`GetTrue`),
and a `Put` may take effect after it has been reported as failed: in `Shenv` that
is a `Put` followed by `Stop`, except that it may come later.

### Recipients and RecipientsFile

A file is the set of its entries. `Loadable` is everything `Load` checks across
lines; what it checks within one line (the name's characters, the age key's
syntax) is taken into the sets `Name` and `Key`. `Look` is `skeleton`: any
function of a name. A file that `Load` refuses for its syntax behaves as an
unloadable set does: every command stops.

A `SignKey` is a spelling of a signing key, as it was typed or printed, because
what `Add` accepts need not come back from the file: `ParseVerifyKey` decodes
base64, whose decoder skips line breaks, `Save` prints the argument as it is, and
`Load` splits lines and fields. `Reads` says what `Load` makes of a printed
spelling: itself, itself without the breaks around it, or `Torn`. `Loads` is when
`Load` accepts a file, and `Entries` is the list it returns, on which the commands
compute. Spellings are compared as the code compares them, so that one key may
have several: the decoder does not look at the last bits of the text either.

`Load` with `LoadToAdd` or `LoadToRemove` is a command up to its `Save`; `Save` is the
rename. In between, other commands save and `OutsideWrite` (a pull, a merge, an
editor) puts in any list of `Outside`, loadable or not.

### Payload

Cryptography is symbolic. `CanDecrypt` asks whether the key is among the blob's
recipients. A blob records the key and the project its signature was made with,
so `Verified` holds exactly when `verifiedBody` returns without an error: the
project rules for bound and unbound signatures, a list that loads, and a signer
who is listed with the key that made the signature.

`ExtractManifest` reads member lines until a line is none, so that member lines a
.env happens to begin with are taken for members and do not come back from
`open`. `Heading` and `Beneath` are those lines and what follows them; the lockout
check sees `MembersIn`, and `open` and `edit` get `ContentsOf`.

### Shenv

Per user: `rec` (recipients.shenv), `cfg` (the project in config.shenv), `env`
(.env), `pin`. Shared: `store`. Per command: `at`, its next step, and its local
variables, named as in the code where it has a name (`members`, `project`,
`prev`, `cur`). Every read of a file, call of the backend and prompt is a step
of its own, since each takes time in which others run:

| Steps | Code |
|---|---|
| `Fetch` | `Get`, then `decryptBlob` (run.go:23, edit.go:49) |
| `PinMembers`, `PinProject`, `PinRead`, `AdoptProject`, `Unchanged` or `Confirm`, `RememberProject`, `WritePin` | `confirmPinnedRecipients` (guard.go:265); from `PinProject` on also `confirmRecipients` (guard.go:165) and `rememberRecipients` (guard.go:350) of a seal |
| `VerifyProject`, `Verify` | `verifiedBody` (run.go:76) |
| `Inject`; `OpenCompares`, `OpenWrites`; `EditText`, `Refetch` | `Run`; `Open`; `Edit` |
| `StartSeal`, `SealLoads`, `GuardGet`, `GuardProject`, `Guard` (or `GuardUnread`), then the pin, `BindProject`, `Put`, then the pin | `Seal`, `sealEnv` (command.go:302), `confirmNoLockout` (guard.go:86) |
| `RefreshReads`, `RefreshWrites` | `refreshLocalEnv` (edit.go:352) |

A guard of an action is what its step checks. All questions are answered yes, and
a `no`, an error, `^C` and a crash are one action, `Stop`, which is possible at
every step and leaves behind what was written so far. That loses no behaviour:
in the code too a command that does not go on only returns. One error does not
end a seal: where the lockout check cannot read the project or the list, the old
blob counts as one that does not verify, and the question is asked bluntly
(`GuardUnread`, guard.go:117). `NewMembers`,
`NewProject` and `NewEnv` are what happens outside these commands; with `Quiet`
they wait until the user has no command running.

Two history variables say what the users know: `accepted`, the lists and projects
a machine's user has confirmed or that were trusted on first use, and `told`, the
keys a seal's user was told would lose access.

### SecretStore

Its state is the blob and, per user, the member lists accepted so far. A step is
`Accept`, which only adds to a user's lists, or `Seal`, which replaces the blob by
one that a user sealed, for one of the lists that user had accepted, which loads
and holds the sealer's entry with the sealer's keys. `Shenv` implements it with
`lists` as the lists in `accepted`: `AdoptProject` and `Confirm` are `Accept`,
`Put` is `Seal`, and everything else (pins, .env files, pulls, stops) stutters.

### BlobStore and Backend

`BlobStore` is a register: `Stores` replaces the blob, and a power failure may
bring back a blob that has not been settled over (`recent`), and nothing else.

`Backend` has `file` (env.shenv: what it holds, and whether that is on the disk),
a temporary file per command, `remote` (what the exec commands store), config.shenv
(`cfg`) and ~/.shenv/trusted (`trusted`, with `halfLine` for a last line cut
short). A command goes through:

| Steps | Code |
|---|---|
| `Starts`, `Checks`, `Approves`, `Records` or `RecordsHalf` | `Load` (backend.go:212), `EnsureTrusted`, `addTrusted` (trust.go:29, 115) |
| `ReadsFile`; `RunsGet`, `GetReturns` | the two `Get` (backend.go:63, 167) |
| `CreatesTemp`, `Writes`, `Syncs`, `Renames`; `PutFails` | `WriteFileAtomic` (backend.go:90) |
| `RunsPut`, `PutReturns` | `ExecBackend.Put` (backend.go:192) |
| `Refuses` | `readCapped`, `checkBlobSize` (backend.go:119, 313), and `sealEnv`'s own check (command.go:363) |
| `TimesOut` | `shellCommand` (backend.go:346) |

What a shell command does is the environment's: `Answers`, `Stored` (and then it
may still fail), `Fails`, and `LetsGo` for a process it has left running with its
output open. The timeout kills the shell only, so that a put may go on as an
orphan (`OrphanStores`), and `cmd.Run` waits while the output is open. `PowerFails`
ends every command, brings back any file of `recent`, and tears a file that was
renamed before it was synced; `Settles` is the system's write-back.

### Versions and SelfUpdate

A version is a core and pre-release identifiers. An identifier is opaque: `Num` is
what `Atoi` makes of it, or `NaN`, and `Bytes` is its place in the order of
strings. The operators are `compareCore`, `comparePrerelease` and
`CompareVersions` as they stand, without recursion. The module ends with a second
definition of the order, `Precedes`, from semver.org's text and in relations
instead of verdicts, for the code to be compared with.

`SelfUpdate` assumes of its versions what CHANGELOG.md:5 says of shenv's: that they
follow semver, so that their cores are numbers (`IsSemantic`), and that `Order` ranks
them as `Precedes` does. TLC evaluates the latter for every pair of the instance,
whose ranks are written out by hand. Identifiers that `Atoi` reads differently
from semver (a sign, as in `-5`, or more digits than fit) are not in `Ident`.

`SelfUpdate` has the binary (`exe`), Windows' `<exe>.old` (`old`) and the cache of
the notice. Per command it keeps the version it runs and where the file it runs
from is now, as Windows neither replaces nor deletes that file (`Locked`). An
answer of GitHub is a tag, an archive, a checksums file and a signature, in any
combination of `Answers`: the tag is not bound to be newer, and neither are the
assets bound to belong to it.

| Steps | Code |
|---|---|
| `CleanupLeftovers` | at the start of every command (update.go:436) |
| `Queries`, `Verifies`, `Stages` | `SelfUpdate` (update.go:482) |
| `RemovesOld`, `MovesAside`, `Swaps`, `Restores` and what they become when they fail | `replaceExecutable` (update.go:378) |
| `Loads` (with `Announces`), `Truncates`, `Claims`, `Hears`, `Truncates`, `Saves` | `NotifyIfAvailable`, `refresh`, `saveState` (notice.go) |
| `CannotLoad`, `CannotOpen`, `CannotWrite` | the errors that `loadState` and `saveState` ignore (notice.go:42, 60): the cache is taken for empty, stays as it is, or is left truncated, and the command goes on |
| `GivesUp` | the timeouts (command/update.go, notice.go:20) |

History variables: `cut`, an update was killed between its two renames or could
not undo the first; `known`, the version last recorded; `asks`, the requests in
one window; `lost`, the claims of it that were not written, not read, or lost by a
later write; `overlapped`, two refreshes of it overlapped. A new window (`Ages`)
begins them anew.

### Identity

`file` is key.txt: absent, without a key, or a key file with its passphrase and
its signing-key comment. `Create` is `Opens` (the exclusive creation), then
`Fills` or `FillFails`. `VerifyKey` on a file without the comment is
`LacksComment`, `Unlocks` (`Load` reads the file a second time), `Truncates`,
then `Heals` or `HealFails`, because `os.WriteFile` truncates before it writes.
`shared` is what has been registered or printed. `IsEncrypted` and `PublicKey`
at the start of `remember` are one step, as nothing a command does can change a
key file's passphrase between them. `MaxRemovals` bounds how often someone deletes
key.txt by hand.

### GitGuard

The worktree: `ignore` (each directory's .gitignore, a sequence of lines),
`index`, `icase` (core.ignorecase) and `file`. A line is a name with the set of
paths it matches; `Ignored` is git's rule, that the last line that matches
decides and a nested file comes after the root's. `Tracked` covers every
spelling of a name that `core.ignorecase` makes the same file.

| Steps | Code |
|---|---|
| `Resolves` | `resolveGitTarget` (gitguard.go:98): a destination outside every worktree goes straight to `Creates` |
| `FindsNoExactEntry`, `FindsNoFoldedEntry` | `refuseTracked`, `trackedAs` (gitguard.go:161) |
| `Asks`, twice | which of destination and temporary file need a rule (gitguard.go:55) |
| `AppendReads`, `AppendWrites` | `appendGitignore` (gitguard.go:292), of `ensureIgnored` and of init (`Inits`) |
| `Verifies`, `VerifiesTemp` | the effective answer (gitguard.go:76) |
| `Creates`, `Fills`, `Renames` or `Fails` | `writePlaintext` (plaintext.go:26) |

A kill (`Stop`) while a temporary file exists leaves it behind, in `left`.
`GitAddAll` may come between any two steps. What a user does to the ignore
rules, the index or the files by hand waits until no command runs, and never
exposes secrets that are already there: that is outside what shenv can prevent.
Inside the worktree all temporary files of a directory have one name, `TempOf`,
as the code too asks about one (`.shenv-plaintext-verify`) for all. They are not
among the destinations, since `os.CreateTemp` makes a new file. A destination in the
worktree stands for its own folded spelling, and the lines `init` adds are finitely
many (`PathAssumption`, `RuleAssumption`). The history variable `swept` notes where `git add -A` took a file that a running command
had found untracked.

## The runs

`Shenv`, `RecipientsFile`, `Identity` and `GitGuard` are checked for safety only: a
command waits for prompts, an editor and git, and nothing obliges any of them to
answer. `Backend` and `SelfUpdate` assume weak fairness of two things per command:
of shenv's own steps (`Own`: what it does while it waits for nobody), and of the
timeout it has set itself (`TimesOut`, `GivesUp`), which the Go runtime fires
whatever the other side does. No fairness is assumed of the user, the storage
commands, the network or the outside world. From that follow `CallsReturn` and
`CommandsEnd`.

All runs check for deadlock, except where commands or keys run out: in
`edit_race` nobody holds a .env once nobody may change one, in `identity` and
`identity_heal` there are three identities to generate, and in `self_update` the
commands run out.

| Run | Instance | Checks |
|---|---|---|
| `recipients_file` | 2 commands; 3 names of which 2 look alike, 2 age keys, 2 signing keys, of which one is also typed with a break after it, and a spelling with one inside: 24 entries; outside lists that load and that do not | `Inv`, `SavedLoadable`, `OnePersonOneEntry`, `OthersKept` |
| `pull` | 2 commands of Alice, `seal` or `open`; 2 seals; a change from outside at any moment, to a list with or without Bob, another project, a .env or none; no pin, or one that records no project | `Inv`, `PinAccepted`, `SealedForAccepted`, `ImplementsSecretStore`, `NoSilentLockout` |
| `alone` | 1 command at a time, all four; blobs bound to this project, to another, to none, unsigned, not for Alice; 5 lists, one empty, one that does not load; 2 projects; a .env that begins with a member line | `SealThenOpen`, `PinShown`, `SealerCanOpen`, `TrustedVerification`, `NoLockoutAtPut` |
| `identity` | 2 terminals, 3 identities, 2 passphrases, a removal by hand; start without a key, with one in the clear, encrypted, or encrypted by an old version | `Inv`, `OneIdentity`, `CachedUnlocks` |
| `git_guard` | 2 commands, `open`, `edit` or `init` in either directory; a destination in the root, in a subdirectory and outside; .gitignore files that are empty, cover, or take a rule back; .ENV or .env tracked, or not, with and without core.ignorecase; 1 move by hand | `Inv`, `Guarded`, `VerifiedStaysOut` |
| `backend` | 2 commands, seal or open; a blob that fits and one that does not; the file or one of 2 exec backends, 1 change of config.shenv; power failures and kills at any moment | `Inv`, `GetTrue`, `RunsApproved`, `ImplementsBlobStore`, `StaysReadable`, `CallsReturn` |
| `self_update` | 3 commands, 2 at a time, updates or others, on Windows and elsewhere; 15 versions in 13 ranks around 0.9 and 0.10 with their pre-releases; 6 answers: genuine ones, older, damaged, unsigned, and the assets of another release | `Inv`, `VerdictsBySemver`, `OnlyReleased`, `NeverWithout`, `NoticeTrue`, `NewsKept`, `OncePerWindow`, `Upgrades`, `CommandsEnd` |
| `recipients_break` | as `recipients_file` | `NeverRejected`, violated |
| `edit_race` | Alice and Bob edit at the same time | `EditWarnsOfReseal`, violated |
| `verify_race` | Alice opens while a pull changes Bob's signing key | `TrustedVerification`, violated |
| `identity_heal` | as `identity`, from an old key file | `KeyKept`, violated |
| `git_race` | as `git_guard` | `NeverCommittable`, violated |

Why the bounds are enough. A member is contested, collides or is replaced against
at most two other entries, which is what `recipients_file` has. Every property of
`Shenv` relates a command to its own earlier reads, and one other writer is
enough to come between: two commands, or one command and one change from outside
(`MaxMoves = 1`), and two stored blobs for one to overwrite the other
(`MaxSeals = 2` in `pull`). The two commands of `pull` are one user's, who share
a checkout and a pin as well as the store; two users share the store alone, and
have a run in `edit_race` and any number of them in the theorems. In
`git_guard` the initial states are any combination of rules, index and files, so
one move by hand (`MaxMoves = 1`) and two commands (`MaxCommands = 2`) cover what
a first command leaves, or a kill leaves, for a second one, and what two commands
do to each other's rules. In `backend` two commands (`MaxCommands = 2`) are a
reader and a writer, or two writers, and one change of config.shenv
(`MaxMoves = 1`) comes between a question and its answer. In `self_update` three
commands (`MaxCommands = 3`) are two that overlap and one that starts from what
they leave. The
theorems remove the bounds for the properties they state.

What they show beyond the properties' wording:

- `NoSilentLockout` is about the blob the lockout check read. `NoLockoutAtPut` is
  about the blob that is overwritten, and holds only for one command at a time:
  with two seals, nothing ties `Put` to the earlier `Get`. The documentation
  claims the first of the recipients file's drift, not of concurrent seals.
- `TrustedVerification` holds when the repository is quiet and fails when a pull
  comes between the pin check and the second load of the list. So does
  `PinShown`: the project is read once for the question and again for the pin.
- `CallsReturn` has an exception in its antecedent. The comment at backend.go:44 says
  that a stalled command "cannot hang shenv forever". The timeout kills `sh`, and
  `cmd.Run` goes on waiting while a process that `sh` started keeps its output
  open, as no `WaitDelay` is set.
- A put of an exec backend that timed out may still take effect later, over a
  newer blob. Nothing in the code can prevent it.
- `Upgrades` speaks of an update that replaces the binary it was started from. Two
  updates that overlap compare with the version each runs: outside Windows the
  one that asked first may put its release over the newer one of the other.
- The comparison is semver's order on versions whose cores are numbers
  (`ComparesBySemver`). Where a core mixes the two kinds of fields it may run in a
  circle (9 < 10 < 1a < 9); no such version is among those of `self_update`.
- `NewsKept` and `OncePerWindow` except refreshes that overlap: each writes back
  what it read. They also say what the ignored errors of the cache cost. A write
  that fails or is killed halfway leaves an empty cache, and with it the version
  and the claim are gone. A claim that cannot be written does not keep `refresh`
  from asking: with no home, a read-only `~/.shenv` or a full disk every command asks
  GitHub and waits up to `noticeTimeout` for it. The comments at notice.go:15
  ("normal commands never repeatedly hit the network") and notice.go:103 do not
  hold there; `OncePerWindow` counts these requests in `lost`.
- `SavedLoadable` is about signing keys that read back as they were typed
  (`Unbroken`); the others are finding 5. `OnePersonOneEntry` speaks of spellings:
  that two entries have different signing keys is more than the code compares.

### Findings

1. **edit's warning has a gap** (`edit_race`). `docs/security.md` says that `edit`
   warns if a teammate re-sealed meanwhile. The comparison is made once, before
   the lockout and pin prompts; a blob stored after it is overwritten silently.
2. **The verified list need not be the pinned one** (`verify_race`).
   `confirmPinnedRecipients` loads `recipients.shenv` and settles the pin, then
   `verifiedBody` loads it again. A pull in between gets a key trusted that
   nobody confirmed. Passing the loaded list on would close it.
3. **Repairing an old key file can destroy the key** (`identity_heal`).
   `VerifyKey` rewrites `key.txt` with `os.WriteFile` and ignores the error; a
   comment says a failure is not fatal. It is, when it comes after the
   truncation: the public keys are registered and the private key is gone. Files
   that start with their comment, or in the clear, are safe (`CurrentKeyKept`). A
   repaired file need not be: a repair of another terminal that read it before
   truncates it once more.
   `WriteFileAtomic` in place of `os.WriteFile` would close the finding.
4. **The tracked check is stale when the secrets are written** (`git_race`).
   `ensureIgnored` asks about the index before it adds the ignore rule. If the
   destination already exists and `git add -A` runs in between, it is tracked by
   the time the rule is verified, and the secrets replace it. The README says that
   git has confirmed both. Asking about the index last would close it: once the
   answers about the ignore rules have been verified, the destination cannot enter
   the index any more (`VerifiedStaysOut`).
5. **add-member can save a list that no longer loads** (`recipients_break`).
   `Add` checks a signing key with a decoder that skips line breaks and saves it as
   it was typed. A break inside the key leaves half a line in `recipients.shenv`,
   and every later command refuses the file. A break after the key of somebody
   else passes the comparison of `Add` and leaves two entries with one key. The
   comment in `Add` says that a list the next `Load` would reject is never
   persisted. Saving the decoded key, encoded again, would close it for aliased
   spellings too.

## The proofs

`RecipientsFileProofs`, for any sets of names and keys and any number of commands,
and any `Reads`, from `OutsideAssumption` and `ReadsAssumption` (what has been read
back once reads back as it is). `Inv` is inductive: every command about to save
holds the result of its checks on one list that loaded, whose keys read back
(`LoadedList`). It is needed because the file may have changed since:
`SavedLoadable` does not follow from the file's state. `PrintedList` takes a list
to its printed file. The lemmas `AddedLoadable`, `RemovedLoadable` and
`AddReplacesOne` say of the pure operators what the three theorems `SavesLoad`, `AddLeavesOneEntry` and
`CommandsKeepOthers` then say of every save.

`ShenvProofs`, for any number of users, commands, blobs and changes, from the
assumptions that `Shenv` and `Payload` name (constants have their types, and
blobs that exist at the start are encrypted for their manifest). `Inv` is the
conjunction of `TypeOK`, of `Locals` (what each step may rely on: for instance
that from `SealLoads` on the list loads and holds the sealer with its own signing
key), of `Confirmed` (past the pin, the list in hand has been accepted), and of
the three properties. `Confirmed` is what makes them inductive: between the
question and `Put` or `WritePin` the repository's file may change, and only the
list in memory is the accepted one. The proof has one step per action; what a
machine has accepted only grows (`AcceptedGrows`), only `AdoptProject` and
`WritePin` change a pin, and only `Put` changes the store. `PinsAreAccepted`,
`SealsAreAccepted` and `SealersCanOpen` follow.

`SecretStoreProofs` shows that `Shenv` implements `SecretStore`, from the invariant
of `ShenvProofs`: `Locals` gives that the list of a `Put` loads and holds the
sealer, and `Confirmed` that it was accepted, which are `Seal`'s conditions.
`TrustsAccepts` and `ListsStay` say what a step does to the abstract lists.

`ConsentProofs` is about what a user was told or shown, and goes from the least
assumption to the most.

- With nothing assumed: `LockoutsAreTold`. A blob that carries a signature was
  encrypted for the list it carries (`SignedForManifest`), which puts everyone of
  a verified blob among the members or the warned (`WarnedOfAll`); a blob that does
  not verify is warned of key by key. `Consented` then holds from the answer to
  `Put`, as a command's local variables are its own (`OthersStay`).
- With `Quiet` (the user's files change only between commands):
  `PinsAreShown` and `VerificationIsTrusted`. `Steady` ties the list and the project
  in hand to the repository's files from the moment each is read, and `Shown` says
  what the pin and the files have to do with each other at every step. The run
  `verify_race` shows that the second fails without the assumption.
- With `OneCommand` (`\A p, q \in Proc : p = q`): `NoLockoutAlone` and
  `EditAloneWarns`. From `GuardGet` on, the blob read is the one in the store
  (`Undisturbed`). `EditWarnsOfReseal` is what `edit_race` refutes for two commands,
  so that the gap is a matter of concurrency alone.
- With both: `SealsOpen`. What `Stored` says of the blob, the pin and the files
  when a seal has put its blob is what a following `open` checks.

The run `alone` is an instance of both assumptions, so that they can be met.

`IdentityProofs`, for any number of terminals and identities. `OneIdentity` does not
follow from the file: a command may hold a key that is in no file yet, or
no longer. `Single` says that all commands past the creation have the same key in
hand, which is the one shared and the one in the file, and that while a file is
created and not filled (`Filling`) nobody has one. `Secrets` does the same for the
passphrase (`Keeps`), which a repair writes back from what it read before; a key
that is not in the file yet has no entry in the keychain (`IsNew`). `CurrentKeyKept`
assumes `AllCurrent`, that no key file at the start needs a repair; with `Durable`
the steps that truncate the file are never reached.

`GitGuardProofs`, for any directories, destinations, rules and number of commands.
`Inv` contains `Found`: what a command found out is still so when it relies on it,
but for what `git add -A` did meanwhile (`swept`). The lemma that carries it is
`HarmlessLines`: lines that take nothing back, appended anywhere, leave ignored what
was ignored, because the last line that matches is one of them or the one it was.
So the rules that other commands append cannot undo an answer git has given.
`Locals` says that commands only append such lines, and finitely many.
`ActsSecrets` says which files may hold secrets after a step, and `SecretsGuarded` follows.
`VerifiedNotStaged` is about the other side: `git add -A` takes only what is not
ignored, and what has been verified, or holds secrets, is.

`BackendProofs`, for any number of commands, blobs, shell commands, pulls and power
failures. `Inv` is `TypeOK`, and: the trusted commands were approved, all files at
the final path are whole and synced (`WholeFiles`, with what the temporary file
holds from `Syncs` to `Renames`), what is being written can be read back, an
orphan's blob too, and what each step relies on (`Locals`, `Gets`). `WholeFiles` is
what the refinement needs of the past: a power failure picks any file of `recent`.
`OnlyApprovedRuns` needs that the commands a process holds were approved before it
leaves `EnsureTrusted`, as config.shenv may have changed since. `GetsAreTrue`
relies on `saw` having every value `remote` took while a get ran. `Implementation`
maps `Renames` to `Stores` and `PowerFails` to its namesake.

`SelfUpdateProofs`, for any versions, answers and number of commands. `Inv` adds to
`OnlyReleased` and `NeverWithout` what the steps rely on: past `Verifies` the archive
is the release its tag names, and on Windows, whoever is between the two renames
is alone there and the binary is away, which holds because the first rename fails
without a binary. For the notice, `Told` says what the cache holds at every step of
a refresh, and whether its claim stands or is counted in `lost`, in a window in
which no two overlap: `NewsIsKept` and `AskedOnce` follow.

The same module proves that the comparison is semver's order: `FirstDifference` says
what a comparison field by field returns, `CoresBySemver`, `IdentsBySemver` and
`PrereleasesBySemver` relate each operator of the code to its relation in `Versions`,
and `VersionsBySemver` puts them together. No induction is needed, as the loops are
written as the smallest index at which two sequences differ. `ComparesBySemver`
is the property of the run, for all versions and not the 15 of `self_update`;
`UpdatesUpgrade` and `NoticesTrue` rest on it.

Only model-checked: `CallsReturn` and `CommandsEnd`. They are liveness under fairness,
which the prover does not do. Every other property of a passing run is a theorem,
and TLC evaluates all assumptions on the instances. Of the five properties that a
run refutes, `TrustedVerification`, `EditWarnsOfReseal` and `KeyKept` are proved under
the assumptions above; `NeverCommittable` has `Guarded` in its place, which excepts
what `git add -A` took, and `NeverRejected` has `SavedLoadable`.

## Not modelled

- The syntax of files (`recipients.shenv`, `config.shenv`, `.env`), Unicode names,
  terminal output, symlink and permission checks: where a command that fails one
  stops, `Stop` (in `RecipientsFile` `SaveFails`) covers it. Errors that a command
  goes on from are steps of their own: those of the update cache (`CannotLoad`,
  `CannotOpen`, `CannotWrite`), of the repair of a key file (`HealFails`), of the
  lockout check's reads (`GuardUnread`), and of the swap of a binary
  (`CannotMoveAside`, `CannotSwap`, `CannotRestore`). That `edit` only warns when it
  cannot refresh .env makes no difference: it is its last step.
- `InitProject` (project.go): what a project id does that arrives between two steps
  of a seal or an open is in `Shenv` (`NewProject`). Its own check of the config and
  the blob, and the write, are not atomic against a pull.
- The private directory of `edit` for the plaintext: it is made, used and shredded
  within one call, and what a kill leaves there is a limit the documentation names.
- A power failure during a self-update: `replaceExecutable` does not sync its
  temporary file (update.go:400), so that a power failure after the rename may
  leave a binary that is not whole. Only kills are modelled there, and in `Identity`,
  where a new key file is not synced either (identity.go:284).
- Downloads and archive formats: an archive is what was in it, or `Bad`.
- Revocation of what was already opened, replay of old blobs by someone who can
  write to the storage: the documentation excludes them.
- `status`, the `.env` parser, hardening, style and the command line keep no state.
- The release tool runs once, by hand.

## Plan

1. *Done*: the modules above, and theorems for all of their safety properties.
2. `SecretStore`: theorems of the abstract specification itself (whoever can read
   the store was accepted by a member), which `Implementation` carries over.
3. `InitProject` (project.go): its check of the config and the blob against a pull.
