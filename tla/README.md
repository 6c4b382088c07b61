# Nimbus / Revivetendo: specifications

TLA+ specifications of the 3DS homebrew app *Nimbus* (this fork installs the
Revivetendo patches) and of its companions: the *RvtA* analytics sysmodule, the
Hokaku plugin and the system-module patches. The modules follow the code in
`app/source`, `rvta/source/main.c` and `plugin/Sources`; `PROJECT.json` maps
each definition to the lines it stands for, and lists the runs, the mutants
that show that each property depends on the code, the hazards and the theorems.

    tlc -config X.cfg M      check a configuration of module M
    tlapm M.tla              check the proofs in module M (those named ...Proofs)

## 1. Inventory

### The parts

| Part | State it keeps | Operations | Talks to |
|---|---|---|---|
| **RvtA sampler** (`rvta/source/main.c` 500-607, 1489-1603, main thread) | row counter, boot counter, current log, `g_status`, playing record | sample, `writeRow`, `selectLog`, switch log when the friend code is known | SD card, MCU, the uploader through the files |
| **RvtA uploader** (698-1146) | round memory, chunk buffers, `httpReady` | online check, `uploadLogs` (rename, post, delete), `uploadCrashDumps`, `uploadMemoryDumps`, `roundBegin`, `roundEnd` | SD card, `http:C`, server, LED |
| **RvtA input thread** (1148-1418) | `lastDump`, `wasHeld` | button combo, `dumpApp` | SD card, uploader (event), LED |
| **RvtA identity** (321-438) | `id.txt`, `boot.txt`, session key | `loadIdentity` | SD card, row numbers |
| **RvtA MCU session** (79-186) | libctru's handle and use count, `mcuBorrowed` | `mcuOpen`, `mcuClose` | all three threads, srv |
| **Patch cache** (`net/Manager.cpp`, `net/Fs.cpp`) | `<cache>`, `<cache>.new`, `version.txt` | `prepare`: ask, reuse or download, swap | CurlHttp, Archive, Release, SD card |
| **Service selection** (`net/Services.cpp`, `net/Sources.cpp`) | none (pure) | `normalized`, `presetOf`, `setProvider`, `providersUsed`, ... | NetworkSwitch, Installer |
| **Installer and state.txt** (`net/Installer.cpp`, `net/State.cpp`) | `/luma/sysmodules`, `/luma/titles`, staging folder, `state.txt` | `stage`, `install`, `removeRvta`, `serialize`, `parse` | SD card |
| **Patch networks screen** (`states/NetworkSwitch.cpp`) | stage, job, retry, selection, trust, consent, `needsReboot` | one frame per stage; jobs; retry without verification | all of `net/` |
| **RvtA boot hook** (`net/RvtaHook.cpp`, `net/ExheaderPatch.cpp`) | exheader override, `rvta-hook.txt` | `sync`, `install`, `removeHook` | pxi:pm, SD card |
| **Main screen** (`states/MainUI.cpp`, `repair.cpp`, `sysmodules/`) | account slots, prompt | switch or create an account, repair, unlink | act:a, frd:a, ndm |
| **Plugin launcher** (`MainUI.cpp` 206-266, `plgldr.c`, `plugin/Sources/main.cpp`) | the loader's state and parameters, saved and restored | Y key; the plugin's clean-up | plg:ldr, the next game |
| **App start** (`main.cpp`, `states/LumaValidation.cpp`, `common.cpp`) | `MainStruct` | frame loop, Luma check, exit, reboot | all screens |
| **Downloads** (`net/CurlHttp.cpp`, `Release.cpp`, `Archive.cpp`, `AppUpdate.cpp`, `CiaInstall.cpp`) | none between calls | get, newest release, unpack, install a CIA | network, SD card, am |
| **Hokaku plugin** (`plugin/Sources`) | hooks, found addresses, the game's code, logger, OSD | search by two tasks, ACNL fix, on/off menu, clean-up at the end | the game's threads, CTRPluginFramework |
| **System-module patches** (`patches/`) | http: one frd:u handle and one cached environment for all threads; the others none | replace host names while a Pretendo account is used; act: choose the account server; the others: constants | frd:u, the patched sysmodules |

### What is hard in each of them

* **RvtA log upload.** Two threads meet only in the SD card: the sampler appends
  to `<friend code>.csv` (and numbers the row first), the uploader renames it to
  `.up`, sends it in chunks cut at line ends and deletes it. Power may be lost
  anywhere, answers may be lost, a rename may be refused because the file is
  open, and an append cut short leaves a text behind which the next row is no
  longer a line of its own. Correct: no other row is lost, a file is deleted only
  after the server has it, the rows of a log arrive in order, and no log waits for
  ever unless the server refuses files for ever or others always fill the list.
* **RvtA dumps.** A dump is saved by one thread while the other lists, sends and
  deletes dumps; a wake-up may arrive at any point of a round; the offset comes
  from the server; memory is committed for a round and may be refused, or not
  taken back. Correct: a saved dump is never lost, an unfinished one never sent,
  the wake-up never missed, the buffers always fit the memory, and each dump is
  sent in the end.
* **RvtA sampling and identity.** A boot number on the card that must never be used
  twice; a poll that sees only the present, with a console that sleeps, changes
  accounts and loses power between polls. Correct: rows are numbered uniquely, and
  the log has no time in which the console's state is unknown.
* **MCU session.** A handle, a flag and a use count are shared by three threads
  without a lock, and srv may refuse each opening. Correct: nothing stays open,
  unless a use that was refused and borrowed a session meets another use.
* **Patch cache.** The old cache is deleted and the new one moved in file by
  file. Correct: what `prepare` hands over is a whole version.
* **Installation.** Ten groups of files are removed or copied one after the
  other, then `state.txt` is rewritten; a removal that fails is not noticed. Correct:
  after an apply the card holds exactly the selection, but for what could not be
  removed, and what is remembered is what is installed.
* **Patch networks screen.** Questions, jobs and retries in any order, over more than
  one launch, with a `state.txt` that was cut short or is an older version's. Correct:
  nothing is downloaded from a provider the player was not asked about (Pretendo
  excepted once the file was cut or old); verification is only turned off as the
  answer to a failed certificate; a retry repeats what failed.
* **Boot hook.** Two files written one after the other, next to other tools'
  files. Correct: RvtA is hooked when that is possible, no hook of ours is left
  without it, other tools' files are never touched, unless they lie where
  `rvta-hook.txt` names our own.
* **Main screen.** Account operations are several service calls on two services;
  one can fail between them, and the slots they work on may be missing, uncommitted
  or not where the number of the account says. Correct: no operation is left half
  done, what it says it did is so, and no other account loses its PNID.
* **Plugin.** Hooks run in the game's threads as soon as they are enabled; two tasks
  fill one table of hooks; code is changed and restored in steps that depend on
  each other; the loader's state is changed by the app and put back by a program
  that runs later. Correct: handlers always reach the game's own functions, the
  code is the game's own afterwards, the loader is as the player had it,
  unless Y was pressed twice or the player changed it meanwhile.
* **Redirection.** The threads of http:C share a session handle and a cached answer
  without a lock, and every call may fail. Other accounts are loaded while
  the cached answer stays. Correct: once a request was redirected every later one is,
  and none is before a Pretendo account was loaded.
* **App update.** Releases appear and files are replaced while the list, the file
  and the install are each retried in their own way. Correct: the newest eligible
  release, as it was listed, is what ends up installed; AM is never left holding
  an unfinished install; verification is offered off only for a failed certificate.

The rest (drawing, parsing, patches) is sequential, or its outcome is a choice in
the modules above.

## 2. Modules and code

One action is one operation of the code between two points where another
thread, a failure or a loss of power can be seen. A failed operation is a
disjunct or an action of its own and counts as a fault (`MaxFaults`, `MaxFailures`). Ghost
variables (marked `ghost` where they are declared) only record history for the
properties and never guard an action of the program. Operators named
`X_Something` under the comment "Mutant:" are not part of the model: each is a
plausible bug of `X`, used to show that a property depends on the code.

| Module | Code | How state and actions correspond |
|---|---|---|
| `LogDelivery` | promise of the log upload | `pending`, `delivered` and `unreadable` rows; a row is recorded, delivered (perhaps without the recorder knowing), and only discarded once delivered or once its log could not be read (`Misread`). A log may be damaged (`Damage`), which costs the next row recorded in it (`Spoil`) and no more |
| `RvtaLog` | `rvta/source/main.c` writeRow, fileAppend, fileRead, uploadLogs, uploadFile, post | `disk`, `files` are the SD card, `rows`/`writing` the sampler, `pc/listed/cur/off/len` the uploader's locals. `StartRow`/`FinishRow`/`FailRow` is `fileAppend` around the open file; a friend code is in `torn` while its `.csv` ends in a text without a newline, and the row appended to it (`AppendToCut`) is no line of its own for the server; `StartRound` lists the folder, `TakeUp`/`TakeCsv`/`SkipCsv` are the two passes of `uploadLogs`, `ReadChunk`..`DeleteUp` are `uploadFile` |
| `RvtaSampler` | `loadIdentity`, `main`'s loop, `readSample`, `selectLog` | `bootFile`/`bootCount` are boot.txt and the number of this boot, `known`, `logFc`, `polled` the slow fields, the selected log and the last poll; time is kept as ages in polls. `Boot` is a start up to the loop, `WakeUp`, `UseMcu`, `Poll` one turn of it with the rows it writes; the MCU is `RvtaMcu`, instantiated with the variables of the same names |
| `RvtaDump` | dumpApp, inputMain, uploaderMain, roundBegin, roundEnd, uploadCrashDumps, uploadMemoryDumps, uploadDumpFile | `Combo`/`Save`/`Signal` is the input thread, the rest the uploader; `Chunk` is one request with its server answer, `Accepts`/`Taken`/`Put` the server as the code expects it |
| `RvtaMcu` | mcuOpen, mcuClose | `handle`, `refCount` are libctru's, `mcuBorrowed` the flag; a thread goes through `mcuHwcInit` (granted or refused, anew each time), `stealSession` and the two halves of `mcuClose` |
| `PatchCache` | `Manager::prepare`, `Fs::move`, `removeTree` | folders as functions from names to the version whose bytes they hold; `Ask`, `Check`, `Clear`, `Store`, `Stamp`, `Drop`, `MoveOne`, `EndSwap` in `prepare`'s order, `GiveUp` its error returns |
| `Services` | `Services.cpp`, `Sources.cpp` | pure operators with the code's names; a selection is a function from services to providers |
| `SelectionPage` | `State::parse` result, the page's rows | a selection found in the file, `normalized`, then changed by presets and single providers |
| `PatchInstall` | `runApply` after the caches, `Installer`, `state.txt`, `setAnalytics`, `onStartup` | `luma`, `stage`, `saved` on the card, `state`, `sel` in memory; `InstallEntry` is one group of `kEntries`, `RemoveFile` a removal that may fail unnoticed (`stuck`), `Record` rewrites `state.txt` (which may be cut anywhere, also within a provider's name: `Beginnings`), `Reboot`/`PowerLoss` leave only the card |
| `NetworkSwitch` | `states/NetworkSwitch.cpp` | the screen's own variables; one action is one frame with the key pressed in it; a job is an outcome (`ApplyDone`, `ApplyFails`, `UpdateDone`, `UpdateFails`) |
| `RvtaHook` | `RvtaHook::sync`, `install`, `removeHook` | exheader overrides, `rvta-hook.txt`, the candidate loop; `RemoveOverride` may fail; `RvtaChanges`, `OthersChange` happen between two syncs, at any candidate |
| `MainScreen` | `states/MainUI.cpp`, `repair.cpp`, `acta.cpp` | account state of friends, act and ndm; an operation is known by the `call` it makes next and what comes `after` its common part, so that any call can fail or be the last before a loss of power. The slots of act are a sequence; which accounts they have, linked and committed or not, is open. An uncommitted one may or may not survive a restart |
| `Redirect` | `patches/http`, `patches/act` | `nasc_environment`, `frd_handle` are the patch's two words, `open`, `versioned` frd's side of them; each thread goes through the calls of `get_nasc_environment`, any of which may fail, between those of other threads; `LoadLocalAccount` changes `environment` at any time; a URL is a sequence of host names and other text |
| `Plugin` | `launchPlugin`, `PatternManager`, `HokakuCTR`, `patches.cpp`, `rt.c`, the plugin's `main` | `enabled`, `params` are the loader, which the player may switch at any time (`LoaderToggled`); `RestoreState`, `ClearParameters` the two calls of the plugin's clean-up; `at`, `hit`, `doing`, `lock` the two tasks of the search; `hook`, `addr`, `ids` the plugin's tables, `code`, `patchedIds` the game's memory; `todo` the steps the menu entry or the end still has to take |
| `RvtaLogProofs`, `RvtaDumpProofs`, `RvtaSamplerProofs`, `PatchCacheProofs`, `ServicesProofs`, `PatchInstallProofs`, `NetworkSwitchProofs`, `RedirectProofs` | | the inductive invariants and theorems about the module they are named after, and, five of them, about a second one (section 4) |
| `SelfUpdate` | `runSelfUpdate`, `AppUpdate`, `CurlHttp`, `Release`, `CiaInstall` | `releases`/`replaced` are GitHub, `app`/`pending` AM. `GetFails` is one failed attempt of `CurlHttp::get` with its code; `CheckGot`, `FetchGot` the answers `AppUpdate::check` and `fetch` go on with; `StartInstall`..`FinishFails` one `attempt` of `CiaInstall` in each mode |

`RvtaSampler` composes the sampling loop with `RvtaMcu`: one thread's uses of the
MCU are the loop's, the other threads' are the uploader's and the input thread's.
`PatchInstall`, `NetworkSwitch` and `SelectionPage` extend `Services`;
`PatchInstall` begins where `PatchCache` ends (a prepared cache is whole, or the
copy of a file from it fails), and `NetworkSwitch` sees both as the outcome of a
job. `RvtaLog` and `RvtaDump` are the two halves of an uploader round that share
no files. `MCRvtaLog`, `MCPatchCache` and `MCSelfUpdate` only give model values.

A row of `RvtaLog` is a row some poll of `RvtaSampler` writes; `RvtaLog` allows it at
any moment, and takes from `RvtaSampler` that its number is new.

What is external and how it is assumed to behave: the FS service (rename is
refused onto an existing name and for an open file, a write that returned is on
the card), the RvtA server (a chunk is stored whole or not at all, or refused; lines
that are no rows are skipped, main.c:795; its answer may be lost; it may forget
dumps), `srv`/libctru's use count, `act`, `friends`
and `ndm` (a loaded account, the default slot and committed slots survive a
restart, the newest uncommitted slot may), `frd:u` (an SDK version is needed for
each session; the environment is that of the account loaded when it is asked), Luma's
plugin loader and
CTRPluginFramework (the game does not run while its menu is open or while
`PatchProcess` runs), the patch sources and other homebrew tools that write
overrides.

## 3. Runs

All runs pass; what the code does not keep is in section 5.

| Run | What is asked | Bounds |
|---|---|---|
| `rvta_log` | `NoRowLost`, `InOrder`, `DeleteOnlyConfirmed`, `EventuallyUploaded`, `ImplementsDelivery` (the upload implements `LogDelivery`) | 2 logs, 4 rows, log limit 2, chunks of 2 rows, 2 of 4 names listed, 1 fault (an append or a power cut, a rename, a delete, a read), chunks refused without limit |
| `rvta_sampler` | `RowsAreUnique`, `RowsTellTheState`, `IdleIsFresh` | 2 threads, 2 uses of the MCU between two rests, each opening granted or refused, 1 friend code, polls 2, 6 or 8 apart, 2 boots, 1 fault |
| `rvta_dump` | `SavedIsKept`, `NeverSendsUnfinished`, `NoDumpWaitsForTimer`, `BuffersFit`, `EventuallySent` | 1 crash folder, 2 memory dumps, 1 crash dump, files of 3 chunks, 1 dump listed per round, 2 faults |
| `rvta_hook` | `OthersUntouched`, `HookedIfPossible`, `NoHookLeftBehind` | the 3 candidates, 3 changes by others, 3 faults |
| `patch_cache` | `PreparedIsWhole`, `FailureKeepsACache` | 3 versions of 2 files (see `MCPatchCache` for which version ships which), 2 faults |
| `selection_page` | `AlwaysInstallable`, `NeverSplits` | 4 entries of the file vary over 5 values or are missing |
| `patch_install` | `AppliedIsExact`, `RememberedIsInstalled`, `DeclinedIsGone` | all 10 entries, 3 applies, 2 faults, `state.txt` cut anywhere |
| `network_switch` | `TrustedBeforeDownload`, `UnverifiedOnlyAfterCertificate`, `RetryRunsTheSame` | all rows and presets, 2 launches, 1 failed save, a missing or older `state.txt` |
| `main_screen` | `HalfDoneRestarts`, `SwitchedIsWhole`, `RepairIsRemembered`, `OnlyAskedIsUnlinked` | up to 3 slots in any order and state, 3 launches, 2 faults |
| `self_update` | `InstalledIsNewest`, `NeverOlder`, `OfferedForCertificate` | 4 version numbers, 2 releases, 3 attempts, CIAs of 2 chunks, 3 faults |
| `redirect` | `StaysRedirected`, `AccountNotAtNintendo`, `OnlyForPretendo` | 2 threads, 2 sessions, failures and changes of account without limit |
| `plugin` | `HandlersReachTheGame`, `CodeIsRestored`, `FixedOrUntouched`, `LoaderAsBefore` | 2 games: any other, or Animal Crossing with or without the handler and the ids; 2 search tasks, 5 functions, 1 failed call |

Why these bounds are enough to meet the interesting cases:

* *Logs.* Two logs are needed for one to stand behind the other in a round; a list of
  two of the four names can be full without one of the logs, as the list of 16 can
  be in the code; a limit of two rows lets a log fill up while its `.up` waits; two
  rows per chunk is the smallest chunk whose last row may be cut. One fault cuts a row
  or the power at any point, and a refused or lost chunk is none of them, so that it
  can come before and after. With two faults the safety properties and the refinement
  hold as well (checked once; the liveness takes too long then).
* *Dumps.* Files of three small chunks with large chunks of two give a short last
  chunk in both buffer sizes; one dump per round with two on the card makes the
  list overflow, as eight does in the code.
* *Cache.* Three versions let the source move on twice during a call; one of them
  drops a file that the older one had.
* *Sampler.* Polls 2, 6 and 8 apart are a usual gap, one that is just no sleep and
  one that is; with a row every 12 any of them can be the one that is overdue. The
  second boot starts from whatever the first left in boot.txt. Two
  threads with one use each, or one with two, overlap in every way two can; the
  theorem is about any number of threads.
* *Install.* Three applies give every pair of presets with one that failed in
  between; two faults a failed install followed by a failed one or a cut save.
* *Screens.* Two (three) launches let anything that was left on the card or in the
  services by one launch be met by the next. Three slots are the two accounts of the
  app and one that is neither, in any order.
* *Redirect.* Two threads are enough for one to close or replace the other's session;
  with two sessions each has its own, or one meets what the other left. Three sessions
  give the same answers (checked once).
* *Plugin.* Two games: the second one meets what the first left in the loader. Two
  patterns of a hook may match, in code before which a function begins or not.
* *Update.* The four numbers are one below the built one and three above it,
  of two to four parts, two of them being the same version. Three failures use up the three
  attempts of a request, with a different cause each time; fewer than three
  would leave the last attempt unable to fail.

Every module that keeps state declares the ranges of its variables in `TypeOK`
(`HookTypeOK`, `PageTypeOK`, `MainTypeOK`, `PluginTypeOK`, `UpdateTypeOK`). It is
not among the properties of the runs: it is proved for `RvtaLog`, `PatchInstall`,
`Redirect` and `MainScreen`, and part of the proved invariants of `RvtaDump` and
`PatchCache`; the other proofs carry the types they need in their own invariants. For
those modules add it as an `INVARIANT` to the configuration to check it under the same
bounds.

`CHECK_DEADLOCK FALSE` stands where the system stops by itself once a bound is
used up: the screens after their last launch, the console after its last boot. In the
other runs a thread waits for ever for its next round or call, or the player can
always do something, and deadlock is checked.

### Fairness

Only `rvta_log` and `rvta_dump` use fairness, and only weak fairness. The sampler's
loop sleeps between samples, the uploader waits on its event with a timeout
(`UPLOAD_SECONDS`), and neither waits for the other. Each thread therefore always goes
on, which is `WF_vars(Uploader)` and, for a row that is being appended, the finish of
the append. One assumption is not in this code: `httpcGetResponseStatusCode` is called
without a timeout, so that a request ends at all rests on the http service. Nothing is
assumed of the player, of when rows are written or of the order of the directory. That
the console is online and the card works is not fairness: failures are steps that can
happen `MaxFaults` times and then no more, so the liveness properties say what happens
once faults stop. In `rvta_log` a chunk may be refused without limit, and a round
lists two of the four names there can be, whichever the directory returns first, as
the code looks at 16. A log may then wait for ever in two ways, which
`EventuallyUploaded` names as alternatives: chunks are refused again and again
(`PostFail`; the first file refused ends each round, so that one the server never
takes keeps back those behind it), or the list is full again and again without a file
of this log that could be taken (`Missed`: `.csv` files take up places although they
are skipped while their `.up` waits). If neither goes on for ever, every row arrives;
that either could is why the property is not simply progress.

## 4. Proofs

Every safety and action property the runs check is proved for every value of the
constants that the module's assumption allows: any number of friend codes, rows,
dumps, folders, versions, threads, launches, games, applies, faults and changes, any
chunk sizes and delays, any contents of `state.txt`.

Five of the proof modules are about two components whose states have nothing in common:
`RvtaSamplerProofs` also about the boot hook that starts the sampler (`RvtaHook`),
`PatchInstallProofs` about the main screen (`MainScreen`), `NetworkSwitchProofs` about
the selection of its page (`SelectionPage`), `RedirectProofs` about the plugin
(`Plugin`) and `PatchCacheProofs` about the app's update (`SelfUpdate`). Each extends
the modules of both, which therefore declare no name twice: the second one's specification is
`HookSpec`, `MainSpec`, `PageSpec`, `PluginSpec` or `UpdateSpec`, and where the others
have `pc` and `faults` it has a name of its own (`step`, `power` or `doing`, and
`failures`). No theorem speaks of both at once.

| Module | Theorem | Statement |
|---|---|---|
| `RvtaLogProofs` | `TypeCorrect` | `Spec => []TypeOK` |
| | `RowsKept` | `Spec => []NoRowLost` |
| | `ConfirmedBeforeDelete` | `Spec => []DeleteOnlyConfirmed` |
| | `ArriveInOrder` | `Spec => []InOrder` |
| | `Refinement` | `Spec => ImplementsDelivery` |
| `RvtaDumpProofs` | `DumpsKept` | `Spec => []SavedIsKept` |
| | `OnlyFinishedSent` | `Spec => []NeverSendsUnfinished` |
| | `NoneWaitsForTimer` | `Spec => []NoDumpWaitsForTimer` |
| | `MemoryFits` | `Spec => []BuffersFit` |
| `RvtaSamplerProofs` | `NumbersUnique` | `Spec => []RowsAreUnique` |
| | `LogTellsTheState` | `Spec => []RowsTellTheState` |
| | `NothingLeftOpen` | `Spec => []IdleIsFresh` |
| | `LeavesOthersAlone` | `HookSpec => OthersUntouched` |
| | `HooksWhenPossible` | `HookSpec => []HookedIfPossible` |
| | `OnlyTheRecorded` | `HookSpec => []NoHookLeftBehind` |
| `PatchCacheProofs` | `AlwaysWhole` | `Spec => []PreparedIsWhole` |
| | `AlwaysACache` | `Spec => []FailureKeepsACache` |
| | `UpdatesToNewest` | `UpdateSpec => []InstalledIsNewest` |
| | `NeverBack` | `UpdateSpec => NeverOlder` |
| | `OfferedWithReason` | `UpdateSpec => []OfferedForCertificate` |
| `PatchInstallProofs` | `TypeCorrect` | `Spec => []TypeOK` |
| | `InstallsExactly` | `Spec => []AppliedIsExact` |
| | `RemembersInstalled` | `Spec => []RememberedIsInstalled` |
| | `NoIsKept` | `Spec => []DeclinedIsGone` |
| | `MainTypeCorrect` | `MainSpec => []MainTypeOK` |
| | `LeavesAsFound` | `MainSpec => []HalfDoneRestarts` |
| | `SwitchWorks` | `MainSpec => []SwitchedIsWhole` |
| | `RemembersRepair` | `MainSpec => []RepairIsRemembered` |
| | `OnlyAsked` | `MainSpec => OnlyAskedIsUnlinked` |
| `NetworkSwitchProofs` | `CertificateFirst` | `Spec => UnverifiedOnlyAfterCertificate` |
| | `SameAgain` | `Spec => RetryRunsTheSame` |
| | `AlwaysTrusted` | `Spec => []TrustedBeforeDownload` |
| | `StaysInstallable` | `PageSpec => []AlwaysInstallable` |
| | `BundlesStayWhole` | `PageSpec => []NeverSplits` |
| `RedirectProofs` | `TypeCorrect` | `Spec => []TypeOK` |
| | `OnceRedirected` | `Spec => []StaysRedirected` |
| | `PretendoOnly` | `Spec => []OnlyForPretendo` |
| | `AccountStaysHere` | `Spec => []AccountNotAtNintendo` |
| | `HandlersGoOn` | `PluginSpec => []HandlersReachTheGame` |
| | `CodeComesBack` | `PluginSpec => []CodeIsRestored` |
| | `AllOrNone` | `PluginSpec => []FixedOrUntouched` |
| | `LoaderComesBack` | `PluginSpec => []LoaderAsBefore` |

Few of the properties are inductive; what the invariants add, and why:

* **`RvtaLog`.** That a deleted file's rows are stored only follows from what the
  uploader has walked past, and that a rename loses nothing from what a missing file
  holds. `IInv` adds to `TypeOK`: `Absent` (a path that does not exist is empty, so a
  rename onto it overwrites nothing), `Open` (the log being appended to exists and its
  row has a number), `Confirmed` (every row before the offset of the current file is
  with the server), `Inside` (a chunk lies within its file, and a file is given up
  only at its end or after a misread), `Home` (a row of a log that was never misread
  is in one of the two files of its own friend code or with the server) and `Owned` (a
  file only has rows of its friend code). `NoRowLost` follows from `Home`,
  `DeleteOnlyConfirmed` from `Confirmed` and `Inside`. That a cut costs one more row
  at most is `CInv`: a cut row comes after all that were appended (`CutLast`, until
  the next one is), and each row that was glued has its cut right before it
  (`Charged`). For the order, `OInv` adds that row numbers only grow (`Numbered`),
  belong to one friend code (`Apart`), ascend in each file (`Sorted`) and are lower in
  a waiting `.up` than in the `.csv` beside it (`UpFirst`). In `Refinement` each
  action is a `Record`, `Misread`, `Deliver`, `Discard`, `Damage`, `Spoil` or a
  stutter of `LogDelivery`. The lemmas before say what appending, walking and deleting
  do to the rows of a file.
* **`RvtaDump`.** What may be deleted is decided by an offset that the server's answers
  move. `Counted` says that an offset at the end means the server has had the file,
  `Finished` that what is listed or sent was finished by the input thread, `Signalled`
  that a dump the running round may have missed has set the event or is about to, and
  `BuffersFit` itself is needed as it stands. The lemmas go group by group: the input
  thread, the round, the lists, the chunks, and what comes from outside.
* **`RvtaSampler`.** Three invariants, each about its own variables. `BInv`: no number
  that was used is above the one in `boot.txt`, as long as the file was always read and
  written. `Telling`: the newest row is about what was last polled and no older than
  the last sample, which is younger than a sampling interval; the lemmas go through
  the rows one poll writes, before and after a sleep. `MInv`: as
  long as no use that srv refused has met another, either nobody borrows (`Shared`),
  and libctru counts exactly the threads between their two calls, at most one of them
  is asking, and the session is open once it has been answered; or one thread does
  (`Alone`), is the only user, and what is borrowed is the session it reads with.
* **`RvtaHook`.** `Recorded` says that the recorded title has another tool's override
  only where one was put there since (`taken`), in spite of writes that may fail;
  `Ours` counts which overrides of ours there may be at each point of a sync;
  `Searched` that a search that goes on has passed over no free candidate. `Types`
  leaves out the bounds on faults and changes, which nothing rests on.
* **`PatchCache`.** `Untouched` and `Stored` carry the call to the swap; `Swapping` says
  that each file of the new version is in one of the two folders; `Labelled` that a
  cache that names a version has all of it, unless a swap was cut short.
* **`SelfUpdate`.** First the algorithms: `ComparesNewer` (what `compareVersions` returns
  is the order `Newer`), `NewerOrder` (which is transitive and strict), `BestRuns` (the
  loop over the list does what each of its turns says) and, from these, `FindsNewest`.
  Then the life of an update: `Chosen` (what is being fetched, started or written is a
  release, no older than the app, and the newest of the list received), `Downloaded`
  (the file is the one that was chosen) and `Origin` (the app is one of the releases, or
  the first app, which knows its version). `Origin` is what `NeverOlder` rests on: the
  app that runs may be older than the one installed, and compares with its own version,
  but a list that has the installed release never offers an older one.
* **`PatchInstall`.** `Staged` says that, apart from a copy that was cut short, the
  staging folder is what the selection wants, `InPlace` that each entry `install` has
  passed is as staged, `Exact` that in the end the card is as wanted. `Remembered` and
  `Texts` follow the texts of `state.txt` on the card and in memory, which a cut write
  may shorten but not change; `Kept`, `NoAnalytics` and `Declined` follow the answer to
  the analytics question through both.
* **`SelectionPage`.** `AlwaysInstallable` and `NeverSplits` are inductive together;
  the work is in `ServicesProofs`, the lemmas on what `normalized`, `selectionFor` and
  `setProvider` return for every selection.
* **`NetworkSwitch`.** `RInv` ties the offer of a retry to the failure on the screen.
  `TInv` says that every selection the screen holds, or will read back from
  `state.txt`, only uses providers that were agreed to, or Pretendo once the file was
  cut short or an older one: what `normalized` makes of a name it does not know.
* **`MainScreen`.** `Shape` and `Known` say that no account has two slots, wherever they
  are, `AsFound` and `Unlinked` what has not changed since the launch and which new
  account has a PNID, `Clean` that the services
  are as the app found them whenever it could be left, `Noticed` that a restart that is
  needed has been announced, `Asked` that an open question is about the slot it names.
  `Operating` says for each call of a switch or a repair what the calls before it have
  brought about (`Preparing`, `Placing`, `Placed`): that is what fails to hold when a
  call is left out or moved.
* **`Redirect`.** The cache is empty or right (`CacheRight`) and is filled before any
  request is redirected (`Filled`). `AccountNotAtNintendo` adds what `find_and_replace`
  does to the URLs there are (`FindReplaces`, `NintendoReplaced`). An account that is
  loaded while nobody asks cannot undo it, as the cache is full by then (`Steady`).
  `OnlyForPretendo` is `Right`, that an answer a thread has heard (`Heard`) or stored is
  of an account that was loaded.
* **`Plugin`.** `Copying` says that a task that has found a function is the only one
  that fills its hook, `Placed` that a hook that was set up goes on to the place it
  was put at, `Jumps` that the code jumps exactly where a hook is on. `Collected` says
  that the places of the ACNL fix are all known when the task that looks for them has
  finished, `Fixing` that they are changed together, and `Going` which steps the menu
  and the end still have to take. The loader has an invariant of its own (`Loading`):
  what is saved for the plugin is what the player had set, from the key to the
  clean-up (`Cleaning`).

The step of each invariance proof has one case per action or group of actions, and
under it one step per conjunct it can disturb.

Only model-checked: the liveness properties `EventuallyUploaded` and `EventuallySent`,
as liveness under fairness and `ENABLED` are out of the prover's reach. The prover
cannot use the induction theorems of the library either, which take an operator as
their parameter; where a proof goes along a list or counts, it is done with the
smallest counterexample (`SmallestNumber`, which rests on finite sets being
well-founded under inclusion). For the same reason the modules define what they
compute with sets, `CHOOSE` and recursive functions, and not with folds over `LAMBDA`.

## 5. Disagreements between code and documents

What the code promises in its comments and READMEs and does not keep is not among
the runs; a configuration for each statement, checked by hand, gives the trace.
`PROJECT.json` does not list these configurations.

| Configuration, property | Statement | What happens |
|---|---|---|
| `MCRvtaLogReadErrors`, `EveryChunkConfirmed` | "deletes it once every chunk was confirmed" (main.c:785) | `fileRead` returns 0 at the end of the file and when a read fails (main.c:790), and `uploadFile` deletes the log on 0: with one failed read a log that the server never got is deleted |
| `RvtaMcuFull`, `OnlyHeldWhileReading` | "only held while reading" (main.c:504) | two threads borrow a session of the full port at once; the first handle is overwritten and never closed. It also happens when threads only switch at IPC calls |
| `MCPatchCacheReuse`, `ReusedIsWhole` | "reuse it if its recorded version is already current" (Manager.hpp:29) | the new cache is moved in file by file with `version.txt` among the files; a swap that stops after it leaves a cache that counts as current although files are missing |
| `MCPatchCacheFailure`, `FailureKeepsCache` | "A failure at any point leaves the previous cache untouched" (Manager.hpp:30) | the old cache is deleted before the move that fails |
| `SelectionPageBundle`, `AlwaysTogether` | "its services must be taken together" (Sources.hpp:28) | `normalized` keeps a bundled provider for the entries that name it when others are missing or changed |
| `PatchInstallKept`, `CleanedUp` | "For every known destination this network does not ship, the old file is removed" (Installer.hpp:9) | the result of `std::remove` is not looked at (Installer.cpp:129): a file that cannot be removed stays, and the apply ends without an error |
| `PatchInstallTorn`, `NeverHalfWritten` | "a failed copy never leaves a half-written patch behind" (Installer.cpp:47) | `Fs::move` copies onto the destination when the rename fails; that copy may fail |
| `PatchInstallState`, `StateNamesInstalled` | "what is installed" (State.hpp:9) | a failed install leaves `state.txt` naming the network it has partly replaced |
| `PatchInstallNo`, `NoMeansNo` | "never keep RvtA when the player said no" (NetworkSwitch.cpp:348) | the answer's save is cut short and power is lost before RvtA is removed |
| `NetworkSwitchTrust`, `NothingUnasked` | "must be trusted by the user once before anything is downloaded" (NetworkSwitch.cpp:104) | turning analytics on applies the saved selection; a provider this version does not know, of an older `state.txt` or of one cut short within the name, becomes Pretendo, which was never asked about |
| `NetworkSwitchReboot`, `NoWorkBeforeReboot` | "Only allow user interaction when the system doesn't need a restart" (MainUI.cpp:674) | after "no" to analytics the page stays open and starts jobs |
| `RvtaHookOthers`, `LeftAlone` | "someone else's override: leave it alone" (RvtaHook.cpp:124) | whose override it is goes by the title in `rvta-hook.txt` alone: after a failed write or an interruption our file is not there, and one that another tool puts at that title is overwritten or removed |
| `RvtaHookPxi`, `RemovedOtherwise` | "removes it otherwise" (RvtaHook.hpp:13) | a sync without pxi:pm forgets the override; it stays when RvtA is gone |
| `RvtaDumpOnce`, `ReportedOnce` | each crash dump "once" (main.c:1026) | `crash-uploaded.txt` is read up to 4095 bytes; later entries are not seen |
| `PluginTwice`, `PreviousStateKept` | "Save the previous plugin loader state" (MainUI.cpp:245) | Y pressed again before a game runs saves the state that the first press set; the plugin then leaves the loader enabled |
| `MainScreenDummy`, `DummyOnlyWithoutAccount` | "If an account doesn't exist, we just create the dummy file" (MainUI.cpp:527) | a failed lookup, or a missing act slot, writes it too, and the account is never repaired |
| `MainScreenReset`, `ResetIsOwn` | "Reset the act account" (MainUI.cpp:114), the one of the account that was created | the friend id is used as the number of the slot: if another account has that slot, it loses its PNID, and the new account keeps what it has |
| `RedirectLoaded`, `OnlyWhileUsed` | "when a Pretendo account is being used" (patches/http/README.md:3) | the answer is cached until the restart: after another account is loaded requests go on being redirected; and a question that fails lets its request through |
| `RedirectLeak`, `NoSessionLeft` | "close frd_handle since we dont need it anymore" (frdu.s:48) | only a question that was answered closes, and it closes the session the shared word names by then: each failed question, and one of two that overlap, leaves a session open |
| `MainScreenPrompt`, `NothingChangesBeforeRestart` | as above (MainUI.cpp:674) | X and A in one frame: the switch fails, and the question X opened can still be answered |

Where such a statement fails the project also checks what does hold, for
instance `DeleteOnlyConfirmed`, `FailureKeepsACache`, `DeclinedIsGone` and
`RepairIsRemembered`.

Seen while reading, without a configuration of their own:

* `boot.txt` is emptied before it is rewritten; cut in between, the next boot counts
  from the start again, and "makes row sequence numbers unique across reboots"
  (main.c:428) no longer holds. `RowsAreUnique` excepts it (`damaged`).
* main.c:10 says what friend code 0 means; a refused `frd:u` session (main.c:464-471)
  looks the same, and its rows go to the log of code 0.
* "A log file is only deleted after the server confirmed it" (main.c:5-6), but rows
  can be lost in it: a row cut short by a failed write or a loss of power has no newline,
  and the next one is written behind it (main.c:293). The server skips the line that
  is made of both (main.c:795): that next row is lost, although its own append was
  successful. `NoRowLost` says that it is one row for each cut.
* A file that the server refuses for ever keeps back the logs behind it (main.c:919),
  and 16 names that are `.csv` files with a waiting `.up` can keep a log out of the list
  in every round (main.c:876): see the fairness in section 3.
* What the player switches in Luma's menu between Y and the game's start is undone: the
  plugin puts back the state saved by Y (plugin main.cpp:125-126). `LoaderAsBefore`
  excepts it.
* `switchAccounts` makes a slot that it finds the default without committing it
  (MainUI.cpp:68-94); an uncommitted one is committed only by `migrateAccount`, before an
  apply. `SwitchedIsWhole` excepts a slot that was pending when the app was opened.
* Verification that a retry turned off stays off for every later job until the page is
  opened again (NetworkSwitch.cpp:335); `UnverifiedOnlyAfterCertificate` is about what
  turns it off.
* Switching logging off and on again gets a new logger without freeing the old one
  (HokakuCTR.cpp:126).
* `PIALogger` takes locks in the game's threads; a thread held by the menu while it
  has one would stop whoever needs it there. Left out with the list of players.

## 6. Assumptions of single modules

* `PatchCache`: reading the card works. `PatchInstall` covers reads that end early.
* `PatchInstall`: a patch is one file per service.
* `RvtaHook`: the bytes of an exheader are abstracted to "can be used"; other tools
  change their overrides between two syncs, not during one. `NoHookLeftBehind` is about
  syncs without a failure; that a sync forgets a hook (RvtaHook.cpp:104) does not break
  `HookedIfPossible`, as the candidate it leaves taken counts as not free.
* `RvtaDump`, `RvtaSampler`: the clock is never set back. A dump is named by its second
  (main.c:1296); with a clock set back it can take the name of an earlier one.
* `RvtaSampler`: the log has room and can be written to (`RvtaLog` has the other
  cases); power is lost between polls or while `boot.txt` is written; the random
  console id is read or made before.
* `RvtaLog`: rows are numbered uniquely, which is proved of `RvtaSampler`.
* `RvtaMcu`: what happens when a use that srv refused meets another is in section 5.
* `Redirect`: http:C has a finite number of threads, and at least one; `frd:u` wants the
  SDK version on each session (frdu.s:20). The properties speak of requests after the
  first that was redirected; one that leaves before it, and a Nintendo account whose
  request act sends to the unofficial URL, are only in the model.
* `SelectionPage`: single providers (`ChooseProvider`) are chosen by no row of the page
  today, only presets are; `setProvider` is what presets are made of.
* `Plugin`: CTRPluginFramework holds the game while the menu is open and during
  `PatchProcess`; a game contains one version of each hooked function, found by at
  most two patterns; the app and the plugin are of the same version. That the hooks are
  enabled before there is a logger (HokakuCTR.cpp:124) is in order only because the menu
  holds the game: the properties do not tell that order from the other, nor do they see
  a handler that is still running when the end deletes what it uses.
* `MainScreen`: each account has one slot at most; slot 0 is refused by
  `ACT_GetAccountInfo`, files of the app can be written, `FRD_GetServerTypes` works;
  the polling loops at MainUI.cpp:45 end.
* `SelfUpdate`: cancelling an install works; AM keeps the installed app until an
  install is finished and drops an unfinished one with the power; a release list that
  was received is whole; the code of a failure is that of the request that failed (an
  apply makes several, which `NetworkSwitch` sees as one outcome); version numbers fit
  an `int`. The first app has three numbers, as `VERSION_MAJOR`, `VERSION_MINOR` and
  `VERSION_MICRO` are.

## 7. Not modelled

* Parsing the release list, unpacking archives, SHA-256 and what happens inside
  libcurl, miniz and `am`: sequential code whose outcome is a choice in
  `SelfUpdate`, `PatchCache` and `NetworkSwitch`.
* `Services::presetOf` and the row the cursor is on (NetworkSwitch.cpp:335-371): any row
  can be chosen in any frame.
* Drawing, languages, LED colours and log texts; `LumaValidation`, one check without
  state; `handleAzahar`, a check for emulators.
* The patches of socket, ssl, friends, miiverse, mint, nim and ns: they put one
  constant string, certificate or branch in place of another and have no state.
* The plugin's OSD, the formats of captured packets and the list of players
  (`OSDManager`, `RMCLogger`, `PIALogger`): observers of packets that change nothing
  the other parts read.
* `csvc`, `plgldr.c` and `rt.c` beyond what their callers see: wrappers of system
  calls. Tests and build files.
* That the page stays open after a change that needs a restart
  (NetworkSwitch.cpp:313), and that the uploader reads the friend code for a dump's
  header while the sampler refreshes it (main.c:950): listed as hazards without a
  property that holds.

## 8. Plan

Done, in this order: `RvtaLog`, `RvtaMcu`, `PatchCache`, `Services`, `PatchInstall`,
`NetworkSwitch`, `RvtaHook`, `RvtaDump`, `MainScreen`, `SelfUpdate`, then `Redirect`,
`Plugin` and `RvtaSampler`, and the proofs of section 4.

What could come next, if the code changes there:

1. Pure algorithms against reference definitions: `State::parse`/`serialize`, the slots
   of `ExheaderPatch`, the replacement in place of the http patch, which may meet a
   text that is shorter than what replaces it.
2. `chooseHook` and the locks of `PIALogger`, should the plugin come to call into the
   game from its menu.
3. `TypeOK` of the modules where only the types a proof needed are proved; an abstract
   specification of the dump upload, as `LogDelivery` is one of the logs.
