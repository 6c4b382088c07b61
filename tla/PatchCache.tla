----------------------------- MODULE PatchCache ------------------------------
(***************************************************************************)
(* The download cache of one patch source (app/source/net/Manager.cpp):    *)
(* Manager::prepare asks for the newest version, reuses the cache if it is *)
(* current, or downloads into "<cache>.new" and moves that over the cache  *)
(* file by file (Fs::move).  Any file operation or request may fail and    *)
(* power may be lost between any two of them.                              *)
(*                                                                         *)
(* The content of a file is the version it was published with.  The source *)
(* itself is external: it publishes new versions at any time.  Reading the *)
(* card is assumed to work: Fs::readFile takes a read error for the end of *)
(* the file (PatchInstall shows what that does).                           *)
(***************************************************************************)
EXTENDS Integers, FiniteSets

CONSTANTS PatchFile,   \* names Installer::knownFiles lists
          MaxVersion,  \* bound: versions the source publishes
          Ships,       \* version -> the patch files it contains
          MaxFaults    \* bound: failed operations and power losses

Version == 1 .. MaxVersion

ASSUME CacheAssumption ==
  /\ MaxVersion \in Nat \ {0} /\ MaxFaults \in Nat
  /\ Ships \in [Version -> (SUBSET PatchFile) \ {{}}]
  /\ "version.txt" \notin PatchFile

Name == PatchFile \cup {"version.txt"}
None == 0
Torn == -1
Content == Version \cup {None, Torn}

VARIABLES
  latest,        \* external: newest published version
  raw,           \* Kind::RawFiles: files are fetched one by one, unversioned
  cache, fresh,  \* the folders <cache> and <cache>.new
  pc, want,      \* prepare: position, version asked for
  todo,          \* prepare: names still to store or to move
  result,        \* what the last call returned
  before,        \* ghost: the cache when the call began
  cut,           \* ghost: the last swap did not run to its end
  faults

source == <<latest, raw>>
call == <<pc, want, todo, result>>
vars == <<source, cache, fresh, call, before, cut, faults>>

Empty == [n \in Name |-> None]
Keep(dir, K) == [n \in Name |-> IF n \in K THEN dir[n] ELSE None]
NamesIn(dir) == {n \in Name : dir[n] # None}

TypeOK ==
  /\ latest \in Version
  /\ raw \in BOOLEAN
  /\ cache \in [Name -> Content]
  /\ fresh \in [Name -> Content]
  /\ pc \in {"idle", "check", "clear", "store", "drop", "tidy", "swap"}
  /\ want \in Version
  /\ todo \in SUBSET Name
  /\ result \in {"none", "reused", "downloaded", "failed"}
  /\ before \in [Name -> Content]
  /\ cut \in BOOLEAN
  /\ faults \in 0 .. MaxFaults

Init ==
  /\ latest = 1
  /\ raw \in BOOLEAN
  /\ cache = Empty
  /\ fresh = Empty
  /\ pc = "idle"
  /\ want = 1
  /\ todo = {}
  /\ result = "none"
  /\ before = Empty
  /\ cut = FALSE
  /\ faults = 0

Fault == faults < MaxFaults /\ faults' = faults + 1
NoFault == UNCHANGED faults

Publish ==
  /\ latest < MaxVersion
  /\ latest' = latest + 1
  /\ UNCHANGED <<raw, cache, fresh, call, before, cut, faults>>

(* 1) what is the newest version? *)
Ask ==
  /\ pc = "idle"
  /\ before' = cache
  /\ want' = latest
  /\ \/ result' = "none" /\ pc' = "check" /\ NoFault
     \/ result' = "failed" /\ UNCHANGED pc /\ Fault
  /\ UNCHANGED <<source, cache, fresh, todo, cut>>

(* cacheIsCurrent: the version matches and any patch file is there. *)
Current ==
  /\ cache["version.txt"] = want
  /\ \E f \in PatchFile : cache[f] # None

(* 2) cache still current? *)
Check ==
  /\ pc = "check"
  /\ IF Current THEN pc' = "idle" /\ result' = "reused"
                ELSE pc' = "clear" /\ UNCHANGED result
  /\ UNCHANGED <<source, cache, fresh, want, todo, before, cut, faults>>

(* Mutant: the download goes straight into the cache folder. *)
Clear_Cache ==
  /\ pc = "clear"
  /\ fresh' = Empty /\ NoFault
  /\ cache' = Empty
  /\ todo' = Ships[want]
  /\ pc' = "store"
  /\ UNCHANGED <<source, want, result, before, cut>>

(* 3) removeTree(fresh), whose result is ignored, and mkdirs. *)
Clear ==
  /\ pc = "clear"
  /\ \/ fresh' = Empty /\ NoFault
     \/ \E K \in SUBSET Name : fresh' = Keep(fresh, K) /\ Fault
  /\ todo' = Ships[want]
  /\ pc' = "store"
  /\ UNCHANGED <<source, cache, want, result, before, cut>>

(* One file of the archive is extracted, or one raw file fetched. *)
Store(f) ==
  /\ pc = "store"
  /\ f \in todo
  /\ fresh' = [fresh EXCEPT ![f] = IF raw THEN latest ELSE want]
  /\ todo' = todo \ {f}
  /\ UNCHANGED <<source, cache, pc, want, result, before, cut, faults>>

(* Mutant: the version is recorded before every file is there. *)
Stamp_TooEarly ==
  /\ pc = "store"
  /\ fresh' = [fresh EXCEPT !["version.txt"] = want]
  /\ pc' = "drop"
  /\ UNCHANGED <<source, cache, want, todo, result, before, cut, faults>>

(* version.txt is written last. *)
Stamp ==
  /\ pc = "store"
  /\ todo = {}
  /\ fresh' = [fresh EXCEPT !["version.txt"] = want]
  /\ pc' = "drop"
  /\ UNCHANGED <<source, cache, want, todo, result, before, cut, faults>>

(* Creating the folder, a download, the checksum, a write fails: the fresh *)
(* folder is removed, as far as that works.                                *)
GiveUp ==
  /\ pc \in {"clear", "store"}
  /\ Fault
  /\ \E K \in SUBSET Name : fresh' = Keep(fresh, K)
  /\ result' = "failed"
  /\ pc' = "idle"
  /\ UNCHANGED <<source, cache, want, todo, before, cut>>

(* 4) swap in: removeTree(cache), whose result is ignored ... *)
Drop ==
  /\ pc = "drop"
  /\ \/ cache' = Empty /\ NoFault
     \/ \E K \in SUBSET Name : cache' = Keep(cache, K) /\ Fault
  /\ pc' = "tidy"
  /\ UNCHANGED <<source, fresh, want, todo, result, before, cut>>

(* ... Fs::move first deletes what the new version does not have ... *)
Tidy ==
  /\ pc = "tidy"
  /\ \/ cache' = Keep(cache, NamesIn(fresh)) /\ NoFault
     \/ UNCHANGED cache /\ Fault
  /\ todo' = NamesIn(fresh)
  /\ pc' = "swap"
  /\ UNCHANGED <<source, fresh, want, result, before, cut>>

(* ... then moves every file, in the order of the directory ... *)
MoveOne(n) ==
  /\ pc = "swap"
  /\ n \in todo
  /\ cache' = [cache EXCEPT ![n] = fresh[n]]
  /\ fresh' = [fresh EXCEPT ![n] = None]
  /\ todo' = todo \ {n}
  /\ UNCHANGED <<source, pc, want, result, before, cut, faults>>

(* ... and gives up at the first file that does not move.  The old file may *)
(* be gone by then, or half overwritten by the copy that replaces a rename. *)
MoveFail(n) ==
  /\ pc = "swap"
  /\ n \in todo
  /\ Fault
  /\ \E c \in {cache[n], None, Torn} : cache' = [cache EXCEPT ![n] = c]
  /\ cut' = TRUE
  /\ result' = "failed"
  /\ pc' = "idle"
  /\ UNCHANGED <<source, fresh, want, todo, before>>

(* The emptied folder is removed; if that fails the whole move "failed". *)
EndSwap ==
  /\ pc = "swap"
  /\ todo = {}
  /\ \/ result' = "downloaded" /\ NoFault
     \/ result' = "failed" /\ Fault
  /\ cut' = FALSE
  /\ pc' = "idle"
  /\ UNCHANGED <<source, cache, fresh, want, todo, before>>

PowerLoss ==
  /\ Fault
  /\ pc' = "idle"
  /\ result' = "none"
  /\ cut' = (cut \/ pc \in {"tidy", "swap"})
  /\ UNCHANGED <<source, cache, fresh, want, todo, before>>

Next ==
  \/ Publish \/ Ask \/ Check \/ Clear \/ Stamp \/ GiveUp \/ Drop \/ Tidy \/ EndSwap
  \/ \E f \in PatchFile : Store(f)
  \/ \E n \in Name : MoveOne(n) \/ MoveFail(n)
  \/ PowerLoss

Spec == Init /\ [][Next]_vars

-------------------------------------------------------------------------------
(* A file has the content of a version: its own, or for raw files whatever *)
(* was published when it was fetched.                                      *)
Has(dir, n, v) == IF raw /\ n \in PatchFile THEN dir[n] >= v ELSE dir[n] = v

Whole(dir, v) == \A n \in Ships[v] \cup {"version.txt"} : Has(dir, n, v)

(* What prepare hands to the installer is all of the version it reports,   *)
(* whatever failed in earlier calls, unless a swap was cut short.          *)
PreparedIsWhole ==
  result \in {"reused", "downloaded"} /\ ~cut => Whole(cache, want)

(* A failed call leaves the previous cache or the new one, unless the swap *)
(* itself was cut short.                                                   *)
FailureKeepsACache ==
  result = "failed" => cache = before \/ Whole(cache, want) \/ cut

(* "A failure at any point leaves the previous cache untouched" *)
(* (Manager.hpp:30-31).                                         *)
FailureKeepsCache == result = "failed" => cache = before

(* "Make sure <cacheRoot>/<net.id>/ holds the newest patches: reuse it if   *)
(* its recorded version is already current" (Manager.hpp:29): a reused cache *)
(* is a whole one.                                                          *)
ReusedIsWhole == result = "reused" => Whole(cache, want)
==============================================================================
