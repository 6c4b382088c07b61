------------------------------- MODULE RvtaHook ------------------------------
(***************************************************************************)
(* Starting RvtA at boot (app/source/net/RvtaHook.cpp): a Luma exheader    *)
(* override that adds RvtA to the dependencies of one boot module.  sync   *)
(* writes the override and rvta-hook.txt one after the other, other tools  *)
(* keep overrides of their own in the same places, and the app may be cut  *)
(* short between any two writes.                                           *)
(***************************************************************************)
EXTENDS Integers, Sequences, FiniteSets

CONSTANTS Faults,       \* what may go wrong: "write", "cut" (short), "pxi" (unavailable)
          MaxFailures,  \* bound: how often
          MaxChanges    \* bound: changes made to the card between syncs

ASSUME HookAssumption ==
  Faults \subseteq {"write", "cut", "pxi"} /\ MaxFailures \in Nat /\ MaxChanges \in Nat

(* kCandidates, in the order they are tried. *)
kCandidates == <<"news", "cecd", "boss">>
Candidate   == {"news", "cecd", "boss"}

VARIABLES
  cxi,          \* SD card: is RvtA installed?
  override,     \* SD card: the exheader override of each candidate
  hook,         \* SD card: the title rvta-hook.txt names, "none" for 0 or no file
  step, tried,  \* where sync is; the candidate it tries
  current,      \* install's copy of the recorded title
  usable,       \* candidates whose exheader can be read and has a free slot
  free,         \* ghost: usable candidates without a file, or recorded, when sync began
  taken,        \* ghost: candidates another tool overrode while rvta-hook.txt named them
  clean,        \* ghost: nothing went wrong in the last sync and nothing changed since
  changes, failures

card     == <<cxi, override, hook>>
proc     == <<step, tried, current, usable, free>>
hookVars == <<card, proc, taken, clean, changes, failures>>

HookTypeOK ==
  /\ cxi \in BOOLEAN
  /\ override \in [Candidate -> {"none", "ours", "theirs", "torn"}]
  /\ hook \in Candidate \cup {"none"}
  /\ step \in {"idle", "scan", "replace", "record", "unhook", "forget"}
  /\ tried \in 1 .. Len(kCandidates) + 1
  /\ current \in Candidate \cup {"none"}
  /\ usable \subseteq Candidate /\ free \subseteq Candidate /\ taken \subseteq Candidate
  /\ clean \in BOOLEAN
  /\ changes \in 0 .. MaxChanges /\ failures \in 0 .. MaxFailures

HookInit ==
  /\ cxi \in BOOLEAN
  /\ override \in [Candidate -> {"none", "theirs"}]
  /\ hook = "none"
  /\ step = "idle" /\ tried = 1 /\ current = "none"
  /\ usable = {} /\ free = {} /\ taken = {}
  /\ clean = FALSE
  /\ changes = 0 /\ failures = 0

HookFault(kind) == kind \in Faults /\ failures < MaxFailures /\ failures' = failures + 1

(* rvta-hook.txt; nobody asks whether it was written. *)
WriteHookFile(title) ==
  \/ hook' = title /\ UNCHANGED <<clean, failures>>
  \/ hook' \in {hook, "none"} /\ HookFault("write") /\ clean' = FALSE

(* Nor whether a file was removed. *)
RemoveOverride(title) ==
  \/ /\ override' = [c \in Candidate |-> IF c = title THEN "none" ELSE override[c]]
     /\ UNCHANGED <<clean, failures>>
  \/ title # "none" /\ UNCHANGED override /\ HookFault("write") /\ clean' = FALSE

-------------------------------------------------------------------------------
(* Between syncs.  RvtA comes and goes with installs, answers and files    *)
(* copied by hand; other tools and the player put overrides anywhere, also *)
(* over one of ours and where rvta-hook.txt names a title whose file is    *)
(* gone, and remove any.                                                   *)
RvtaChanges ==
  /\ step = "idle"
  /\ changes < MaxChanges
  /\ changes' = changes + 1
  /\ cxi' = ~cxi
  /\ clean' = FALSE
  /\ UNCHANGED <<override, hook, proc, taken, failures>>

OthersChange(c) ==
  /\ step = "idle"
  /\ changes < MaxChanges
  /\ changes' = changes + 1
  /\ \E o \in {"none", "theirs"} \ {override[c]} : override' = [override EXCEPT ![c] = o]
  /\ taken' = IF c = hook THEN taken \cup {c} ELSE taken \ {c}
  /\ clean' = FALSE
  /\ UNCHANGED <<cxi, hook, proc, failures>>

(* sync begins; install when RvtA is there.  Which exheaders can be read   *)
(* and extended may be different every time.                               *)
SyncBegins ==
  /\ step = "idle"
  /\ usable' \in SUBSET Candidate
  /\ free' = {c \in usable' : override[c] = "none" \/ c = hook}
  /\ IF cxi
     THEN tried' = 1 /\ current' = hook /\ step' = "scan"
     ELSE step' = "unhook" /\ UNCHANGED <<tried, current>>
  /\ clean' = TRUE
  /\ UNCHANGED <<card, taken, changes, failures>>

(* install without pxi:pm: only the reason is recorded. *)
PxiUnavailable ==
  /\ step = "idle"
  /\ cxi
  /\ HookFault("pxi")
  /\ hook' = "none"
  /\ clean' = FALSE
  /\ UNCHANGED <<cxi, override, proc, taken, changes>>

-------------------------------------------------------------------------------
(* Mutant: the recorded override is not told from other ones. *)
Skipped_IgnoresOthers(c) == c \notin usable

(* The candidates install passes over: taken by someone else, unreadable,  *)
(* or without a free slot.                                                 *)
Skipped(c) == (override[c] # "none" /\ c # current) \/ c \notin usable

(* Mutant: the first candidate that does not work ends the search. *)
Skip_GivesUp ==
  /\ step = "scan"
  /\ tried <= Len(kCandidates)
  /\ Skipped(kCandidates[tried])
  /\ tried' = Len(kCandidates) + 1
  /\ UNCHANGED <<card, step, current, usable, free, taken, clean, changes, failures>>

Skip ==
  /\ step = "scan"
  /\ tried <= Len(kCandidates)
  /\ Skipped(kCandidates[tried])
  /\ tried' = tried + 1
  /\ UNCHANGED <<card, step, current, usable, free, taken, clean, changes, failures>>

WriteOverride ==
  /\ step = "scan"
  /\ tried <= Len(kCandidates)
  /\ ~Skipped(kCandidates[tried])
  /\ override' = [override EXCEPT ![kCandidates[tried]] = "ours"]
  /\ step' = "replace"
  /\ UNCHANGED <<cxi, hook, tried, current, usable, free, taken, clean, changes, failures>>

(* The file could not be opened, or only a part of it was written; the     *)
(* search goes on.                                                         *)
WriteFails ==
  /\ step = "scan"
  /\ tried <= Len(kCandidates)
  /\ ~Skipped(kCandidates[tried])
  /\ HookFault("write")
  /\ \E o \in {override[kCandidates[tried]], "torn"} :
       override' = [override EXCEPT ![kCandidates[tried]] = o]
  /\ tried' = tried + 1
  /\ clean' = FALSE
  /\ UNCHANGED <<cxi, hook, step, current, usable, free, taken, changes>>

(* Mutant: the override of the module hooked before stays. *)
RemoveReplaced_Keeps ==
  /\ step = "replace"
  /\ step' = "record"
  /\ UNCHANGED <<card, tried, current, usable, free, taken, clean, changes, failures>>

RemoveReplaced ==
  /\ step = "replace"
  /\ IF current = kCandidates[tried]
     THEN UNCHANGED <<override, clean, failures>> ELSE RemoveOverride(current)
  /\ step' = "record"
  /\ UNCHANGED <<cxi, hook, tried, current, usable, free, taken, changes>>

RecordHook ==
  /\ step = "record"
  /\ WriteHookFile(kCandidates[tried])
  /\ step' = "idle"
  /\ UNCHANGED <<cxi, override, tried, current, usable, free, taken, changes>>

(* No candidate is left: removeHook. *)
NoneLeft ==
  /\ step = "scan"
  /\ tried = Len(kCandidates) + 1
  /\ step' = "unhook"
  /\ UNCHANGED <<card, tried, current, usable, free, taken, clean, changes, failures>>

RemoveHook ==
  /\ step = "unhook"
  /\ RemoveOverride(hook)
  /\ step' = "forget"
  /\ UNCHANGED <<cxi, hook, tried, current, usable, free, taken, changes>>

ForgetHook ==
  /\ step = "forget"
  /\ WriteHookFile("none")
  /\ step' = "idle"
  /\ UNCHANGED <<cxi, override, tried, current, usable, free, taken, changes>>

(* The app is closed by force or the battery is empty. *)
CutShort ==
  /\ step # "idle"
  /\ HookFault("cut")
  /\ step' = "idle"
  /\ clean' = FALSE
  /\ UNCHANGED <<card, tried, current, usable, free, taken, changes>>

HookNext ==
  \/ RvtaChanges
  \/ \E c \in Candidate : OthersChange(c)
  \/ SyncBegins \/ PxiUnavailable \/ Skip \/ WriteOverride \/ WriteFails \/ RemoveReplaced
  \/ RecordHook \/ NoneLeft \/ RemoveHook \/ ForgetHook \/ CutShort

HookSpec == HookInit /\ [][HookNext]_hookVars

-------------------------------------------------------------------------------
(* No sync, finished, failed or cut short, changes or removes another       *)
(* tool's override, with one exception: it was put there while              *)
(* rvta-hook.txt named that title, and the file names it still.  So neither *)
(* a cut between the two files nor a replaced or removed override of ours   *)
(* leads a sync to any other tool's file.                                   *)
OthersUntouched ==
  [][step # "idle" =>
       \A c \in Candidate : \/ override[c] = "theirs" <=> override'[c] = "theirs"
                            \/ c = hook /\ c \in taken]_hookVars

(* RvtA is started whenever that is possible: if one candidate was usable   *)
(* and not taken, a sync in which nothing goes wrong leaves the recorded    *)
(* hook in place, whatever went wrong in earlier ones.                      *)
HookedIfPossible ==
  step = "idle" /\ clean /\ cxi /\ free # {} => hook \in free /\ override[hook] = "ours"

(* Until something goes wrong no override of ours is left behind but the   *)
(* recorded one while RvtA is there: a module never waits for RvtA for     *)
(* nothing, however RvtA, other tools and readable exheaders change.       *)
NoHookLeftBehind ==
  step = "idle" /\ clean /\ failures = 0 =>
    \A c \in Candidate : override[c] = "ours" => cxi /\ c = hook

(* "Installs the hook when RvtA is installed, removes it otherwise"        *)
(* (RvtaHook.hpp:13): with RvtA gone a sync leaves no override of ours.    *)
RemovedOtherwise ==
  step = "idle" /\ clean /\ ~cxi => \A c \in Candidate : override[c] # "ours"

(* "someone else's override: leave it alone" (RvtaHook.cpp:124), as the     *)
(* comment has it: no override of another tool changes in a sync.           *)
LeftAlone ==
  [][step # "idle" =>
       \A c \in Candidate : override[c] = "theirs" <=> override'[c] = "theirs"]_hookVars
==============================================================================
