---------------------------- MODULE PatchInstall -----------------------------
(***************************************************************************)
(* Applying a selection to the SD card: NetworkSwitch::runApply from the   *)
(* prepared caches on (stage, Installer::install, state.txt), turning      *)
(* analytics on and off, and onStartup.  A file operation may fail and     *)
(* power may be lost between any two steps.                                *)
(*                                                                         *)
(* Each service is one file; "rvta" is the analytics module and "ns" the   *)
(* NS patch.  The content of a file is the source it came from.            *)
(***************************************************************************)
EXTENDS Services

CONSTANTS MaxFaults,   \* bound: failed operations and power losses
          MaxApplies   \* bound: applies the player starts

ASSUME InstallAssumption == MaxFaults \in Nat /\ MaxApplies \in Nat

File == Service \cup {"rvta", "ns"}

(* kEntries, one entry for each group of files. *)
Entries == <<"friends", "account", "http", "socket", "ssl", "eshop", "ns", "rvta",
             "miiverse", "plugin">>

Content == Source \cup {"none", "torn"}

VARIABLES
  luma, stage,  \* SD card: the installed files and the staging folder
  saved,        \* SD card: state.txt
  state, sel,   \* NetworkSwitch: state, selection being applied
  pc, entry,    \* where the app is, next entry to install
  told,         \* ghost: the player's last answer about analytics
  short,        \* ghost: the files whose staged copy is not whole
  stuck,        \* ghost: the files that could not be removed, or not since
  damaged,      \* ghost: an install or a save was cut short since the last good apply
  applies, faults

disk  == <<luma, stage, saved>>
app   == <<state, sel, pc, entry>>
ghost == <<short, stuck, told, damaged>>
vars  == <<disk, app, ghost, applies, faults>>

NoState  == [selection |-> <<>>, analytics |-> ""]
NoFiles  == [f \in File |-> "none"]
installed(st) == st.selection # <<>>

(* What serialize's text still holds when its end is missing: analytics is *)
(* the last line, the selection the first ones.                            *)
Truncated(st) == {[selection |-> s, analytics |-> ""] : s \in Beginnings(st.selection)}

TypeOK ==
  /\ luma \in [File -> Content]
  /\ stage \in [File -> Content]
  /\ \A st \in {saved, state} :
       /\ DOMAIN st.selection \subseteq Service
       /\ st.analytics \in {"", "on", "off"}
  /\ sel \in [Service -> Source \cup {Off}]
  /\ pc \in {"off", "idle", "remove", "prepare", "migrate", "stage", "install", "done"}
  /\ entry \in 1 .. Len(Entries) + 1
  /\ short \subseteq File /\ stuck \subseteq File
  /\ told \in {"", "on", "off"}
  /\ damaged \in BOOLEAN
  /\ applies \in 0 .. MaxApplies
  /\ faults \in 0 .. MaxFaults

Init ==
  /\ luma = NoFiles /\ stage = NoFiles
  /\ saved = NoState /\ state = NoState
  /\ sel = selectionFor(Base)
  /\ pc = "off"
  /\ entry = 1
  /\ short = {} /\ stuck = {}
  /\ told = ""
  /\ damaged = FALSE
  /\ applies = 0
  /\ faults = 0

Fault == faults < MaxFaults /\ faults' = faults + 1

(* saveState: nobody asks whether the file could be opened and written. *)
Save(st) ==
  \/ saved' = st /\ UNCHANGED faults
  \/ saved' \in Truncated(st) \cup {saved} /\ Fault

(* std::remove: nobody asks whether it worked. *)
RemoveFile(f) ==
  \/ luma' = [luma EXCEPT ![f] = "none"] /\ stuck' = stuck \ {f} /\ UNCHANGED faults
  \/ luma[f] # "none" /\ Fault /\ stuck' = stuck \cup {f} /\ UNCHANGED luma

(* Nor does the end of an apply ask whether the stage was removed. *)
StageRemoved == stage' \in {NoFiles, stage}

-------------------------------------------------------------------------------
(* Mutant: the files are left alone whatever the player said. *)
Startup_Keeps ==
  /\ pc = "off"
  /\ state' = saved
  /\ pc' = "idle"
  /\ UNCHANGED <<disk, sel, entry, ghost, applies, faults>>

(* onStartup: "never keep RvtA when the player said no". *)
Startup ==
  /\ pc = "off"
  /\ state' = saved
  /\ IF saved.analytics = "off" THEN RemoveFile("rvta") ELSE UNCHANGED <<luma, stuck, faults>>
  /\ pc' = "idle"
  /\ UNCHANGED <<stage, saved, sel, entry, short, told, damaged, applies>>

(* open: the screen starts from what the card says. *)
Open ==
  /\ pc = "idle"
  /\ state' = saved
  /\ UNCHANGED <<disk, sel, pc, entry, ghost, applies, faults>>

StartApply(selection) ==
  /\ applies < MaxApplies
  /\ applies' = applies + 1
  /\ sel' = selection
  /\ pc' = "prepare"

Choose(i) ==
  /\ pc = "idle"
  /\ StartApply(selectionForPreset(presets[i]))
  /\ UNCHANGED <<disk, state, entry, ghost, faults>>

Answer(on) ==
  /\ told' = on
  /\ state' = [state EXCEPT !.analytics = on]
  /\ Save(state')
  /\ damaged' = (damaged \/ saved' # state')

(* setAnalytics(true): the installed network is applied again with RvtA. *)
AnalyticsOn ==
  /\ pc = "idle"
  /\ Answer("on")
  /\ IF installed(state)
     THEN StartApply(normalized(state.selection))
     ELSE UNCHANGED <<sel, pc, applies>>
  /\ UNCHANGED <<luma, stage, entry, short, stuck>>

(* setAnalytics(false): the answer is saved, then RvtA is removed. *)
AnalyticsOff ==
  /\ pc = "idle"
  /\ Answer("off")
  /\ pc' = "remove"
  /\ UNCHANGED <<luma, stage, sel, entry, short, stuck, applies>>

RemoveAnalytics ==
  /\ pc = "remove"
  /\ RemoveFile("rvta")
  /\ pc' = "idle"
  /\ UNCHANGED <<stage, saved, state, sel, entry, short, told, damaged, applies>>

-------------------------------------------------------------------------------
(* runApply.  Every provider is prepared (PatchCache) and the account is   *)
(* migrated before anything is touched.                                    *)
Prepared ==
  /\ pc = "prepare"
  /\ pc' = "migrate"
  /\ UNCHANGED <<disk, state, sel, entry, ghost, applies, faults>>

Migrated ==
  /\ pc = "migrate"
  /\ pc' = "stage"
  /\ UNCHANGED <<disk, state, sel, entry, ghost, applies, faults>>

(* The download, the migration or the staging failed. *)
Abort ==
  /\ pc \in {"prepare", "migrate", "stage"}
  /\ Fault
  /\ StageRemoved
  /\ pc' = "idle"
  /\ UNCHANGED <<luma, saved, state, sel, entry, ghost, applies>>

(* What a selection installs.  RvtA is added when analytics is on; the NS  *)
(* patch always, if our release has it.                                    *)
Wanted(ns) ==
  [f \in File |->
     CASE f \in Service -> IF sel[f] = Off THEN "none" ELSE sel[f]
       [] f = "rvta"    -> IF state.analytics = "on" THEN "revivetendo" ELSE "none"
       [] f = "ns"      -> IF ns THEN "revivetendo" ELSE "none"]

(* buildStage and the two extra files.  Fs::readFile takes a read error for *)
(* the end of the file; a file of an earlier stage may not let itself be    *)
(* removed.                                                                 *)
BuildStage ==
  /\ pc = "stage"
  /\ \E ns \in BOOLEAN :
       \/ stage' = Wanted(ns) /\ short' = {} /\ UNCHANGED <<stuck, faults>>
       \/ /\ Fault
          /\ \E f \in File :
               \/ /\ Wanted(ns)[f] # "none"
                  /\ stage' = [Wanted(ns) EXCEPT ![f] = "torn"]
                  /\ short' = {f} /\ UNCHANGED stuck
               \/ /\ Wanted(ns)[f] = "none" /\ stage[f] # "none"
                  /\ stage' = [Wanted(ns) EXCEPT ![f] = stage[f]]
                  /\ short' = {} /\ stuck' = stuck \cup {f}
  /\ entry' = 1
  /\ pc' = "install"
  /\ UNCHANGED <<luma, saved, state, sel, told, damaged, applies>>

(* Mutant: a network's other patches stay installed. *)
InstallEntry_KeepsOthers ==
  /\ pc = "install"
  /\ entry <= Len(Entries)
  /\ LET f == Entries[entry]
     IN  luma' = [luma EXCEPT ![f] = IF stage[f] = "none" THEN @ ELSE stage[f]]
  /\ entry' = entry + 1
  /\ damaged' = TRUE
  /\ UNCHANGED <<stage, saved, state, sel, pc, short, stuck, told, applies, faults>>

(* Installer::install, one entry: copy it, or remove what another network *)
(* put there.                                                             *)
InstallEntry ==
  /\ pc = "install"
  /\ entry <= Len(Entries)
  /\ LET f == Entries[entry]
     IN  \/ stage[f] = "none" /\ RemoveFile(f)
         \/ /\ stage[f] # "none" /\ luma' = [luma EXCEPT ![f] = stage[f]]
            /\ UNCHANGED <<stuck, faults>>
  /\ entry' = entry + 1
  /\ damaged' = TRUE
  /\ UNCHANGED <<stage, saved, state, sel, pc, short, told, applies>>

(* copyFile fails, or power is lost in it.  The temporary file may be all   *)
(* that is damaged; the old file may be gone already; or Fs::move fell back *)
(* to copying onto the destination and left it half written.                *)
CopyFails ==
  /\ pc = "install"
  /\ entry <= Len(Entries)
  /\ stage[Entries[entry]] # "none"
  /\ Fault
  /\ \E c \in {luma[Entries[entry]], "none", "torn"} :
       luma' = [luma EXCEPT ![Entries[entry]] = c]
  /\ damaged' = TRUE
  /\ \/ pc' = "idle" /\ StageRemoved
     \/ pc' = "off" /\ UNCHANGED stage
  /\ UNCHANGED <<saved, state, sel, entry, short, stuck, told, applies>>

(* Mutant: only the first network is saved. *)
Record_FirstOnly ==
  /\ pc = "install"
  /\ entry = Len(Entries) + 1
  /\ StageRemoved
  /\ state' = [state EXCEPT !.selection = sel]
  /\ LET text == IF installed(state) THEN state ELSE state'
     IN  Save(text) /\ damaged' = (saved' # text \/ short # {})
  /\ pc' = "done"
  /\ UNCHANGED <<luma, sel, entry, short, stuck, told, applies>>

(* Everything is in place: remember it.  Only a reboot follows. *)
Record ==
  /\ pc = "install"
  /\ entry = Len(Entries) + 1
  /\ StageRemoved
  /\ state' = [state EXCEPT !.selection = sel]
  /\ Save(state')
  /\ damaged' = (saved' # state' \/ short # {})
  /\ pc' = "done"
  /\ UNCHANGED <<luma, sel, entry, short, stuck, told, applies>>

(* START, or power is lost. *)
Reboot ==
  /\ pc = "done" \/ pc = "idle"
  /\ pc' = "off"
  /\ UNCHANGED <<disk, state, sel, entry, ghost, applies, faults>>

PowerLoss ==
  /\ pc \in {"remove", "prepare", "migrate", "stage", "install"}
  /\ Fault
  /\ pc' = "off"
  /\ UNCHANGED <<disk, state, sel, entry, ghost, applies>>

Next ==
  \/ Startup \/ Open \/ AnalyticsOn \/ AnalyticsOff \/ RemoveAnalytics
  \/ \E i \in 1 .. Len(presets) : Choose(i)
  \/ Prepared \/ Migrated \/ Abort \/ BuildStage
  \/ InstallEntry \/ CopyFails \/ Record \/ Reboot \/ PowerLoss

Spec == Init /\ [][Next]_vars

-------------------------------------------------------------------------------
(* "switching networks therefore also cleans up the previous one"           *)
(* (Installer.hpp:11): after an apply the card holds exactly the selection, *)
(* whatever earlier networks, failed installs and power losses left there.  *)
(* Not so only a file whose cached copy could not be read to its end, and,  *)
(* of what is not selected, a file that could not be removed.               *)
AppliedIsExact ==
  pc = "done" =>
    \E ns \in BOOLEAN : \A f \in File \ short :
      luma[f] = Wanted(ns)[f] \/ (f \in stuck /\ Wanted(ns)[f] = "none")

(* What is remembered as installed is installed, and no other service is,   *)
(* except between a failure and the next apply that succeeds, and but for a *)
(* service's file that could not be removed.                                *)
RememberedIsInstalled ==
  ~damaged /\ installed(saved) =>
    /\ DOMAIN saved.selection = Service
    /\ \A s \in Service :
         \/ saved.selection[s] = IF luma[s] = "none" THEN Off ELSE luma[s]
         \/ s \in stuck /\ saved.selection[s] = Off

(* A "no" the app still knows of is kept: RvtA is not on the card, whatever *)
(* was cut short between the answer and the removal, and no switch of       *)
(* networks brings it back, unless the last try to remove it failed.        *)
DeclinedIsGone ==
  pc = "idle" /\ state.analytics = "off" /\ told = "off" /\ luma["rvta"] # "none" =>
    "rvta" \in stuck

-------------------------------------------------------------------------------
(* "a failed copy never leaves a half-written patch behind" (Installer.cpp:47). *)
NeverHalfWritten == \A f \in File \ short : luma[f] # "torn"

(* "what is installed" (State.hpp:9): state.txt names the installed network. *)
StateNamesInstalled ==
  pc = "idle" /\ installed(state) =>
    \A s \in DOMAIN state.selection \ short :
      luma[s] = IF state.selection[s] = Off THEN "none" ELSE state.selection[s]

(* "For every known destination this network does not ship, the old file is *)
(* removed" (Installer.hpp:9).                                              *)
CleanedUp == pc = "done" => \E ns \in BOOLEAN : \A f \in File \ short : luma[f] = Wanted(ns)[f]

(* "never keep RvtA when the player said no" (NetworkSwitch.cpp:348). *)
NoMeansNo == pc = "idle" /\ told = "off" => luma["rvta"] = "none"
==============================================================================
