------------------------- MODULE PatchInstallProofs --------------------------
(***************************************************************************)
(* Proofs about PatchInstall, for any number of applies, failed operations *)
(* and losses of power, and, at the end, about MainScreen, which also goes *)
(* on after calls that fail and power that is lost: what it leaves behind, *)
(* for any number of failures, power losses and launches.                  *)
(***************************************************************************)
EXTENDS PatchInstall, MainScreen, ServicesProofs, SequenceTheorems

(* What parse and serialize make of state.txt: two fields.                 *)
Text(st) == /\ st = [selection |-> st.selection, analytics |-> st.analytics]
            /\ DOMAIN st.selection \subseteq Service
            /\ st.analytics \in {"", "on", "off"}
Texts == Text(saved) /\ Text(state)

(* A file as the selection that is applied wants it.                       *)
AsWanted(files, f) ==
  /\ f \in Service => files[f] = IF sel[f] = Off THEN "none" ELSE sel[f]
  /\ f = "rvta"    => files[f] = IF state.analytics = "on" THEN "revivetendo" ELSE "none"
  /\ f = "ns"      => files[f] \in {"none", "revivetendo"}

(* The selection may want no file of this name, and it could not be removed *)
(* from the stage or the card.                                              *)
Unwanted(f) == (f \in Service => sel[f] = Off) /\ (f = "rvta" => state.analytics # "on")
AsFarAsRemoved(files, f) == AsWanted(files, f) \/ (f \in stuck /\ Unwanted(f))

(* Apart from a short copy the stage is what is wanted, each entry that    *)
(* install has passed is as staged, and in the end the card is as wanted,  *)
(* but for what could not be removed.                                      *)
Staged  == pc = "install" => \A f \in File \ short : AsFarAsRemoved(stage, f)
Passed(f) == luma[f] = stage[f] \/ (f \in stuck /\ stage[f] = "none")
InPlace == pc = "install" => \A j \in 1 .. entry - 1 : Passed(Entries[j])
Exact   == pc = "done" => \A f \in File \ short : AsFarAsRemoved(luma, f)

(* Unless something was cut short, the text on the card and the one in     *)
(* memory both name the network that is installed.                         *)
OnCard(s) == IF luma[s] = "none" THEN Off ELSE luma[s]
Named(st) == /\ DOMAIN st.selection = Service
             /\ \A s \in Service : \/ st.selection[s] = OnCard(s)
                                   \/ s \in stuck /\ st.selection[s] = Off
Remembered == \A st \in {saved, state} : ~damaged /\ installed(st) => Named(st)

(* RvtA is only staged when analytics is on.                               *)
NoAnalytics == pc = "install" /\ state.analytics # "on" =>
                 stage["rvta"] = "none" \/ "rvta" \in stuck

(* After a "no" the card does not know more of it than the app does, and   *)
(* as long as the app knows, RvtA is gone once it could be removed.        *)
Kept     == told = "off" /\ state.analytics # "off" => saved.analytics # "off"
Declined == told = "off" /\ state.analytics = "off" /\ pc \notin {"off", "remove"} =>
              luma["rvta"] = "none" \/ "rvta" \in stuck

IInv == /\ TypeOK /\ Texts /\ Staged /\ InPlace /\ Exact
        /\ Remembered /\ NoAnalytics /\ Kept /\ Declined

-------------------------------------------------------------------------------
LEMMA BeginningsAre ==
  ASSUME NEW sl, NEW part \in Beginnings(sl)
  PROVE  DOMAIN part \subseteq DOMAIN sl
BY DEF Beginnings

(* Removing a file leaves nothing of it, or a file that is known to be     *)
(* stuck.                                                                  *)
LEMMA RemoveIs ==
  ASSUME IInv, NEW f \in File, RemoveFile(f)
  PROVE  /\ luma' \in [File -> Content] /\ stuck' \subseteq File /\ faults' \in 0 .. MaxFaults
         /\ \A g \in File \ {f} : luma'[g] = luma[g] /\ (g \in stuck' <=> g \in stuck)
         /\ luma'[f] = "none" \/ f \in stuck'
<1>1. luma \in [File -> Content] /\ stuck \subseteq File /\ faults \in 0 .. MaxFaults
  BY DEF IInv, TypeOK
<1>2. CASE luma' = [luma EXCEPT ![f] = "none"] /\ stuck' = stuck \ {f} /\ UNCHANGED faults
  <2>1. "none" \in Content
    BY DEF Content
  <2> QED
    BY <1>1, <1>2, <2>1
<1>3. CASE luma[f] # "none" /\ Fault /\ stuck' = stuck \cup {f} /\ UNCHANGED luma
  <2>1. faults' \in 0 .. MaxFaults
    BY <1>1, <1>3, InstallAssumption DEF Fault
  <2> QED
    BY <1>1, <1>3, <2>1
<1> QED
  BY <1>2, <1>3 DEF RemoveFile

(* Saving leaves a text that says no more than what was saved or was there. *)
LEMMA SaveIs ==
  ASSUME NEW st, Text(st), Text(saved), faults \in 0 .. MaxFaults, Save(st)
  PROVE  /\ Text(saved)'
         /\ saved'.analytics \in {st.analytics, "", saved.analytics}
         /\ faults' \in 0 .. MaxFaults
<1>1. CASE saved' = st /\ UNCHANGED faults
  BY <1>1 DEF Text
<1>2. CASE saved' \in Truncated(st) \cup {saved} /\ Fault
  <2>1. faults' \in 0 .. MaxFaults
    BY <1>2, InstallAssumption DEF Fault
  <2>2. CASE saved' = saved
    BY <2>1, <2>2 DEF Text
  <2>3. ASSUME NEW sl \in Beginnings(st.selection), saved' = [selection |-> sl, analytics |-> ""]
        PROVE  Text(saved)' /\ saved'.analytics = ""
    <3>1. DOMAIN sl \subseteq Service
      BY <2>3, BeginningsAre DEF Text
    <3> QED
      BY <2>3, <3>1 DEF Text
  <2> QED
    BY <1>2, <2>1, <2>2, <2>3 DEF Truncated
<1> QED
  BY <1>1, <1>2 DEF Save

LEMMA EntriesAre ==
  /\ Len(Entries) = 10
  /\ \A j \in 1 .. 10 : Entries[j] \in File
  /\ \A f \in File : \E j \in 1 .. 10 : Entries[j] = f
  /\ \A i, j \in 1 .. 10 : Entries[i] = Entries[j] => i = j
<1>1. Len(Entries) = 10
  BY DEF Entries
<1>2. /\ Entries[1] = "friends" /\ Entries[2] = "account" /\ Entries[3] = "http"
      /\ Entries[4] = "socket" /\ Entries[5] = "ssl" /\ Entries[6] = "eshop"
      /\ Entries[7] = "ns" /\ Entries[8] = "rvta" /\ Entries[9] = "miiverse"
      /\ Entries[10] = "plugin"
  BY DEF Entries
<1>3. \A j \in 1 .. 10 : j = 1 \/ j = 2 \/ j = 3 \/ j = 4 \/ j = 5 \/ j = 6 \/ j = 7
                         \/ j = 8 \/ j = 9 \/ j = 10
  OBVIOUS
<1>4. \A j \in 1 .. 10 : Entries[j] \in File
  BY <1>2, <1>3 DEF File, Service
<1>5. \A f \in File : \E j \in 1 .. 10 : Entries[j] = f
  BY <1>2 DEF File, Service
<1>6. \A i, j \in 1 .. 10 : Entries[i] = Entries[j] => i = j
  BY <1>2, <1>3
<1> QED
  BY <1>1, <1>4, <1>5, <1>6

(* What is staged when nothing is cut short. *)
LEMMA WantedIs ==
  ASSUME TypeOK, NEW ns \in BOOLEAN
  PROVE  /\ Wanted(ns) \in [File -> Content]
         /\ \A f \in File : AsWanted(Wanted(ns), f)
<1>1. \A f \in File : f \in Service \/ f = "rvta" \/ f = "ns"
  BY DEF File
<1>2. "rvta" \notin Service /\ "ns" \notin Service
  BY DEF Service
<1>3. ASSUME NEW f \in Service
      PROVE  Wanted(ns)[f] = IF sel[f] = Off THEN "none" ELSE sel[f]
  <2>1. f \in File /\ f # "rvta" /\ f # "ns"
    BY <1>2, <1>3 DEF File
  <2> QED
    BY <1>3, <2>1 DEF Wanted
<1>4. Wanted(ns)["rvta"] = IF state.analytics = "on" THEN "revivetendo" ELSE "none"
  BY <1>2 DEF Wanted, File
<1>5. Wanted(ns)["ns"] = IF ns THEN "revivetendo" ELSE "none"
  BY <1>2 DEF Wanted, File
<1>6. \A f \in Service : Wanted(ns)[f] \in Content
  BY <1>3 DEF TypeOK, Content, Source, Off
<1>7. \A f \in File : Wanted(ns)[f] \in Content
  BY <1>1, <1>4, <1>5, <1>6 DEF Content, Source
<1>8. \A f \in File : AsWanted(Wanted(ns), f)
  BY <1>1, <1>2, <1>3, <1>4, <1>5 DEF AsWanted
<1>9. Wanted(ns) \in [File -> Content]
  BY <1>7 DEF Wanted
<1> QED
  BY <1>8, <1>9

LEMMA Initial == Init => IInv
<1> SUFFICES ASSUME Init PROVE IInv
  OBVIOUS
<1>1. selectionFor(Base) \in Selection
  BY SelectionForIs DEF Selection, allPretendo, Source, Off
<1>2. Text(NoState)
  <2>1. DOMAIN NoState.selection = {}
    BY DEF NoState
  <2> QED
    BY <2>1 DEF NoState, Text
<1>3. TypeOK
  <2>1. NoFiles \in [File -> Content]
    BY DEF NoFiles, Content
  <2>2. 1 \in 1 .. Len(Entries) + 1
    BY EntriesAre
  <2>3. 0 \in 0 .. MaxApplies /\ 0 \in 0 .. MaxFaults
    BY InstallAssumption
  <2> QED
    BY <1>1, <1>2, <2>1, <2>2, <2>3 DEF Init, TypeOK, Text, Selection
<1>4. Texts /\ Staged /\ InPlace /\ Exact /\ NoAnalytics /\ Kept /\ Declined
  BY <1>2 DEF Init, Texts, Staged, InPlace, Exact, NoAnalytics, Kept, Declined
<1>5. ~installed(NoState)
  BY DEF NoState, installed
<1>6. Remembered
  BY <1>5 DEF Init, Remembered
<1> QED
  BY <1>3, <1>4, <1>6 DEF IInv

-------------------------------------------------------------------------------
(* What an answer about analytics leaves: the network that is remembered   *)
(* stays the same, and a save that was cut short is known as damage.       *)
LEMMA AnswerKeeps ==
  ASSUME IInv, NEW on \in {"on", "off"}, Answer(on), UNCHANGED <<luma, stuck>>
  PROVE  /\ Texts' /\ Remembered' /\ damaged' \in BOOLEAN /\ faults' \in 0 .. MaxFaults
         /\ told' = on /\ state'.analytics = on /\ state'.selection = state.selection
<1>1. /\ Text(state) /\ Text(saved) /\ faults \in 0 .. MaxFaults /\ damaged \in BOOLEAN
  BY DEF IInv, Texts, TypeOK
<1>2. /\ told' = on /\ state' = [state EXCEPT !.analytics = on] /\ Save(state')
      /\ damaged' = (damaged \/ saved' # state')
  BY DEF Answer
<1>3. state' = [selection |-> state.selection, analytics |-> on]
  BY <1>1, <1>2 DEF Text
<1>4. Text(state')
  BY <1>1, <1>3 DEF Text
<1>5. Text(saved)' /\ faults' \in 0 .. MaxFaults
  BY <1>1, <1>2, <1>4, SaveIs
<1>7. Remembered'
  <2>1. ASSUME ~damaged' PROVE ~damaged /\ saved' = state'
    BY <1>1, <1>2, <2>1
  <2>2. ASSUME ~damaged', installed(state') PROVE Named(state)'
    <3>1. installed(state) /\ Named(state)
      BY <1>3, <2>1, <2>2 DEF IInv, Remembered, installed
    <3> QED
      BY <1>3, <3>1 DEF Named, OnCard
  <2> QED
    BY <2>1, <2>2 DEF Remembered, Named, OnCard
<1>8. Text(state)'
  BY <1>4 DEF Text
<1> QED
  BY <1>1, <1>2, <1>3, <1>5, <1>7, <1>8 DEF Texts

(* The bounds. *)
LEMMA FaultCounted ==
  ASSUME IInv, UNCHANGED faults \/ Fault
  PROVE  faults' \in 0 .. MaxFaults
<1>1. faults \in 0 .. MaxFaults
  BY DEF IInv, TypeOK
<1> QED
  BY <1>1, InstallAssumption DEF Fault

LEMMA ApplyCounted ==
  ASSUME IInv, NEW selection, StartApply(selection)
  PROVE  applies' \in 0 .. MaxApplies
<1>1. applies \in 0 .. MaxApplies
  BY DEF IInv, TypeOK
<1> QED
  BY <1>1, InstallAssumption DEF StartApply

(* The steps that only go on and start or stop.                            *)
LEMMA GoOn ==
  ASSUME IInv,
         Prepared \/ Migrated \/ Abort \/ Reboot \/ PowerLoss \/ UNCHANGED vars
  PROVE  IInv'
<1>1. UNCHANGED <<luma, saved, state, sel, entry, ghost, applies>>
  BY DEF Prepared, Migrated, Abort, Reboot, PowerLoss, vars, disk, app, ghost
<1>2. faults' \in 0 .. MaxFaults
  <2>1. UNCHANGED faults \/ Fault
    BY DEF Prepared, Migrated, Abort, Reboot, PowerLoss, vars
  <2> QED
    BY <2>1, FaultCounted
<1>3. stage' = stage \/ (stage' = NoFiles /\ pc' = "idle")
  BY DEF StageRemoved, Prepared, Migrated, Abort, Reboot, PowerLoss, vars, disk
<1>4. \/ pc' = pc
      \/ pc \in {"prepare", "migrate", "stage"} /\ pc' \in {"migrate", "stage", "idle"}
      \/ pc' = "off"
  BY DEF Prepared, Migrated, Abort, Reboot, PowerLoss, vars, app
<1>5. NoFiles \in [File -> Content]
  BY DEF NoFiles, Content
<1>6. TypeOK'
  BY <1>1, <1>2, <1>3, <1>4, <1>5 DEF IInv, TypeOK, ghost
<1>7. Texts' /\ Kept' /\ Remembered'
  BY <1>1 DEF IInv, Texts, Text, Kept, Remembered, Named, OnCard, ghost
<1>8. Staged' /\ InPlace' /\ Exact' /\ NoAnalytics'
  BY <1>1, <1>3, <1>4 DEF IInv, Staged, InPlace, Passed, Exact, NoAnalytics, AsFarAsRemoved,
                             Unwanted, AsWanted, ghost
<1>9. Declined'
  BY <1>1, <1>4 DEF IInv, Declined, ghost
<1> QED
  BY <1>6, <1>7, <1>8, <1>9 DEF IInv

(* What the screen does before an apply.                                   *)
LEMMA ScreenKeeps ==
  ASSUME IInv,
         \/ Startup \/ Open \/ AnalyticsOn \/ AnalyticsOff \/ RemoveAnalytics
         \/ \E i \in 1 .. Len(presets) : Choose(i)
  PROVE  IInv'
<1>1. /\ pc \in {"off", "idle", "remove"} /\ pc' \in {"idle", "remove", "prepare"}
      /\ UNCHANGED <<stage, entry, short>>
  BY DEF Startup, Open, AnalyticsOn, AnalyticsOff, RemoveAnalytics, Choose, StartApply, IInv,
         TypeOK, disk, app, ghost
<1>2. Staged' /\ InPlace' /\ Exact' /\ NoAnalytics'
  BY <1>1 DEF Staged, InPlace, Exact, NoAnalytics
<1>3. ASSUME RemoveFile("rvta")
      PROVE  /\ luma' \in [File -> Content] /\ stuck' \subseteq File /\ faults' \in 0 .. MaxFaults
             /\ \A s \in Service : luma'[s] = luma[s] /\ (s \in stuck' <=> s \in stuck)
             /\ luma'["rvta"] = "none" \/ "rvta" \in stuck'
  <2>1. "rvta" \in File /\ "rvta" \notin Service /\ Service \subseteq File
    BY DEF File, Service
  <2> QED
    BY <1>3, <2>1, RemoveIs
<1>4. CASE Startup
  <2>1. UNCHANGED <<saved, sel, told, damaged, applies>> /\ state' = saved /\ pc' = "idle"
    BY <1>4 DEF Startup
  <2>2. /\ luma' \in [File -> Content] /\ stuck' \subseteq File /\ faults' \in 0 .. MaxFaults
        /\ \A s \in Service : luma'[s] = luma[s] /\ (s \in stuck' <=> s \in stuck)
        /\ saved.analytics = "off" => luma'["rvta"] = "none" \/ "rvta" \in stuck'
    <3>1. CASE RemoveFile("rvta")
      BY <1>3, <3>1
    <3>2. CASE saved.analytics # "off" /\ UNCHANGED <<luma, stuck, faults>>
      BY <3>2 DEF IInv, TypeOK
    <3> QED
      BY <1>4, <3>1, <3>2 DEF Startup
  <2>3. TypeOK'
    BY <1>1, <2>1, <2>2 DEF IInv, TypeOK
  <2>4. Texts' /\ Kept' /\ Remembered'
    BY <2>1, <2>2 DEF IInv, Texts, Text, Kept, Remembered, Named, OnCard, installed
  <2>5. Declined'
    BY <2>1, <2>2 DEF Declined
  <2> QED
    BY <1>2, <2>3, <2>4, <2>5 DEF IInv
<1>5. CASE Open
  <2>1. /\ UNCHANGED <<luma, stuck, saved, sel, told, damaged, applies, faults>> /\ state' = saved
        /\ pc = "idle" /\ pc' = "idle"
    BY <1>5 DEF Open, disk, ghost
  <2>2. TypeOK'
    BY <1>1, <2>1 DEF IInv, TypeOK
  <2>3. Texts' /\ Kept' /\ Remembered'
    BY <2>1 DEF IInv, Texts, Text, Kept, Remembered, Named, OnCard, installed
  <2>4. Declined'
    BY <2>1 DEF IInv, Declined, Kept
  <2> QED
    BY <1>2, <2>2, <2>3, <2>4 DEF IInv
<1>6. CASE AnalyticsOn
  <2>1. Answer("on") /\ UNCHANGED <<luma, stuck>>
    BY <1>6 DEF AnalyticsOn
  <2>2. /\ Texts' /\ Remembered' /\ damaged' \in BOOLEAN /\ faults' \in 0 .. MaxFaults
        /\ told' = "on" /\ state'.analytics = "on"
    BY <2>1, AnswerKeeps
  <2>3. normalized(state.selection) \in Selection
    BY NormalizedInstallable
  <2>4. sel' \in Selection /\ applies' \in 0 .. MaxApplies
    <3>1. CASE StartApply(normalized(state.selection))
      BY <2>3, <3>1, ApplyCounted DEF StartApply
    <3>2. CASE UNCHANGED <<sel, applies>>
      BY <3>2 DEF IInv, TypeOK, Selection
    <3> QED
      BY <1>6, <3>1, <3>2 DEF AnalyticsOn
  <2>5. TypeOK'
    BY <1>1, <2>1, <2>2, <2>4 DEF IInv, TypeOK, Selection, Texts, Text
  <2>6. Kept' /\ Declined'
    BY <2>2 DEF Kept, Declined
  <2> QED
    BY <1>2, <2>2, <2>5, <2>6 DEF IInv
<1>7. CASE AnalyticsOff
  <2>1. Answer("off") /\ UNCHANGED <<luma, stuck, sel, applies>> /\ pc' = "remove"
    BY <1>7 DEF AnalyticsOff
  <2>2. /\ Texts' /\ Remembered' /\ damaged' \in BOOLEAN /\ faults' \in 0 .. MaxFaults
        /\ told' = "off" /\ state'.analytics = "off"
    BY <2>1, AnswerKeeps
  <2>3. TypeOK'
    BY <1>1, <2>1, <2>2 DEF IInv, TypeOK, Texts, Text
  <2>4. Kept' /\ Declined'
    BY <2>1, <2>2 DEF Kept, Declined
  <2> QED
    BY <1>2, <2>2, <2>3, <2>4 DEF IInv
<1>8. CASE RemoveAnalytics
  <2>1. UNCHANGED <<saved, state, sel, told, damaged, applies>> /\ RemoveFile("rvta")
    BY <1>8 DEF RemoveAnalytics
  <2>2. /\ luma' \in [File -> Content] /\ stuck' \subseteq File /\ faults' \in 0 .. MaxFaults
        /\ \A s \in Service : luma'[s] = luma[s] /\ (s \in stuck' <=> s \in stuck)
        /\ luma'["rvta"] = "none" \/ "rvta" \in stuck'
    BY <1>3, <2>1
  <2>3. TypeOK'
    BY <1>1, <2>1, <2>2 DEF IInv, TypeOK
  <2>4. Texts' /\ Kept' /\ Declined'
    BY <2>1, <2>2 DEF IInv, Texts, Text, Kept, Declined
  <2>5. Remembered'
    BY <2>1, <2>2 DEF IInv, Remembered, Named, OnCard
  <2> QED
    BY <1>2, <2>3, <2>4, <2>5 DEF IInv
<1>9. ASSUME NEW i \in 1 .. Len(presets), Choose(i) PROVE IInv'
  <2>1. /\ UNCHANGED <<luma, stuck, saved, state, told, damaged, faults>>
        /\ sel' = selectionForPreset(presets[i]) /\ pc = "idle"
        /\ StartApply(selectionForPreset(presets[i]))
    BY <1>9 DEF Choose, StartApply, disk, ghost
  <2>2. sel' \in Selection
    <3>1. presets[i] \in {"pretendo", "roseverse", "revivetendo"}
      BY DEF presets
    <3> QED
      BY <2>1, <3>1, PresetsAre, PresetsInstallable DEF Offered
  <2>3. applies' \in 0 .. MaxApplies
    BY <2>1, ApplyCounted
  <2>4. TypeOK'
    BY <1>1, <2>1, <2>2, <2>3 DEF IInv, TypeOK, Selection
  <2>5. Texts' /\ Kept' /\ Remembered' /\ Declined'
    BY <2>1 DEF IInv, Texts, Text, Kept, Remembered, Declined, Named, OnCard
  <2> QED
    BY <1>2, <2>4, <2>5 DEF IInv
<1> QED
  BY <1>4, <1>5, <1>6, <1>7, <1>8, <1>9

(* Nothing is staged that is not wanted, and analytics only when it is on.  *)
LEMMA StagingKeeps ==
  ASSUME IInv, BuildStage
  PROVE  IInv'
<1>1. /\ UNCHANGED <<luma, saved, state, sel, told, damaged, applies>>
      /\ entry' = 1 /\ pc' = "install"
  BY DEF BuildStage
<1>2. PICK ns \in BOOLEAN :
        \/ stage' = Wanted(ns) /\ short' = {} /\ UNCHANGED <<stuck, faults>>
        \/ /\ Fault
           /\ \E f \in File :
                \/ /\ Wanted(ns)[f] # "none"
                   /\ stage' = [Wanted(ns) EXCEPT ![f] = "torn"]
                   /\ short' = {f} /\ UNCHANGED stuck
                \/ /\ Wanted(ns)[f] = "none" /\ stage[f] # "none"
                   /\ stage' = [Wanted(ns) EXCEPT ![f] = stage[f]]
                   /\ short' = {} /\ stuck' = stuck \cup {f}
  BY DEF BuildStage
<1> DEFINE files == Wanted(ns)
<1>3. files \in [File -> Content] /\ \A f \in File : AsWanted(files, f)
  BY <1>2, WantedIs DEF IInv
<1> HIDE DEF files
<1>4. faults' \in 0 .. MaxFaults
  BY <1>2, FaultCounted
<1>5. /\ stage' \in [File -> Content] /\ short' \subseteq File /\ stuck' \subseteq File
      /\ stuck \subseteq stuck'
      /\ \A f \in File \ short' : stage'[f] = files[f] \/ (f \in stuck' /\ files[f] = "none")
      /\ files["rvta"] = "none" => stage'["rvta"] = "none" \/ "rvta" \in stuck'
  <2>0. stuck \subseteq File /\ stage \in [File -> Content]
    BY DEF IInv, TypeOK
  <2>1. CASE stage' = files /\ short' = {} /\ UNCHANGED stuck
    BY <1>3, <2>0, <2>1
  <2>2. ASSUME NEW f \in File, files[f] # "none", stage' = [files EXCEPT ![f] = "torn"],
               short' = {f}, UNCHANGED stuck
        PROVE  /\ stage' \in [File -> Content] /\ short' \subseteq File
               /\ \A g \in File \ short' : stage'[g] = files[g]
               /\ files["rvta"] = "none" => stage'["rvta"] = "none"
    <3>1. "torn" \in Content
      BY DEF Content
    <3> QED
      BY <1>3, <2>2, <3>1
  <2>3. ASSUME NEW f \in File, files[f] = "none", stage' = [files EXCEPT ![f] = stage[f]],
               short' = {}, stuck' = stuck \cup {f}
        PROVE  /\ stage' \in [File -> Content] /\ stuck' \subseteq File
               /\ \A g \in File \ short' : stage'[g] = files[g] \/ (g \in stuck' /\ files[g] = "none")
               /\ files["rvta"] = "none" => stage'["rvta"] = "none" \/ "rvta" \in stuck'
    BY <1>3, <2>0, <2>3
  <2>4. CASE \E f \in File : /\ files[f] # "none" /\ stage' = [files EXCEPT ![f] = "torn"]
                            /\ short' = {f} /\ UNCHANGED stuck
    BY <2>0, <2>2, <2>4
  <2>5. CASE \E f \in File : /\ files[f] = "none" /\ stage' = [files EXCEPT ![f] = stage[f]]
                            /\ short' = {} /\ stuck' = stuck \cup {f}
    BY <2>0, <2>3, <2>5
  <2> QED
    BY <1>2, <2>1, <2>4, <2>5 DEF files
<1>6. TypeOK'
  <2>1. 1 \in 1 .. Len(Entries) + 1
    BY EntriesAre
  <2> QED
    BY <1>1, <1>4, <1>5, <2>1 DEF IInv, TypeOK
<1>7. Staged'
  <2> SUFFICES ASSUME NEW f \in File \ short' PROVE AsFarAsRemoved(stage, f)'
    BY DEF Staged
  <2>1. AsWanted(files, f)
    BY <1>3
  <2>2. CASE stage'[f] = files[f]
    BY <1>1, <2>1, <2>2 DEF AsFarAsRemoved, AsWanted
  <2>3. CASE f \in stuck' /\ files[f] = "none"
    <3>1. f \in Service => sel[f] = Off
      BY <2>1, <2>3 DEF AsWanted, IInv, TypeOK, Source
    <3>2. f = "rvta" => state.analytics # "on"
      BY <2>1, <2>3 DEF AsWanted
    <3> QED
      BY <1>1, <2>3, <3>1, <3>2 DEF AsFarAsRemoved, Unwanted
  <2> QED
    BY <1>5, <2>2, <2>3
<1>8. NoAnalytics'
  <2>1. "rvta" \in File
    BY DEF File
  <2> QED
    BY <1>1, <1>3, <1>5, <2>1 DEF NoAnalytics, AsWanted
<1>9. InPlace' /\ Exact'
  BY <1>1 DEF InPlace, Exact
<1>10. Texts' /\ Kept' /\ Remembered' /\ Declined'
  <2>1. pc = "stage"
    BY DEF BuildStage
  <2> QED
    BY <1>1, <1>5, <2>1 DEF IInv, Texts, Text, Kept, Remembered, Declined, Named, OnCard
<1> QED
  BY <1>6, <1>7, <1>8, <1>9, <1>10 DEF IInv

(* One entry, put in place or cut short.                                   *)
LEMMA InstallKeeps ==
  ASSUME IInv, InstallEntry \/ CopyFails
  PROVE  IInv'
<1> DEFINE f == Entries[entry]
<1>1. /\ UNCHANGED <<saved, state, sel, short, told, applies>> /\ damaged' = TRUE
      /\ pc = "install" /\ entry \in 1 .. 10
  <2>1. entry <= Len(Entries)
    BY DEF InstallEntry, CopyFails
  <2>2. entry \in 1 .. Len(Entries) + 1
    BY DEF IInv, TypeOK
  <2>3. entry \in 1 .. 10
    BY <2>1, <2>2, EntriesAre
  <2> QED
    BY <2>3 DEF InstallEntry, CopyFails
<1>2. f \in File
  BY <1>1, EntriesAre
<1> HIDE DEF f
<1>3. Texts' /\ Kept' /\ Remembered'
  BY <1>1 DEF IInv, Texts, Text, Kept, Remembered
<1>4. CASE InstallEntry
  <2>1. /\ entry' = entry + 1 /\ UNCHANGED <<stage, pc>>
        /\ \/ stage[f] = "none" /\ RemoveFile(f)
           \/ /\ stage[f] # "none" /\ luma' = [luma EXCEPT ![f] = stage[f]]
              /\ UNCHANGED <<stuck, faults>>
    BY <1>4 DEF InstallEntry, f
  <2>2. /\ luma' \in [File -> Content] /\ stuck' \subseteq File /\ faults' \in 0 .. MaxFaults
        /\ \A g \in File \ {f} : luma'[g] = luma[g] /\ (g \in stuck' <=> g \in stuck)
        /\ luma'[f] = stage[f] \/ (f \in stuck' /\ stage[f] = "none")
        /\ stage[f] # "none" => stuck' = stuck
    <3>1. CASE stage[f] = "none" /\ RemoveFile(f)
      BY <1>2, <3>1, RemoveIs
    <3>2. CASE /\ stage[f] # "none" /\ luma' = [luma EXCEPT ![f] = stage[f]]
               /\ UNCHANGED <<stuck, faults>>
      BY <1>2, <3>2 DEF IInv, TypeOK
    <3> QED
      BY <2>1, <3>1, <3>2
  <2>3. entry' \in 1 .. Len(Entries) + 1
    BY <1>1, <2>1, EntriesAre
  <2>4. TypeOK'
    BY <1>1, <2>1, <2>2, <2>3 DEF IInv, TypeOK
  <2>5. Staged'
    <3> SUFFICES ASSUME NEW g \in File \ short PROVE AsFarAsRemoved(stage, g)'
      BY <1>1 DEF Staged
    <3>1. AsFarAsRemoved(stage, g)
      BY <1>1 DEF IInv, Staged
    <3>2. CASE AsWanted(stage, g)
      BY <1>1, <2>1, <3>2 DEF AsFarAsRemoved, AsWanted
    <3>3. CASE g \in stuck /\ Unwanted(g)
      <4>1. g \in stuck' \/ (g = f /\ stage[f] = "none")
        BY <2>2, <3>3
      <4>2. g \in stuck' => AsFarAsRemoved(stage, g)'
        BY <1>1, <3>3 DEF AsFarAsRemoved, Unwanted
      <4>3. stage[g] = "none" => AsWanted(stage, g)
        BY <3>3 DEF Unwanted, AsWanted
      <4>4. AsWanted(stage, g) => AsFarAsRemoved(stage, g)'
        BY <1>1, <2>1 DEF AsFarAsRemoved, AsWanted
      <4> QED
        BY <4>1, <4>2, <4>3, <4>4
    <3> QED
      BY <3>1, <3>2, <3>3 DEF AsFarAsRemoved
  <2>6. InPlace'
    <3> SUFFICES ASSUME NEW j \in 1 .. entry' - 1 PROVE Passed(Entries[j])'
      BY <2>1 DEF InPlace
    <3>1. j \in 1 .. entry - 1 \/ j = entry
      BY <1>1, <2>1
    <3>2. Entries[j] \in File /\ (j # entry => Entries[j] # f)
      BY <1>1, <2>1, <3>1, EntriesAre DEF f
    <3>3. j # entry => Passed(Entries[j])
      BY <1>1, <3>1 DEF IInv, InPlace
    <3>4. CASE j = entry
      BY <2>1, <2>2, <3>4 DEF Passed, f
    <3>5. CASE j # entry
      BY <2>1, <2>2, <3>2, <3>3, <3>5 DEF Passed
    <3> QED
      BY <3>4, <3>5
  <2>7. Declined' /\ NoAnalytics'
    <3> SUFFICES ASSUME state.analytics # "on"
                 PROVE  /\ told = "off" /\ state.analytics = "off" =>
                             luma'["rvta"] = "none" \/ "rvta" \in stuck'
                        /\ stage["rvta"] = "none" \/ "rvta" \in stuck'
      BY <1>1, <2>1 DEF Declined, NoAnalytics
    <3>1. "rvta" \in File /\ (stage["rvta"] = "none" \/ "rvta" \in stuck)
      BY <1>1 DEF IInv, NoAnalytics, File
    <3>2. told = "off" /\ state.analytics = "off" => luma["rvta"] = "none" \/ "rvta" \in stuck
      BY <1>1 DEF IInv, Declined
    <3>3. CASE f = "rvta"
      BY <2>2, <3>1, <3>3
    <3>4. CASE f # "rvta"
      BY <2>2, <3>1, <3>2, <3>4
    <3> QED
      BY <3>3, <3>4
  <2>8. Exact'
    BY <1>1, <2>1 DEF Exact
  <2> QED
    BY <1>3, <2>4, <2>5, <2>6, <2>7, <2>8 DEF IInv
<1>5. CASE CopyFails
  <2>1. /\ stage[f] # "none" /\ Fault /\ UNCHANGED <<entry, stuck>>
        /\ pc' \in {"idle", "off"} /\ stage' \in {NoFiles, stage}
    BY <1>5 DEF CopyFails, StageRemoved, f
  <2>2. PICK c \in {luma[f], "none", "torn"} : luma' = [luma EXCEPT ![f] = c]
    BY <1>5 DEF CopyFails, f
  <2>3. /\ luma' \in [File -> Content]
        /\ \A g \in File \ {f} : luma'[g] = luma[g]
    <3>1. c \in Content
      BY <1>2, <2>2 DEF IInv, TypeOK, Content
    <3> QED
      BY <1>2, <2>2, <3>1 DEF IInv, TypeOK
  <2>4. faults' \in 0 .. MaxFaults
    BY <2>1, FaultCounted
  <2>5. stage' \in [File -> Content]
    BY <2>1 DEF IInv, TypeOK, NoFiles, Content
  <2>6. TypeOK'
    BY <1>1, <2>1, <2>3, <2>4, <2>5 DEF IInv, TypeOK
  <2>7. Staged' /\ InPlace' /\ Exact' /\ NoAnalytics'
    BY <2>1 DEF Staged, InPlace, Exact, NoAnalytics
  <2>8. Declined'
    <3>1. ASSUME told = "off", state.analytics = "off", "rvta" \notin stuck
          PROVE  luma'["rvta"] = "none"
      <4>1. luma["rvta"] = "none" /\ stage["rvta"] = "none"
        BY <1>1, <3>1 DEF IInv, Declined, NoAnalytics
      <4> QED
        BY <2>1, <2>3, <4>1 DEF File
    <3> QED
      BY <1>1, <2>1, <3>1 DEF Declined
  <2> QED
    BY <1>3, <2>6, <2>7, <2>8 DEF IInv
<1> QED
  BY <1>4, <1>5

(* Every entry is in place: the card is as wanted and is remembered so.    *)
LEMMA RecordKeeps ==
  ASSUME IInv, Record
  PROVE  IInv'
<1>1. /\ UNCHANGED <<luma, sel, entry, short, stuck, told, applies>>
      /\ pc = "install" /\ entry = 11 /\ pc' = "done" /\ stage' \in {NoFiles, stage}
      /\ Save(state') /\ damaged' = (saved' # state' \/ short # {})
  BY EntriesAre DEF Record, StageRemoved
<1>2. state' = [selection |-> sel, analytics |-> state.analytics]
  BY DEF Record, IInv, Texts, Text
<1>3. Text(state')
  BY <1>2 DEF IInv, TypeOK, Texts, Text
<1>4. Text(saved)' /\ faults' \in 0 .. MaxFaults /\ saved'.analytics \in {state.analytics, "", saved.analytics}
  <2>1. Text(saved) /\ faults \in 0 .. MaxFaults /\ state'.analytics = state.analytics
    BY <1>2 DEF IInv, TypeOK, Texts
  <2> QED
    BY <1>1, <1>3, <2>1, SaveIs
<1>5. TypeOK'
  BY <1>1, <1>3, <1>4 DEF IInv, TypeOK, NoFiles, Content, Text
<1>6. \A f \in File \ short : AsFarAsRemoved(luma, f)
  <2> SUFFICES ASSUME NEW f \in File \ short PROVE AsFarAsRemoved(luma, f)
    OBVIOUS
  <2>1. PICK j \in 1 .. 10 : Entries[j] = f
    BY EntriesAre
  <2>2. Passed(f)
    BY <1>1, <2>1 DEF IInv, InPlace
  <2>3. AsFarAsRemoved(stage, f)
    BY <1>1 DEF IInv, Staged
  <2>4. CASE f \in stuck /\ Unwanted(f)
    BY <2>4 DEF AsFarAsRemoved
  <2>5. CASE luma[f] = stage[f] /\ AsWanted(stage, f)
    BY <2>5 DEF AsFarAsRemoved, AsWanted
  <2>6. CASE f \in stuck /\ stage[f] = "none" /\ AsWanted(stage, f)
    <3>1. f \in Service => sel[f] = Off
      BY <2>6 DEF AsWanted, IInv, TypeOK, Source
    <3> QED
      BY <2>6, <3>1 DEF AsWanted, Unwanted, AsFarAsRemoved
  <2> QED
    BY <2>2, <2>3, <2>4, <2>5, <2>6 DEF Passed, AsFarAsRemoved
<1>7. Exact'
  BY <1>1, <1>2, <1>6 DEF Exact, AsFarAsRemoved, Unwanted, AsWanted
<1>8. Staged' /\ InPlace' /\ NoAnalytics'
  BY <1>1 DEF Staged, InPlace, NoAnalytics
<1>9. Remembered'
  <2> SUFFICES ASSUME ~damaged' PROVE Named(saved)' /\ Named(state)'
    BY DEF Remembered
  <2>1. saved' = state' /\ short = {}
    BY <1>1
  <2>2. DOMAIN sel = Service
    BY DEF IInv, TypeOK
  <2>3. ASSUME NEW s \in Service PROVE sel[s] = OnCard(s) \/ (s \in stuck /\ sel[s] = Off)
    <3>1. AsFarAsRemoved(luma, s) /\ sel[s] \in Source \cup {Off}
      BY <1>6, <2>1 DEF File, IInv, TypeOK
    <3> QED
      BY <3>1 DEF AsFarAsRemoved, Unwanted, AsWanted, OnCard, Source, Off
  <2>4. Named(state)'
    BY <1>1, <1>2, <2>2, <2>3 DEF Named, OnCard
  <2> QED
    BY <2>1, <2>4 DEF Named, OnCard
<1>10. Texts' /\ Kept' /\ Declined'
  BY <1>1, <1>2, <1>3, <1>4 DEF IInv, Texts, Text, Kept, Declined
<1> QED
  BY <1>5, <1>7, <1>8, <1>9, <1>10 DEF IInv

LEMMA Invariance == IInv /\ [Next]_vars => IInv'
BY GoOn, ScreenKeeps, StagingKeeps, InstallKeeps, RecordKeeps DEF Next

-------------------------------------------------------------------------------
(* The type invariant of the installation.                                 *)
THEOREM TypeCorrect == Spec => []TypeOK
<1>1. IInv => TypeOK
  BY DEF IInv
<1> QED
  BY Initial, Invariance, <1>1, PTL DEF Spec

(* After an apply that came to its end the card holds exactly the selection, *)
(* whatever earlier networks, failed installs and losses of power left       *)
(* there, but for a copy that was cut short and for a file of another        *)
(* network that would not be removed (Installer::install).                   *)
THEOREM InstallsExactly == Spec => []AppliedIsExact
<1>1. IInv => AppliedIsExact
  <2> SUFFICES ASSUME IInv, pc = "done"
               PROVE  \E ns \in BOOLEAN : \A f \in File \ short :
                        luma[f] = Wanted(ns)[f] \/ (f \in stuck /\ Wanted(ns)[f] = "none")
    BY DEF AppliedIsExact
  <2> DEFINE ns == luma["ns"] = "revivetendo"
  <2>1. ns \in BOOLEAN
    OBVIOUS
  <2> HIDE DEF ns
  <2>2. ASSUME NEW f \in File \ short
        PROVE  luma[f] = Wanted(ns)[f] \/ (f \in stuck /\ Wanted(ns)[f] = "none")
    <3>1. AsFarAsRemoved(luma, f) /\ AsWanted(Wanted(ns), f)
      BY <2>1, WantedIs DEF IInv, Exact
    <3>2. CASE f \in Service \/ f = "rvta"
      BY <3>1, <3>2 DEF AsFarAsRemoved, Unwanted, AsWanted
    <3>3. CASE f = "ns"
      <4>1. Wanted(ns)["ns"] = IF ns THEN "revivetendo" ELSE "none"
        BY DEF Wanted, File, Service
      <4> QED
        BY <3>1, <3>3, <4>1 DEF AsFarAsRemoved, AsWanted, ns
    <3> QED
      BY <3>2, <3>3 DEF File
  <2> QED
    BY <2>1, <2>2
<1> QED
  BY Initial, Invariance, <1>1, PTL DEF Spec

(* state.txt names the network that is installed, unless an install or a   *)
(* save was cut short since the last good apply (runApply, saveState).     *)
THEOREM RemembersInstalled == Spec => []RememberedIsInstalled
<1>1. IInv => RememberedIsInstalled
  BY DEF IInv, Remembered, RememberedIsInstalled, Named, OnCard
<1> QED
  BY Initial, Invariance, <1>1, PTL DEF Spec

(* A "no" to analytics that the app still knows of keeps RvtA off the card, *)
(* whatever was cut short since (onStartup, setAnalytics).                  *)
THEOREM NoIsKept == Spec => []DeclinedIsGone
<1>1. IInv => DeclinedIsGone
  BY DEF IInv, Declined, DeclinedIsGone
<1> QED
  BY Initial, Invariance, <1>1, PTL DEF Spec

-------------------------------------------------------------------------------
(* MainScreen.                                                             *)

(* The inductive invariant.  Between two operations the services are as    *)
(* the app found them; during one, the next call tells how far they have   *)
(* been changed.  A slot only waits for its commit if it did when the app  *)
(* was opened, or if it has just been created.                             *)
Known == \A i \in 1 .. Len(slots) : slots[i].committed \/ i \in atLaunch.pending
Found == Known /\ Len(slots) = atLaunch.count

AsFound ==
  /\ account = atLaunch.account /\ default = atLaunch.default
  /\ friends = atLaunch.friends /\ Found

Opened == [account : Account, default : 1 .. MaxSlots, friends : SUBSET Account,
           count : 1 .. MaxSlots, pending : SUBSET (1 .. MaxSlots)]

ServiceTypes ==
  /\ friends \subseteq Account /\ account \in Account
  /\ loaded \in BOOLEAN /\ console \in BOOLEAN /\ exclusive \in BOOLEAN
  /\ hmac \in BOOLEAN /\ pidhmac \in BOOLEAN /\ misled \in BOOLEAN
  /\ default \in 1 .. MaxSlots
  /\ atLaunch \in Opened

ScreenTypes ==
  /\ power \in {"off", "run", "reboot"}
  /\ needsReboot \in BOOLEAN /\ repairChecked \in BOOLEAN /\ noticed \in BOOLEAN
  /\ currentAccount \in Account
  /\ retPNID \in BOOLEAN /\ prompt \in BOOLEAN
  /\ pnidAccountSlot \in 0 .. MaxSlots /\ agreed \in 0 .. MaxSlots

OperationTypes ==
  /\ doing \in {"none", "switch", "repair"}
  /\ target \in Account /\ slot \in 0 .. MaxSlots + 1
  /\ call \in Call /\ after \in {"end", "unbind", "leave exclusive"}

MTypes == ServiceTypes /\ ScreenTypes /\ OperationTypes

Shape ==
  /\ slots \in Seq(Slot) /\ Len(slots) \in 1 .. MaxSlots
  /\ default \in 1 .. Len(slots)

Clean ==
  power = "off" \/ (power = "run" /\ doing = "none" /\ ~needsReboot) =>
    loaded /\ console /\ ~exclusive /\ AsFound

Noticed == power = "run" /\ needsReboot => noticed

Asked ==
  prompt => /\ agreed = pnidAccountSlot
            /\ power = "run" => pnidAccountSlot \in 1 .. Len(slots)

Kind ==
  /\ doing = "switch" => after \in {"end", "unbind"} /\ call \notin repairAccount
  /\ doing = "repair" => /\ target = Pretendo /\ after = "leave exclusive"
                         /\ call \notin {"create friends", "unbind"}
  /\ call = "write pidhmac" => hmac

Preparing ==
  /\ call \in unloadAccount \cup {"load friends", "create friends", "find slot"} => Found
  /\ call \in unloadAccount => after # "unbind" /\ friends = atLaunch.friends
  /\ call = "load friends" => IF after = "unbind" THEN target \in friends
                                                  ELSE friends = atLaunch.friends
  /\ call = "create friends" => after = "unbind"
  /\ after = "unbind" /\ call # "failed" => target \notin atLaunch.friends

(* A slot that is new to this launch is not linked. *)
Unlinked(s) == s > atLaunch.count => ~slots[s].linked

Placing ==
  /\ call \in {"find slot", "create slot", "commit slot", "set default"} =>
       account = target /\ loaded /\ (after = "end" => target \in atLaunch.friends)
  /\ call = "create slot" => Found /\ slot = Len(slots) + 1
  /\ call = "commit slot" =>
       /\ slot = Len(slots) /\ slots[slot].owner = target /\ Unlinked(slot)
       /\ \A i \in 1 .. Len(slots) :
            i # slot => slots[i].committed \/ i \in atLaunch.pending
  /\ call = "set default" =>
       Known /\ slot \in 1 .. Len(slots) /\ slots[slot].owner = target /\ Unlinked(slot)

Placed ==
  doing = "switch" /\ call \in {"unbind", "end"} =>
    /\ account = target /\ loaded /\ console /\ Known
    /\ slots[default].owner = target /\ Unlinked(default)
    /\ call = "unbind" => after = "unbind"
    /\ call = "end" /\ target \notin atLaunch.friends =>
         ~slots[default].linked \/ (default <= atLaunch.count /\ default # target)

Operating == doing # "none" => power = "run" /\ Kind /\ Preparing /\ Placing /\ Placed

MIInv == MTypes /\ Shape /\ Clean /\ Noticed /\ Asked /\ Operating /\ RepairIsRemembered

-----------------------------------------------------------------------------
(* The slots.                                                              *)

(* The slot that is found is one of the account. *)
LEMMA Indexes ==
  ASSUME Shape, NEW a \in Account
  PROVE  /\ IndexOf(a) \in 0 .. Len(slots)
         /\ IndexOf(a) # 0 => slots[IndexOf(a)].owner = a
<1>1. Len(slots) \in Nat
  BY ScreenAssumption DEF Shape
<1>2. CASE SlotOf(a) = {}
  BY <1>1, <1>2 DEF IndexOf
<1>3. CASE SlotOf(a) # {}
  <2>1. IndexOf(a) \in SlotOf(a)
    BY <1>3 DEF IndexOf
  <2> QED
    BY <1>1, <2>1 DEF SlotOf
<1> QED
  BY <1>2, <1>3

(* Nothing that is said of the slots changes when they do not.             *)
LEMMA SlotsKept ==
  ASSUME UNCHANGED <<slots, atLaunch>>
  PROVE  /\ Known' = Known /\ Found' = Found
         /\ Shape /\ UNCHANGED default => Shape'
BY DEF Shape, Known, Found

(* A slot that changes keeps its owner and what it already has.            *)
LEMMA SlotsSet ==
  ASSUME Shape, NEW s \in 1 .. Len(slots), NEW r \in Slot,
         r.owner = slots[s].owner, slots[s].committed => r.committed,
         slots' = [slots EXCEPT ![s] = r], UNCHANGED <<default, atLaunch>>
  PROVE  /\ Shape' /\ Len(slots') = Len(slots) /\ slots'[s] = r
         /\ \A i \in 1 .. Len(slots) : i # s => slots'[i] = slots[i]
         /\ \A i \in 1 .. Len(slots) : slots'[i].owner = slots[i].owner
         /\ Known => Known'
         /\ Found => Found'
<1>1. slots \in Seq(Slot) /\ Len(slots) \in Nat
  BY ScreenAssumption DEF Shape
<1>2. /\ slots' \in Seq(Slot) /\ Len(slots') = Len(slots)
      /\ \A i \in 1 .. Len(slots) : slots'[i] = IF i = s THEN r ELSE slots[i]
  BY <1>1, ExceptSeq
<1>3. Shape'
  BY <1>1, <1>2 DEF Shape
<1>4. Known => Known'
  BY <1>1, <1>2 DEF Known
<1> QED
  BY <1>1, <1>2, <1>3, <1>4 DEF Found

(* What the app finds when it is opened. *)
LEMMA HereIs ==
  ASSUME Shape, account \in Account, friends \subseteq Account
  PROVE  /\ Here \in Opened
         /\ Here.account = account /\ Here.default = default /\ Here.friends = friends
         /\ Here.count = Len(slots)
         /\ \A i \in 1 .. Len(slots) : slots[i].committed \/ i \in Here.pending
<1>1. Len(slots) \in 1 .. MaxSlots /\ MaxSlots \in Nat /\ default \in 1 .. Len(slots)
  BY ScreenAssumption DEF Shape
<1>2. Pending \subseteq 1 .. MaxSlots /\ default \in 1 .. MaxSlots
  BY <1>1 DEF Pending
<1> QED
  BY <1>1, <1>2 DEF Here, Opened, Pending

(* Zero is a slot number. *)
LEMMA NoSlot == 0 \in 0 .. MaxSlots /\ 0 \in 0 .. MaxSlots + 1
BY ScreenAssumption

-----------------------------------------------------------------------------
(* Each step keeps the invariant.                                          *)
LEMMA MInitial ==
  ASSUME MainInit
  PROVE  MIInv
<1>1. Shape
  <2>1. PICK n \in 1 .. MaxSlots : slots \in [1 .. n -> Slot]
    BY DEF MainInit
  <2>2. n \in Nat /\ slots \in Seq(Slot) /\ Len(slots) = n
    BY <2>1, ScreenAssumption
  <2>3. default \in 1 .. Len(slots)
    BY DEF MainInit, SlotOf
  <2> QED
    BY <2>1, <2>2, <2>3 DEF Shape
<1>2. friends \subseteq Account /\ account \in Account
  BY DEF MainInit, Account, Nintendo
<1>3. /\ atLaunch \in Opened /\ Found
      /\ atLaunch.account = account /\ atLaunch.default = default /\ atLaunch.friends = friends
  BY <1>1, <1>2, HereIs DEF MainInit, Found, Known
<1>4. MTypes
  <2>1. default \in 1 .. MaxSlots
    BY <1>1, ScreenAssumption DEF Shape
  <2>2. call \in Call /\ after \in {"end", "unbind", "leave exclusive"}
    BY DEF MainInit, Call
  <2>3. currentAccount \in Account /\ target \in Account
    BY <1>2 DEF MainInit
  <2>4. slot \in 0 .. MaxSlots + 1 /\ pnidAccountSlot \in 0 .. MaxSlots
        /\ agreed \in 0 .. MaxSlots
    BY NoSlot DEF MainInit
  <2> QED
    BY <1>2, <1>3, <2>1, <2>2, <2>3, <2>4 DEF MainInit, MTypes, ServiceTypes,
       ScreenTypes, OperationTypes
<1>5. Clean /\ Noticed /\ Asked /\ Operating /\ RepairIsRemembered
  BY <1>3 DEF MainInit, Clean, AsFound, Noticed, Asked, Operating, RepairIsRemembered
<1> QED
  BY <1>1, <1>4, <1>5 DEF MIInv

(* A restart may drop the newest slot, and nothing else.                   *)
LEMMA Booting ==
  ASSUME MIInv, Boot
  PROVE  /\ Shape'
         /\ \A i \in 1 .. Len(slots') : i \in 1 .. Len(slots) /\ slots'[i] = slots[i]
<1>1. slots \in Seq(Slot) /\ Len(slots) \in 1 .. MaxSlots /\ default \in 1 .. Len(slots)
      /\ MaxSlots \in Nat
  BY ScreenAssumption DEF MIInv, Shape
<1>2. CASE UNCHANGED <<slots, default>>
  BY <1>1, <1>2 DEF Shape
<1>3. CASE /\ Len(slots) > 1 /\ slots' = Front(slots)
           /\ default' \in IF default < Len(slots) THEN {default} ELSE 1 .. Len(slots) - 1
  <2> DEFINE n == Len(slots) - 1
  <2>1. n \in Nat /\ n \in 1 .. Len(slots) /\ n \in 1 .. MaxSlots
    BY <1>1, <1>3
  <2>2. slots' = SubSeq(slots, 1, n)
    BY <1>3 DEF Front
  <2>3. /\ slots' \in Seq(Slot) /\ Len(slots') = n
        /\ \A i \in 1 .. n : slots'[i] = slots[i]
    BY <1>1, <2>1, <2>2
  <2>4. default' \in 1 .. n
    BY <1>1, <1>3
  <2>5. \A i \in 1 .. n : i \in 1 .. Len(slots)
    BY <1>1
  <2> HIDE DEF n
  <2> QED
    BY <2>1, <2>3, <2>4, <2>5 DEF Shape
<1> QED
  BY <1>2, <1>3 DEF Boot

LEMMA Opening ==
  ASSUME MIInv, Launch \/ MainReboot \/ PowerOff
  PROVE  MIInv'
<1>1. CASE Launch
  <2>1. UNCHANGED <<frd, slots, default, console, exclusive, pidhmac, target,
                    misled>> /\ power = "off"
    BY <1>1 DEF Launch, act
  <2>2. Shape'
    BY <2>1 DEF MIInv, Shape
  <2>3. /\ atLaunch' \in Opened /\ Found'
        /\ atLaunch'.account = account /\ atLaunch'.default = default
        /\ atLaunch'.friends = friends
    BY <1>1, <2>1, HereIs DEF Launch, MIInv, MTypes, ServiceTypes, Found, Known
  <2>4. MTypes'
    <3>2. call' \in Call /\ after' \in {"end", "unbind", "leave exclusive"}
      BY <1>1 DEF Launch, Call
    <3>3. /\ slot' \in 0 .. MaxSlots + 1 /\ pnidAccountSlot' \in 0 .. MaxSlots
          /\ agreed' \in 0 .. MaxSlots
      BY <1>1, NoSlot DEF Launch
    <3> QED
      BY <1>1, <2>1, <2>3, <3>2, <3>3 DEF MIInv, MTypes, ServiceTypes, ScreenTypes,
         OperationTypes, Launch, frd
  <2>5. Clean'
    BY <2>1, <2>3 DEF MIInv, Clean, AsFound, frd
  <2>6. Noticed' /\ Asked' /\ Operating' /\ RepairIsRemembered'
    BY <1>1, <2>1 DEF MIInv, Launch, frd, Noticed, Asked, Operating,
       RepairIsRemembered
  <2> QED
    BY <2>2, <2>4, <2>5, <2>6 DEF MIInv
<1>2. CASE MainReboot \/ PowerOff
  <2>1. Boot
    BY <1>2 DEF MainReboot, PowerOff
  <2>2. Shape'
    BY <2>1, Booting
  <2>3. UNCHANGED <<friends, account, hmac, pidhmac, screen, pnid, target, slot, misled>>
        /\ atLaunch' = Here' /\ loaded' = TRUE /\ console' = TRUE /\ exclusive' = FALSE
        /\ power' = "off" /\ doing' = "none" /\ call' = "end" /\ after' = "end"
    BY <2>1 DEF Boot
  <2>4. account' \in Account /\ friends' \subseteq Account
    BY <2>3 DEF MIInv, MTypes, ServiceTypes
  <2> DEFINE h == Here'
             ss == slots'
             d == default'
  <2>5. /\ h \in Opened /\ h.account = account' /\ h.default = d /\ h.friends = friends'
        /\ h.count = Len(ss)
        /\ \A i \in 1 .. Len(ss) : ss[i].committed \/ i \in h.pending
    <3>1. Pending' = {i \in 1 .. Len(ss) : ~ss[i].committed}
      BY DEF Pending
    <3>2. Len(ss) \in 1 .. MaxSlots /\ d \in 1 .. Len(ss) /\ MaxSlots \in Nat
      BY <2>2, ScreenAssumption DEF Shape
    <3>3. h = [account |-> account', default |-> d, friends |-> friends',
               count |-> Len(ss), pending |-> Pending']
      BY DEF Here
    <3>4. Pending' \subseteq 1 .. MaxSlots /\ d \in 1 .. MaxSlots
      BY <3>1, <3>2
    <3> HIDE DEF h, ss, d
    <3> QED
      BY <2>4, <3>1, <3>2, <3>3, <3>4 DEF Opened
  <2>6. AsFound'
    <3>1. Known' /\ Len(slots') = atLaunch'.count
      BY <2>3, <2>5 DEF Known
    <3> QED
      BY <2>3, <2>5, <3>1 DEF AsFound, Found
  <2>7. MTypes'
    <3>1. default' \in 1 .. MaxSlots
      BY <2>2, ScreenAssumption DEF Shape
    <3>2. call' \in Call
      BY <2>3 DEF Call
    <3>3. atLaunch' \in Opened
      BY <2>3, <2>5
    <3>4. ServiceTypes'
      BY <2>3, <3>1, <3>3 DEF MIInv, MTypes, ServiceTypes
    <3>5. ScreenTypes' /\ OperationTypes'
      BY <2>3, <3>2 DEF MIInv, MTypes, ScreenTypes, OperationTypes, screen, pnid
    <3> QED
      BY <3>4, <3>5 DEF MTypes
  <2>8. Clean' /\ Noticed' /\ Asked' /\ Operating' /\ RepairIsRemembered'
    BY <2>3, <2>6 DEF MIInv, Clean, Noticed, Asked, Operating, RepairIsRemembered, screen, pnid
  <2> QED
    BY <2>2, <2>7, <2>8 DEF MIInv
<1> QED
  BY <1>1, <1>2

(* What a frame without a notice for a restart finds.                      *)
LEMMA FrameFinds ==
  ASSUME MIInv, Ready, ~needsReboot
  PROVE  loaded /\ console /\ ~exclusive /\ AsFound
BY DEF MIInv, Ready, Clean

(* An operation that starts finds the services as the app found them.      *)
LEMMA Starting ==
  ASSUME MIInv, Ready, ~needsReboot, UNCHANGED <<frd, act, exclusive, power,
                                                     needsReboot, atLaunch>>,
         call' = "unload act", target' \in Account,
         \/ doing' = "switch" /\ after' = "end"
         \/ doing' = "repair" /\ after' = "leave exclusive" /\ target' = Pretendo
  PROVE  Operating' /\ Clean'
<1>1. Found' /\ friends = atLaunch.friends /\ power = "run"
  <2>1. AsFound
    BY FrameFinds
  <2> QED
    BY <2>1, SlotsKept DEF act, AsFound, Ready
<1> QED
  BY <1>1 DEF frd, Operating, Kind, Preparing, Placing, Placed, Clean,
     unloadAccount, repairAccount

(* X opens the question for the slot it has looked up.                     *)
LEMMA LookingUp ==
  ASSUME MIInv, LookUp, UNCHANGED slots, ~prompt
  PROVE  /\ retPNID' \in BOOLEAN /\ prompt' \in BOOLEAN
         /\ pnidAccountSlot' \in 0 .. MaxSlots /\ agreed' \in 0 .. MaxSlots
         /\ Asked'
<1>1. CASE ~retPNID
  BY <1>1 DEF LookUp, pnid, MIInv, MTypes, ServiceTypes, ScreenTypes,
     OperationTypes, Asked
<1>2. CASE retPNID
  <2>1. IndexOf(Pretendo) \in 0 .. MaxSlots /\ IndexOf(Pretendo) \in 0 .. Len(slots)
    BY Indexes, ScreenAssumption DEF MIInv, Shape, Account
  <2>2. /\ retPNID' \in BOOLEAN /\ pnidAccountSlot' \in 0 .. MaxSlots
        /\ retPNID' => pnidAccountSlot' \in 1 .. Len(slots)
    <3>1. \/ /\ pnidAccountSlot' = IndexOf(Pretendo)
             /\ \/ retPNID' = (IndexOf(Pretendo) # 0)
                \/ retPNID' = FALSE
          \/ UNCHANGED pnidAccountSlot /\ retPNID' = FALSE
      BY <1>2 DEF LookUp
    <3>2. CASE pnidAccountSlot' = IndexOf(Pretendo) /\ retPNID' = (IndexOf(Pretendo) # 0)
      <4>1. CASE IndexOf(Pretendo) = 0
        BY <2>1, <3>2, <4>1
      <4>2. CASE IndexOf(Pretendo) # 0
        BY <2>1, <3>2, <4>2, ScreenAssumption DEF MIInv, Shape
      <4> QED
        BY <4>1, <4>2
    <3>3. CASE retPNID' = FALSE /\ pnidAccountSlot' \in {pnidAccountSlot, IndexOf(Pretendo)}
      BY <2>1, <3>3 DEF MIInv, MTypes, ServiceTypes, ScreenTypes, OperationTypes
    <3> QED
      BY <3>1, <3>2, <3>3
  <2>4. ASSUME NEW i \in 1 .. Len(slots) PROVE slots[i].linked \in BOOLEAN
    <3>1. slots[i] \in Slot
      BY <2>4 DEF MIInv, Shape
    <3> QED
      BY <3>1 DEF Slot
  <2>5. /\ prompt' = (retPNID' /\ slots[pnidAccountSlot'].linked)
        /\ agreed' = IF prompt' THEN pnidAccountSlot' ELSE 0
    BY <1>2 DEF LookUp
  <2>6. prompt' \in BOOLEAN
    <3>1. CASE retPNID' = FALSE
      BY <2>5, <3>1
    <3>2. CASE retPNID' = TRUE
      <4>1. slots[pnidAccountSlot'].linked \in BOOLEAN
        BY <2>2, <2>4, <3>2
      <4> QED
        BY <2>5, <3>2, <4>1
    <3> QED
      BY <2>2, <3>1, <3>2
  <2>7. agreed' \in 0 .. MaxSlots
    BY <2>2, <2>5, NoSlot
  <2>8. Asked'
    BY <2>2, <2>5 DEF Asked
  <2> QED
    BY <2>2, <2>6, <2>7, <2>8
<1> QED
  BY <1>1, <1>2

LEMMA RepairChecks ==
  ASSUME MIInv, RepairCheck
  PROVE  MIInv'
<1>1. UNCHANGED <<frd, act, exclusive, power, needsReboot, currentAccount,
                  noticed, pnid, atLaunch>>
  BY DEF RepairCheck
<1>2. Shape' /\ Known' = Known /\ Found' = Found
  BY <1>1, SlotsKept DEF MIInv, act
<1>3. PICK index \in {IndexOf(Pretendo), 0} :
        /\ pidhmac' = (pidhmac \/ index = 0)
        /\ misled' = (misled \/ (index = 0 /\ Pretendo \in friends))
  BY DEF RepairCheck
<1>4. pidhmac' \in BOOLEAN /\ misled' \in BOOLEAN
  BY <1>3 DEF MIInv, MTypes, ServiceTypes, ScreenTypes, OperationTypes
<1>5. MTypes'
  <2>1. doing' \in {"none", "switch", "repair"} /\ target' \in Account
        /\ slot' \in 0 .. MaxSlots + 1
    BY DEF RepairCheck, op, MIInv, MTypes, ServiceTypes, ScreenTypes,
       OperationTypes, Account
  <2>2. call' \in Call /\ after' \in {"end", "unbind", "leave exclusive"}
    BY DEF RepairCheck, op, MIInv, MTypes, ServiceTypes, ScreenTypes,
       OperationTypes, Call, unloadAccount
  <2> QED
    BY <1>1, <1>4, <2>1, <2>2 DEF MIInv, MTypes, ServiceTypes, ScreenTypes,
       OperationTypes, RepairCheck, frd, act, pnid
<1>6. RepairIsRemembered'
  BY <1>1, <1>3, <1>4 DEF MIInv, MTypes, ServiceTypes, ScreenTypes, OperationTypes,
     RepairIsRemembered, frd
<1>7. ~needsReboot /\ Ready
  BY DEF RepairCheck, Ready, MIInv, Noticed
<1>8. Operating' /\ Clean'
  <2>1. CASE pidhmac'
    <3>1. doing = "none" /\ UNCHANGED doing
      BY <2>1 DEF RepairCheck, Ready, op
    <3>2. AsFound /\ AsFound'
      BY <1>1, <1>2, <1>7, FrameFinds DEF frd, act, AsFound
    <3> QED
      BY <1>1, <1>2, <1>7, <3>1, <3>2, FrameFinds DEF Operating, Clean, frd, act
  <2>2. CASE ~pidhmac'
    <3>1. target' \in Account /\ doing' = "repair" /\ target' = Pretendo
          /\ call' = "unload act" /\ after' = "leave exclusive"
      BY <2>2 DEF RepairCheck, Account
    <3> QED
      BY <1>1, <1>7, <3>1, Starting
  <2> QED
    BY <2>1, <2>2
<1>9. Noticed' /\ Asked'
  BY <1>1 DEF MIInv, Noticed, Asked, act, pnid
<1> QED
  BY <1>2, <1>5, <1>6, <1>8, <1>9 DEF MIInv

LEMMA Pressing ==
  ASSUME MIInv, NEW a \in Account, NEW withX \in BOOLEAN, PressAccount(a, withX)
  PROVE  MIInv'
<1>1. UNCHANGED <<frd, act, exclusive, pidhmac, repairChecked, needsReboot,
                  currentAccount, noticed,
                  atLaunch, misled>>
  BY DEF PressAccount
<1>2. Ready /\ ~needsReboot /\ ~prompt
  BY DEF PressAccount, Frame
<1>3. Shape' /\ Known' = Known /\ Found' = Found
  BY <1>1, SlotsKept DEF MIInv, act
<1>4. /\ retPNID' \in BOOLEAN /\ prompt' \in BOOLEAN
      /\ pnidAccountSlot' \in 0 .. MaxSlots /\ agreed' \in 0 .. MaxSlots
      /\ Asked'
  <2>1. CASE withX
    BY <1>1, <1>2, <2>1, LookingUp DEF PressAccount, act
  <2>2. CASE ~withX
    BY <1>2, <2>2 DEF PressAccount, pnid, MIInv, MTypes, ServiceTypes,
       ScreenTypes, OperationTypes, Asked
  <2> QED
    BY <2>1, <2>2
<1>5. CASE a = currentAccount
  <2>1. UNCHANGED op /\ power' = "off"
    BY <1>1, <1>2, <1>5 DEF PressAccount, Leaves
  <2>2. MTypes'
    BY <1>1, <1>4, <2>1 DEF MIInv, MTypes, ServiceTypes, ScreenTypes, OperationTypes,
       frd, act, op
  <2>3. Operating' /\ Clean' /\ Noticed' /\ RepairIsRemembered'
    BY <1>1, <1>2, <1>3, <2>1, FrameFinds DEF MIInv, Operating, Clean, AsFound, Noticed,
       RepairIsRemembered, frd, act, op, Ready
  <2> QED
    BY <1>3, <1>4, <2>2, <2>3 DEF MIInv
<1>6. CASE a # currentAccount
  <2>1. /\ doing' = "switch" /\ target' = a /\ call' = "unload act" /\ after' = "end"
        /\ UNCHANGED <<slot, power>>
    BY <1>6 DEF PressAccount
  <2>2. MTypes'
    <3>1. call' \in Call
      BY <2>1 DEF Call, unloadAccount
    <3> QED
      BY <1>1, <1>4, <2>1, <3>1 DEF MIInv, MTypes, ServiceTypes, ScreenTypes,
         OperationTypes, frd, act
  <2>3. Operating' /\ Clean'
    BY <1>1, <1>2, <2>1, Starting
  <2>4. Noticed' /\ RepairIsRemembered'
    BY <1>1, <2>1 DEF MIInv, Noticed, RepairIsRemembered, frd
  <2> QED
    BY <1>3, <1>4, <2>2, <2>3, <2>4 DEF MIInv
<1> QED
  BY <1>5, <1>6

(* Unlinking a slot changes nothing else of the slots.                     *)
LEMMA Unbinding ==
  ASSUME Shape, NEW s \in 1 .. Len(slots), Unbind(s), UNCHANGED <<default, atLaunch>>
  PROVE  /\ Shape' /\ Len(slots') = Len(slots)
         /\ Known => Known'
         /\ Found => Found'
         /\ ~slots'[s].linked
         /\ \A i \in 1 .. Len(slots) : i # s => slots'[i] = slots[i]
         /\ \A i \in 1 .. Len(slots) : slots'[i].owner = slots[i].owner
<1> DEFINE r == [slots[s] EXCEPT !.linked = FALSE]
<1>1. slots[s] \in Slot
  BY DEF Shape
<1>2. r \in Slot /\ r.owner = slots[s].owner /\ r.committed = slots[s].committed /\ ~r.linked
  BY <1>1 DEF Slot
<1>3. slots' = [slots EXCEPT ![s] = r]
  BY DEF Unbind
<1> HIDE DEF r
<1> QED
  BY <1>2, <1>3, SlotsSet

(* Applying patches commits the Pretendo slot and unlinks nothing.         *)
LEMMA Applying ==
  ASSUME Shape, ApplyPatches
  PROVE  /\ Shape' /\ Len(slots') = Len(slots)
         /\ Found => Found'
         /\ \A i \in 1 .. Len(slots) : slots'[i].linked = slots[i].linked
<1> DEFINE New(i) == IF i = IndexOf(Pretendo) THEN [slots[i] EXCEPT !.committed = TRUE] ELSE slots[i]
<1>1. slots \in Seq(Slot) /\ Len(slots) \in Nat
  BY ScreenAssumption DEF Shape
<1>2. ASSUME NEW i \in 1 .. Len(slots)
      PROVE  /\ New(i) \in Slot
             /\ New(i).linked = slots[i].linked
             /\ (slots[i].committed => New(i).committed)
  <2>1. slots[i] \in Slot
    BY <1>1, <1>2
  <2> QED
    BY <2>1 DEF Slot
<1>3. PretendoCommitted = [i \in 1 .. Len(slots) |-> New(i)]
  BY DEF PretendoCommitted
<1>4. UNCHANGED <<default, atLaunch>> /\ slots' \in {slots, PretendoCommitted}
  BY DEF ApplyPatches
<1> HIDE DEF New
<1>5. CASE slots' = slots
  BY <1>4, <1>5, SlotsKept
<1>6. CASE slots' = PretendoCommitted
  <2>1. /\ slots' \in Seq(Slot) /\ Len(slots') = Len(slots)
        /\ \A i \in 1 .. Len(slots) : slots'[i] = New(i)
    BY <1>1, <1>2, <1>3, <1>6
  <2>2. Shape'
    BY <1>1, <1>4, <2>1 DEF Shape
  <2>3. Found => Found'
    BY <1>2, <1>4, <2>1 DEF Found, Known
  <2> QED
    BY <1>2, <2>1, <2>2, <2>3
<1> QED
  BY <1>4, <1>5, <1>6

LEMMA OtherKeys ==
  ASSUME MIInv,
  Start \/ ApplyPatches \/ PressX \/ PromptYes \/ PromptNo
  PROVE  MIInv'
<1>1. CASE Start
  <2>1. UNCHANGED <<frd, act, exclusive, pidhmac, repairChecked, needsReboot,
                    currentAccount,
                    noticed, pnid, op, atLaunch, misled>>
    BY <1>1 DEF Start
  <2>2. power = "run" /\ doing = "none" /\ power' = IF needsReboot THEN "reboot" ELSE "off"
    BY <1>1, <2>1 DEF Start, Frame, Ready, Leaves
  <2>3. Shape' /\ Known' = Known /\ Found' = Found
    BY <2>1, SlotsKept DEF MIInv, act
  <2>4. MTypes'
    <3>1. ServiceTypes'
      BY <2>1, <2>2 DEF MIInv, MTypes, ServiceTypes, frd, act
    <3>2. ScreenTypes'
      BY <2>1, <2>2 DEF MIInv, MTypes, ScreenTypes, pnid
    <3>3. OperationTypes'
      BY <2>1, <2>2 DEF MIInv, MTypes, OperationTypes, op
    <3> QED
      BY <3>1, <3>2, <3>3 DEF MTypes
  <2>5. Operating' /\ Clean' /\ Noticed' /\ Asked' /\ RepairIsRemembered'
    BY <2>1, <2>2, <2>3 DEF MIInv, Operating, Clean, AsFound, Noticed, Asked,
       RepairIsRemembered, frd, act,
       pnid, op
  <2> QED
    BY <2>3, <2>4, <2>5 DEF MIInv
<1>2. CASE ApplyPatches
  <2>1. /\ UNCHANGED <<frd, default, console, exclusive, pidhmac, power,
                       repairChecked, currentAccount,
                       pnid, op, atLaunch, misled>>
        /\ noticed' \in BOOLEAN
    BY <1>2 DEF ApplyPatches
  <2>2. Ready /\ ~needsReboot
    BY <1>2 DEF ApplyPatches, Frame
  <2>0. needsReboot' \in BOOLEAN /\ (needsReboot' => noticed')
    <3>1. CASE needsReboot' = noticed'
      BY <2>1, <3>1
    <3>2. CASE UNCHANGED needsReboot
      BY <2>2, <3>2 DEF MIInv, MTypes, ScreenTypes
    <3> QED
      BY <1>2, <3>1, <3>2 DEF ApplyPatches
  <2>3. Shape' /\ (Found => Found') /\ Len(slots') = Len(slots)
    BY <1>2, Applying DEF MIInv
  <2>4. MTypes'
    <3>1. ServiceTypes'
      BY <2>1 DEF MIInv, MTypes, ServiceTypes, frd
    <3>2. ScreenTypes'
      BY <2>0, <2>1 DEF MIInv, MTypes, ScreenTypes, pnid
    <3>3. OperationTypes'
      BY <2>1 DEF MIInv, MTypes, OperationTypes, op
    <3> QED
      BY <3>1, <3>2, <3>3 DEF MTypes
  <2>5. Operating' /\ Clean' /\ Noticed' /\ Asked' /\ RepairIsRemembered'
    <3>1. doing' = "none"
      BY <2>1, <2>2 DEF Ready, op
    <3>2. AsFound' /\ loaded /\ console /\ ~exclusive
      BY <2>1, <2>2, <2>3, FrameFinds DEF AsFound, frd
    <3> QED
      BY <2>0, <2>1, <2>3, <3>1, <3>2 DEF MIInv, Operating, Clean, Noticed, Asked,
         RepairIsRemembered,
         frd, pnid
  <2> QED
    BY <2>3, <2>4, <2>5 DEF MIInv
<1>3. CASE PressX
  <2>1. UNCHANGED <<frd, act, exclusive, pidhmac, power, screen, op,
                    atLaunch, misled>>
    BY <1>3 DEF PressX
  <2>2. /\ retPNID' \in BOOLEAN /\ prompt' \in BOOLEAN
        /\ pnidAccountSlot' \in 0 .. MaxSlots /\ agreed' \in 0 .. MaxSlots
        /\ Asked'
    BY <1>3, <2>1, LookingUp DEF PressX, act
  <2>3. Shape' /\ Known' = Known /\ Found' = Found
    BY <2>1, SlotsKept DEF MIInv, act
  <2>4. MTypes'
    <3>1. ServiceTypes'
      BY <2>1, <2>2 DEF MIInv, MTypes, ServiceTypes, frd, act
    <3>2. ScreenTypes'
      BY <2>1, <2>2 DEF MIInv, MTypes, ScreenTypes, screen
    <3>3. OperationTypes'
      BY <2>1, <2>2 DEF MIInv, MTypes, OperationTypes, op
    <3> QED
      BY <3>1, <3>2, <3>3 DEF MTypes
  <2>5. Operating' /\ Clean' /\ Noticed' /\ RepairIsRemembered'
    <3>1. Ready
      BY <1>3 DEF PressX, Frame
    <3> QED
      BY <2>1, <2>3, <3>1 DEF MIInv, Ready, Operating, Clean, AsFound, Noticed,
         RepairIsRemembered, frd, act,
         screen, op
  <2> QED
    BY <2>2, <2>3, <2>4, <2>5 DEF MIInv
<1>4. CASE PromptYes \/ PromptNo
  <2>1. /\ UNCHANGED <<frd, default, console, exclusive, pidhmac, power, screen,
                       pnidAccountSlot, op,
                       atLaunch, misled>>
        /\ prompt' = FALSE /\ agreed' = 0 /\ retPNID' \in BOOLEAN
    BY <1>4 DEF PromptYes, PromptNo, act, MIInv, MTypes, ServiceTypes,
       ScreenTypes, OperationTypes
  <2>2. Ready /\ prompt
    BY <1>4 DEF PromptYes, PromptNo, Frame
  <2>3. pnidAccountSlot \in 1 .. Len(slots)
    BY <2>2 DEF Ready, MIInv, Asked
  <2>4. Unbind(pnidAccountSlot) \/ UNCHANGED slots
    BY <1>4 DEF PromptYes, PromptNo, act
  <2>5. Shape' /\ (Found => Found')
    BY <2>1, <2>3, <2>4, Unbinding, SlotsKept DEF MIInv
  <2>6. MTypes'
    <3>1. ServiceTypes'
      BY <2>1 DEF MIInv, MTypes, ServiceTypes, frd
    <3>2. ScreenTypes'
      <4>1. agreed' \in 0 .. MaxSlots
        BY <2>1, NoSlot
      <4>2. prompt' \in BOOLEAN
        BY <2>1
      <4> QED
        BY <2>1, <4>1, <4>2 DEF MIInv, MTypes, ScreenTypes, screen
    <3>3. OperationTypes'
      BY <2>1 DEF MIInv, MTypes, OperationTypes, op
    <3> QED
      BY <3>1, <3>2, <3>3 DEF MTypes
  <2>7. Operating' /\ Clean' /\ Noticed' /\ Asked' /\ RepairIsRemembered'
    BY <2>1, <2>2, <2>5 DEF MIInv, Ready, Operating, Clean, AsFound, Noticed, Asked,
       RepairIsRemembered, frd,
       screen, op
  <2> QED
    BY <2>5, <2>6, <2>7 DEF MIInv
<1> QED
  BY <1>1, <1>2, <1>3, <1>4

LEMMA CallTypes ==
  ASSUME MIInv, UNCHANGED <<power, screen, pnid, doing, target>>,
         call' \in Call, after' \in {"end", "unbind", "leave exclusive"},
         slot' \in 0 .. MaxSlots + 1
  PROVE  ScreenTypes' /\ OperationTypes'
<1>1. ScreenTypes'
  BY DEF MIInv, MTypes, ScreenTypes, screen, pnid
<1>2. OperationTypes'
  BY DEF MIInv, MTypes, OperationTypes
<1> QED
  BY <1>1, <1>2

LEMMA Ranges ==
  ASSUME MIInv
  PROVE  /\ target \in Nat \ {0} /\ target \in Account
         /\ slots \in Seq(Slot) /\ Len(slots) \in 1 .. MaxSlots
         /\ default \in 1 .. Len(slots) /\ MaxSlots \in Nat
<1>1. target \in Account
  BY DEF MIInv, MTypes, OperationTypes
<1> QED
  BY <1>1, ScreenAssumption DEF MIInv, Shape, Account, Nintendo, Pretendo

(* A call that moves no slot: its effect on the services is left to see.   *)
LEMMA Calling ==
  ASSUME MIInv, UNCHANGED <<slots, slot, power, screen, pnid, atLaunch, doing,
                           target>>,
         doing # "none", call' \in Call, after' \in {"end", "unbind",
         "leave exclusive"}, UNCHANGED default
  PROVE  /\ Shape' /\ Known' = Known /\ Found' = Found /\ power' = "run"
         /\ ScreenTypes' /\ OperationTypes' /\ Clean' /\ Noticed' /\ Asked'
<1>1. Shape' /\ Known' = Known /\ Found' = Found
  BY SlotsKept DEF MIInv
<1>2. power' = "run"
  BY DEF MIInv, Operating
<1>3. ScreenTypes' /\ OperationTypes'
  BY CallTypes DEF MIInv, MTypes, OperationTypes
<1>5. Clean' /\ Noticed' /\ Asked'
  BY <1>2 DEF MIInv, Clean, Noticed, Asked, screen, pnid
<1> QED
  BY <1>1, <1>2, <1>3, <1>5

(* unloadAccount. *)
LEMMA Unloading ==
  ASSUME MIInv,
  UnloadConsoleAccount \/ EnterExclusiveState \/ UnloadLocalAccount
  PROVE  MIInv'
<1>1. /\ UNCHANGED <<friends, account, hmac, slots, default, slot, pidhmac, power,
                     screen, pnid,
                     atLaunch, misled, doing, target, after>>
      /\ loaded' \in BOOLEAN /\ console' \in BOOLEAN /\ exclusive' \in BOOLEAN
  BY DEF UnloadConsoleAccount, EnterExclusiveState, UnloadLocalAccount,
     Then, Still, frd, act,
     MIInv, MTypes, ServiceTypes
<1>2. /\ doing # "none" /\ call \in unloadAccount
      /\ call' \in unloadAccount \cup {"load friends"}
  BY DEF UnloadConsoleAccount, EnterExclusiveState, UnloadLocalAccount,
     Turn, Then, unloadAccount
<1>3. call' \in Call
  BY <1>2 DEF Call, createAccount, switchAccounts
<1>4. /\ Shape' /\ Known' = Known /\ Found' = Found /\ power' = "run"
      /\ ScreenTypes' /\ OperationTypes' /\ Clean' /\ Noticed' /\ Asked'
  BY <1>1, <1>2, <1>3, Calling DEF MIInv, MTypes, OperationTypes
<1>5. MTypes'
  BY <1>1, <1>4 DEF MIInv, MTypes, ServiceTypes
<1>6. Found /\ after # "unbind" /\ friends = atLaunch.friends
  BY <1>2 DEF MIInv, Operating, Preparing, unloadAccount
<1>7. Operating'
  <2>1. call' \notin repairAccount \cup {"create friends", "unbind", "end", "find slot",
                                         "create slot", "commit slot", "set default"}
    BY <1>2 DEF unloadAccount, repairAccount
  <2>2. Kind'
    BY <1>1, <1>2, <2>1 DEF MIInv, Operating, Kind, repairAccount
  <2>3. Preparing'
    BY <1>1, <1>2, <1>4, <1>6, <2>1 DEF Preparing
  <2> QED
    BY <1>4, <2>1, <2>2, <2>3 DEF Operating, Placing, Placed
<1>8. RepairIsRemembered'
  BY <1>1 DEF MIInv, RepairIsRemembered
<1> QED
  BY <1>4, <1>5, <1>7, <1>8 DEF MIInv

(* FRDA_LoadLocalAccount, and what is done when there is no account. *)
LEMMA Loading ==
  ASSUME MIInv,
  LoadLocalAccount \/ LocalAccountNotExists \/ CreateLocalAccount
  PROVE  MIInv'
<1>1. CASE LoadLocalAccount
  <2>1. /\ UNCHANGED <<friends, hmac, act, exclusive, slot, pidhmac, power,
                       screen, pnid, atLaunch,
                       misled, doing, target, after>>
        /\ doing # "none" /\ call = "load friends" /\ call' = "find slot" /\ target \in friends
        /\ account' = target /\ loaded' = TRUE
    BY <1>1 DEF LoadLocalAccount, Turn, Then, Still
  <2>2. call' \in Call
    BY <2>1 DEF Call, createAccount, switchAccounts
  <2>3. /\ Shape' /\ Known' = Known /\ Found' = Found /\ power' = "run"
        /\ ScreenTypes' /\ OperationTypes' /\ Clean' /\ Noticed' /\ Asked'
    BY <2>1, <2>2, Calling DEF act, MIInv, MTypes, OperationTypes
  <2>4. MTypes'
    BY <2>1, <2>3 DEF MIInv, MTypes, ServiceTypes, OperationTypes, act
  <2>5. Operating'
    BY <2>1, <2>3 DEF MIInv, Operating, Kind, Preparing, Placing, Placed,
       unloadAccount,
       repairAccount
  <2>6. RepairIsRemembered'
    BY <2>1 DEF MIInv, RepairIsRemembered
  <2> QED
    BY <2>3, <2>4, <2>5, <2>6 DEF MIInv
<1>2. CASE LocalAccountNotExists
  <2>1. /\ UNCHANGED <<frd, act, exclusive, slot, power, screen, pnid,
                       atLaunch, misled, doing, target>>
        /\ doing # "none" /\ call = "load friends" /\ target \notin friends
        /\ \/ doing = "switch" /\ call' = "create friends" /\ after' = "unbind"
              /\ UNCHANGED pidhmac
           \/ doing = "repair" /\ call' = "end" /\ UNCHANGED after /\ pidhmac' = TRUE
    BY <1>2 DEF LocalAccountNotExists, Turn, Then, MIInv, MTypes,
       OperationTypes
  <2>2. call' \in Call /\ after' \in {"end", "unbind", "leave exclusive"}
    BY <2>1 DEF Call, createAccount, MIInv, MTypes, OperationTypes
  <2>3. /\ Shape' /\ Known' = Known /\ Found' = Found /\ power' = "run"
        /\ ScreenTypes' /\ OperationTypes' /\ Clean' /\ Noticed' /\ Asked'
    BY <2>1, <2>2, Calling DEF act
  <2>4. MTypes'
    BY <2>1, <2>3 DEF MIInv, MTypes, ServiceTypes, frd, act
  <2>5. Found /\ after # "unbind" /\ friends = atLaunch.friends
    BY <2>1 DEF MIInv, Operating, Preparing
  <2>6. Operating'
    BY <2>1, <2>3, <2>5 DEF MIInv, Operating, Kind, Preparing, Placing, Placed,
       unloadAccount,
       repairAccount
  <2>7. RepairIsRemembered'
    BY <2>1 DEF MIInv, RepairIsRemembered, frd, Operating, Kind
  <2> QED
    BY <2>3, <2>4, <2>6, <2>7 DEF MIInv
<1>3. CASE CreateLocalAccount
  <2>1. /\ UNCHANGED <<account, loaded, act, exclusive, slot, pidhmac, power,
                       screen, pnid, atLaunch,
                       misled, doing, target, after>>
        /\ doing # "none" /\ call = "create friends" /\ call' = "load friends"
        /\ friends' = friends \cup {target} /\ hmac' = TRUE
    BY <1>3 DEF CreateLocalAccount, Turn, Then, Still
  <2>2. call' \in Call
    BY <2>1 DEF Call, createAccount, switchAccounts
  <2>3. /\ Shape' /\ Known' = Known /\ Found' = Found /\ power' = "run"
        /\ ScreenTypes' /\ OperationTypes' /\ Clean' /\ Noticed' /\ Asked'
    BY <2>1, <2>2, Calling DEF act, MIInv, MTypes, OperationTypes
  <2>4. MTypes'
    BY <2>1, <2>3 DEF MIInv, MTypes, ServiceTypes, OperationTypes, act
  <2>5. Operating'
    BY <2>1, <2>3 DEF MIInv, Operating, Kind, Preparing, Placing, Placed,
       unloadAccount,
       repairAccount
  <2>6. RepairIsRemembered'
    BY <2>1 DEF RepairIsRemembered
  <2> QED
    BY <2>3, <2>4, <2>5, <2>6 DEF MIInv
<1> QED
  BY <1>1, <1>2, <1>3

(* The slot of the account: found, created, committed and made the default. *)
LEMMA FindingSlot ==
  ASSUME MIInv, FindSlot
  PROVE  MIInv'
<1>1. /\ UNCHANGED <<frd, act, exclusive, pidhmac, power, screen, pnid,
                     atLaunch, misled, doing, target,
                     after>>
      /\ doing # "none" /\ call = "find slot"
      /\ \/ slot' = IndexOf(target) /\ IndexOf(target) # 0 /\ call' = "set default"
         \/ slot' = Len(slots) + 1 /\ IndexOf(target) = 0 /\ call' = "create slot"
  BY DEF FindSlot, Turn, Then, Still
<1>2. IndexOf(target) \in 0 .. Len(slots)
      /\ (IndexOf(target) # 0 => slots[IndexOf(target)].owner = target)
  BY Ranges, Indexes DEF MIInv
<1>0. Len(slots) \in 1 .. MaxSlots /\ MaxSlots \in Nat
  BY Ranges
<1>3. \/ call' = "set default" /\ slot' \in 1 .. Len(slots) /\ slots[slot'].owner = target
      \/ call' = "create slot" /\ slot' = Len(slots) + 1
  <2>1. \/ slot' = IndexOf(target) /\ IndexOf(target) # 0 /\ call' = "set default"
        \/ slot' = Len(slots) + 1 /\ call' = "create slot"
    BY <1>1
  <2>2. IndexOf(target) # 0 => IndexOf(target) \in 1 .. Len(slots)
    BY <1>0, <1>2
  <2> QED
    BY <1>2, <2>1, <2>2
<1>4. call' \in Call /\ slot' \in 0 .. MaxSlots + 1
  <2>1. call' \in {"set default", "create slot"} /\ slot' \in 1 .. Len(slots) \cup {Len(slots) + 1}
    BY <1>3
  <2>2. 1 .. Len(slots) \cup {Len(slots) + 1} \subseteq 0 .. MaxSlots + 1
    BY <1>0
  <2> QED
    BY <2>1, <2>2 DEF Call, createAccount, switchAccounts
<1>5. Shape' /\ Known' = Known /\ Found' = Found /\ Found /\ power' = "run"
  BY <1>1, SlotsKept DEF MIInv, act, Operating, Preparing
<1>6. MTypes'
  <2>1. ScreenTypes' /\ OperationTypes'
    BY <1>1, <1>4, CallTypes DEF MIInv, MTypes, OperationTypes
  <2>2. ServiceTypes'
    BY <1>1 DEF MIInv, MTypes, ServiceTypes, frd, act
  <2> QED
    BY <2>1, <2>2 DEF MTypes
<1>7. Operating'
  <2>1. account = target /\ loaded /\ (after = "end" => target \in atLaunch.friends)
    BY <1>1 DEF MIInv, Operating, Placing
  <2>2. call' \notin unloadAccount \cup repairAccount
                       \cup {"load friends", "create friends", "unbind", "end", "find slot",
                             "commit slot"}
    BY <1>3 DEF unloadAccount, repairAccount
  <2>3. Kind'
    BY <1>1, <2>2 DEF MIInv, Operating, Kind, repairAccount
  <2>4. Preparing'
    BY <1>1, <2>2 DEF MIInv, Operating, Preparing
  <2>5. Known /\ Len(slots) = atLaunch.count /\ atLaunch.count \in Nat
    BY <1>5, Ranges DEF Found
  <2>6. call' = "set default" => Unlinked(slot)'
    <3>1. call' = "set default" => ~(slot' > atLaunch.count)
      <4>1. call' = "set default" => slot' \in 1 .. Len(slots)
        BY <1>3
      <4>2. \A i \in 1 .. Len(slots) : ~(i > Len(slots))
        BY <1>0
      <4> QED
        BY <2>5, <4>1, <4>2
    <3> QED
      BY <1>1, <3>1 DEF Unlinked
  <2>7. Placing'
    BY <1>1, <1>3, <1>5, <2>1, <2>5, <2>6 DEF Placing, frd, act
  <2> QED
    BY <1>5, <2>2, <2>3, <2>4, <2>7 DEF Operating, Placed
<1>8. Clean' /\ Noticed' /\ Asked' /\ RepairIsRemembered'
  BY <1>1, <1>5 DEF MIInv, Clean, Noticed, Asked, RepairIsRemembered, frd,
     act, screen, pnid
<1> QED
  BY <1>5, <1>6, <1>7, <1>8 DEF MIInv

LEMMA CreatingSlot ==
  ASSUME MIInv, CreateConsoleAccount
  PROVE  /\ MIInv'
         /\ \A i \in 1 .. Len(slots) : i \in 1 .. Len(slots') /\ slots'[i] = slots[i]
<1> DEFINE r == [owner |-> account, linked |-> FALSE, committed |-> FALSE]
<1>1. /\ UNCHANGED <<frd, default, console, exclusive, slot, pidhmac, power,
                     screen, pnid, atLaunch,
                     misled, doing, target, after>>
      /\ doing # "none" /\ call = "create slot" /\ call' = "commit slot"
      /\ slots' = Append(slots, r) /\ Len(slots) < MaxSlots
  BY DEF CreateConsoleAccount, Turn, Then, Still
<1>2. /\ slot = Len(slots) + 1 /\ account = target /\ loaded /\ power' = "run"
      /\ Known /\ Len(slots) = atLaunch.count
  BY <1>1 DEF MIInv, Operating, Placing, Found
<1>3. Len(slots) \in 1 .. MaxSlots /\ slots \in Seq(Slot) /\ MaxSlots \in Nat
      /\ default \in 1 .. Len(slots)
  BY Ranges
<1>4. r \in Slot /\ r.owner = account /\ ~r.linked
  BY DEF Slot, Owner, MIInv, MTypes, ServiceTypes
<1> HIDE DEF r
<1>5. /\ slots' \in Seq(Slot) /\ Len(slots') = Len(slots) + 1 /\ slots'[Len(slots) + 1] = r
      /\ \A i \in 1 .. Len(slots) : slots'[i] = slots[i]
  <2>1. slots' = Append(slots, r)
    BY <1>1
  <2> QED
    BY <1>3, <1>4, <2>1, AppendProperties
<1>6. Shape'
  <2>0. Len(slots) < MaxSlots /\ default' = default
    BY <1>1
  <2>1. Len(slots') \in 1 .. MaxSlots
    BY <1>3, <1>5, <2>0
  <2>2. default' \in 1 .. Len(slots')
    BY <1>3, <1>5, <2>0
  <2> QED
    BY <1>5, <2>1, <2>2 DEF Shape
<1>7. MTypes'
  <2>1. call' \in Call
    BY <1>1 DEF Call, createAccount, switchAccounts
  <2>2. ScreenTypes' /\ OperationTypes'
    BY <1>1, <2>1, CallTypes DEF MIInv, MTypes, OperationTypes
  <2>3. ServiceTypes'
    BY <1>1 DEF MIInv, MTypes, ServiceTypes, frd
  <2> QED
    BY <2>2, <2>3 DEF MTypes
<1>8. Operating'
  <2>1. after = "end" => target \in atLaunch.friends
    BY <1>1 DEF MIInv, Operating, Placing
  <2>2. Kind'
    BY <1>1 DEF MIInv, Operating, Kind, repairAccount
  <2>3. Preparing'
    BY <1>1 DEF MIInv, Operating, Preparing, unloadAccount
  <2>4. Placing'
    <3>1. slot' = Len(slots') /\ slots'[slot'].owner = target' /\ ~slots'[slot'].linked
      BY <1>1, <1>2, <1>4, <1>5
    <3>2. \A i \in 1 .. Len(slots') :
            i # slot' => slots'[i].committed \/ i \in atLaunch'.pending
      <4>1. \A i \in 1 .. Len(slots') : i # slot' => i \in 1 .. Len(slots)
        <5>1. slot' = Len(slots) + 1
          BY <1>1, <1>2
        <5> QED
          BY <1>3, <1>5, <5>1
      <4> QED
        BY <1>1, <1>2, <1>5, <4>1 DEF Known
    <3>3. Unlinked(slot)'
      BY <3>1 DEF Unlinked
    <3> QED
      BY <1>1, <1>2, <2>1, <3>1, <3>2, <3>3 DEF Placing, frd
  <2> QED
    BY <1>1, <1>2, <2>2, <2>3, <2>4 DEF Operating, Placed
<1>9. Clean' /\ Noticed' /\ RepairIsRemembered'
  BY <1>1, <1>2 DEF MIInv, Clean, Noticed, RepairIsRemembered, frd, screen
<1>10. Asked'
  <2>1. 1 .. Len(slots) \subseteq 1 .. Len(slots')
    BY <1>3, <1>5
  <2>2. power = "run"
    BY <1>1 DEF MIInv, Operating
  <2> QED
    BY <1>1, <2>1, <2>2 DEF MIInv, Asked, pnid
<1>11. \A i \in 1 .. Len(slots) : i \in 1 .. Len(slots')
  BY <1>3, <1>5
<1> QED
  BY <1>5, <1>6, <1>7, <1>8, <1>9, <1>10, <1>11 DEF MIInv

LEMMA CommittingSlot ==
  ASSUME MIInv, CommitConsoleAccount
  PROVE  /\ MIInv' /\ Len(slots') = Len(slots)
         /\ \A i \in 1 .. Len(slots) : slots'[i].linked = slots[i].linked
<1>1. /\ UNCHANGED <<frd, default, console, exclusive, slot, pidhmac, power,
                     screen, pnid, atLaunch,
                     misled, doing, target, after>>
      /\ doing # "none" /\ call = "commit slot" /\ call' = "set default"
      /\ slots' = [slots EXCEPT ![slot].committed = TRUE]
  BY DEF CommitConsoleAccount, Turn, Then, Still
<1>2. /\ slot = Len(slots) /\ account = target /\ loaded /\ power' = "run"
      /\ slots[slot].owner = target /\ Unlinked(slot)
      /\ \A i \in 1 .. Len(slots) :
           i # slot => slots[i].committed \/ i \in atLaunch.pending
  BY <1>1 DEF MIInv, Operating, Placing
<1>3. Len(slots) \in 1 .. MaxSlots /\ slots \in Seq(Slot) /\ MaxSlots \in Nat
  BY Ranges
<1> DEFINE r == [slots[slot] EXCEPT !.committed = TRUE]
<1>4. slot \in 1 .. Len(slots) /\ slots[slot] \in Slot
  BY <1>2, <1>3
<1>5. /\ r \in Slot /\ r.owner = slots[slot].owner /\ r.committed
      /\ r.linked = slots[slot].linked
  BY <1>4 DEF Slot
<1>6. slots' = [slots EXCEPT ![slot] = r]
  BY <1>1
<1> HIDE DEF r
<1>7. /\ Shape' /\ Len(slots') = Len(slots) /\ slots'[slot] = r
      /\ \A i \in 1 .. Len(slots) : i # slot => slots'[i] = slots[i]
  BY <1>1, <1>4, <1>5, <1>6, SlotsSet DEF MIInv
<1>8. Known'
  BY <1>1, <1>2, <1>5, <1>7 DEF Known
<1>9. MTypes'
  <2>1. call' \in Call
    BY <1>1 DEF Call, createAccount, switchAccounts
  <2>2. ScreenTypes' /\ OperationTypes'
    BY <1>1, <2>1, CallTypes DEF MIInv, MTypes, OperationTypes
  <2>3. ServiceTypes'
    BY <1>1 DEF MIInv, MTypes, ServiceTypes, frd
  <2> QED
    BY <2>2, <2>3 DEF MTypes
<1>10. Operating'
  <2>1. after = "end" => target \in atLaunch.friends
    BY <1>1 DEF MIInv, Operating, Placing
  <2>2. Kind'
    BY <1>1 DEF MIInv, Operating, Kind, repairAccount
  <2>3. Preparing'
    BY <1>1 DEF MIInv, Operating, Preparing, unloadAccount
  <2>4. Placing'
    <3>1. /\ slot' \in 1 .. Len(slots') /\ slots'[slot'].owner = target'
          /\ Unlinked(slot)'
      BY <1>1, <1>2, <1>4, <1>5, <1>7 DEF Unlinked
    <3> QED
      BY <1>1, <1>2, <1>8, <2>1, <3>1 DEF Placing, frd
  <2> QED
    BY <1>1, <1>2, <2>2, <2>3, <2>4 DEF Operating, Placed
<1>11. Clean' /\ Noticed' /\ Asked' /\ RepairIsRemembered'
  BY <1>1, <1>2, <1>7 DEF MIInv, Clean, Noticed, Asked, RepairIsRemembered,
     frd, screen, pnid
<1>12. \A i \in 1 .. Len(slots) : slots'[i].linked = slots[i].linked
  BY <1>5, <1>7
<1> QED
  BY <1>7, <1>9, <1>10, <1>11, <1>12 DEF MIInv

LEMMA SettingDefault ==
  ASSUME MIInv, SetDefaultAccount
  PROVE  MIInv'
<1>1. /\ UNCHANGED <<frd, slots, exclusive, slot, pidhmac, power, screen,
                     pnid, atLaunch, misled, doing,
                     target, after>>
      /\ doing # "none" /\ call = "set default" /\ call' = after
      /\ default' = slot /\ console' = TRUE
  BY DEF SetDefaultAccount, Turn, Then, Still
<1>2. /\ Known /\ slot \in 1 .. Len(slots) /\ slots[slot].owner = target /\ Unlinked(slot)
      /\ account = target /\ loaded
      /\ after = "end" => target \in atLaunch.friends
  BY <1>1 DEF MIInv, Operating, Placing
<1>3. after \in {"end", "unbind", "leave exclusive"}
  BY DEF MIInv, MTypes, OperationTypes
<1>4. call' \in Call
  BY <1>1, <1>3 DEF Call, createAccount, repairAccount
<1>5. Shape' /\ Known' /\ power' = "run"
  BY <1>1, <1>2, SlotsKept DEF MIInv, Shape, Operating
<1>6. MTypes'
  <2>1. default' \in 1 .. MaxSlots
    <3>1. Len(slots) \in 1 .. MaxSlots /\ MaxSlots \in Nat
      BY Ranges
    <3>2. slot \in 1 .. Len(slots)
      BY <1>2
    <3>3. slot \in 1 .. MaxSlots
      BY <3>1, <3>2
    <3> QED
      BY <1>1, <3>3
  <2>2. ScreenTypes' /\ OperationTypes'
    BY <1>1, <1>3, <1>4, CallTypes DEF MIInv, MTypes, OperationTypes
  <2>3. ServiceTypes'
    BY <1>1, <2>1 DEF MIInv, MTypes, ServiceTypes, frd
  <2> QED
    BY <2>2, <2>3 DEF MTypes
<1>7. Operating'
  <2>1. Kind'
    BY <1>1, <1>3 DEF MIInv, Operating, Kind, repairAccount
  <2>2. Preparing'
    BY <1>1, <1>3 DEF MIInv, Operating, Preparing, unloadAccount
  <2>3. Placing'
    BY <1>1, <1>3 DEF Placing
  <2>4. Placed'
    BY <1>1, <1>2, <1>5 DEF Placed, Unlinked, frd
  <2> QED
    BY <1>5, <2>1, <2>2, <2>3, <2>4 DEF Operating
<1>8. Clean' /\ Noticed' /\ Asked' /\ RepairIsRemembered'
  BY <1>1, <1>5 DEF MIInv, Clean, Noticed, Asked, RepairIsRemembered, frd, screen, pnid
<1> QED
  BY <1>5, <1>6, <1>7, <1>8 DEF MIInv

(* The end of a creation: the slot of the account's number is unlinked.    *)
LEMMA UnbindingServer ==
  ASSUME MIInv, UnbindServerAccount
  PROVE  /\ MIInv' /\ Len(slots') = Len(slots)
         /\ doing = "switch" /\ target \in 1 .. Len(slots) /\ target \notin atLaunch.friends
         /\ \A i \in 1 .. Len(slots) : i # target => slots'[i] = slots[i]
<1>1. /\ UNCHANGED <<frd, default, console, exclusive, slot, pidhmac, power,
                     screen, pnid, atLaunch,
                     misled, doing, target, after>>
      /\ doing # "none" /\ call = "unbind" /\ call' = "end" /\ Unbind(target)
      /\ target <= Len(slots)
  BY DEF UnbindServerAccount, Turn, Then, Still
<1>2. doing = "switch" /\ after = "unbind"
  BY <1>1 DEF MIInv, Operating, Kind, Placed, MTypes, OperationTypes
<1>3. /\ account = target /\ loaded /\ console /\ Known /\ power' = "run"
      /\ slots[default].owner = target /\ Unlinked(default) /\ target \notin atLaunch.friends
  BY <1>1, <1>2 DEF MIInv, Operating, Placed, Preparing
<1>4. target \in 1 .. Len(slots) /\ default \in 1 .. Len(slots)
  BY <1>1, Ranges
<1>5. /\ Shape' /\ Known' /\ Len(slots') = Len(slots) /\ ~slots'[target].linked
      /\ \A i \in 1 .. Len(slots) : i # target => slots'[i] = slots[i]
      /\ slots'[default].owner = target
  BY <1>1, <1>3, <1>4, Unbinding DEF MIInv
<1>6. MTypes'
  <2>1. call' \in Call
    BY <1>1 DEF Call
  <2>2. ScreenTypes' /\ OperationTypes'
    BY <1>1, <2>1, CallTypes DEF MIInv, MTypes, OperationTypes
  <2>3. ServiceTypes'
    BY <1>1 DEF MIInv, MTypes, ServiceTypes, frd
  <2> QED
    BY <2>2, <2>3 DEF MTypes
<1>7. Operating'
  <2>1. Kind' /\ Preparing' /\ Placing'
    BY <1>1, <1>2, <1>3 DEF Kind, Preparing, Placing, unloadAccount,
       repairAccount
  <2>2. atLaunch.count \in Nat
    BY Ranges DEF MIInv, MTypes, ServiceTypes, Opened
  <2>3. Unlinked(default)'
    BY <1>1, <1>3, <1>4, <1>5, <2>2 DEF Unlinked
  <2>4. ~slots'[default].linked \/ (default <= atLaunch.count /\ default # target)
    BY <1>1, <1>3, <1>4, <1>5, <2>2, <2>3 DEF Unlinked
  <2>5. Placed'
    BY <1>1, <1>3, <1>5, <2>3, <2>4 DEF Placed, frd
  <2> QED
    BY <1>3, <2>1, <2>5 DEF Operating
<1>8. Clean' /\ Noticed' /\ Asked' /\ RepairIsRemembered'
  BY <1>1, <1>3, <1>5 DEF MIInv, Clean, Noticed, Asked, RepairIsRemembered,
     frd, screen, pnid
<1> QED
  BY <1>2, <1>3, <1>4, <1>5, <1>6, <1>7, <1>8 DEF MIInv

(* The calls of the repair: the last one is reached with the new HMAC.     *)
LEMMA Repairing ==
  ASSUME MIInv,
         LeaveExclusiveState \/ GetNewHMAC \/ TerminateFriends \/ ReplaceHMAC \/ WritePidhmac
  PROVE  MIInv'
<1>1. /\ UNCHANGED <<friends, account, act, slot, power, screen, pnid,
                     atLaunch, misled, doing, target,
                     after>>
      /\ loaded' \in BOOLEAN /\ exclusive' \in BOOLEAN
      /\ doing # "none" /\ call \in repairAccount
      /\ \/ call' \in {"get HMAC", "terminate friends", "write HMAC"}
            /\ UNCHANGED <<hmac, pidhmac>>
         \/ call' = "write pidhmac" /\ hmac' = TRUE /\ UNCHANGED pidhmac
         \/ call = "write pidhmac" /\ call' = "end" /\ UNCHANGED hmac /\ pidhmac' = TRUE
  BY DEF LeaveExclusiveState, GetNewHMAC, TerminateFriends,
     ReplaceHMAC, WritePidhmac, Turn, Then,
     Still, frd, repairAccount, MIInv, MTypes, ServiceTypes
<1>2. doing = "repair" /\ (call = "write pidhmac" => hmac)
  BY <1>1 DEF MIInv, Operating, Kind, MTypes, OperationTypes
<1>3. call' \in {"get HMAC", "terminate friends", "write HMAC", "write pidhmac", "end"}
  BY <1>1
<1>4. call' \in Call
  BY <1>3 DEF Call, repairAccount
<1>5. /\ Shape' /\ Known' = Known /\ Found' = Found /\ power' = "run"
      /\ ScreenTypes' /\ OperationTypes' /\ Clean' /\ Noticed' /\ Asked'
  BY <1>1, <1>4, Calling DEF act, MIInv, MTypes, OperationTypes
<1>6. MTypes'
  BY <1>1, <1>5 DEF MIInv, MTypes, ServiceTypes, act
<1>7. Operating'
  <2>1. Kind'
    BY <1>1, <1>2, <1>3 DEF MIInv, Operating, Kind
  <2>2. Preparing' /\ Placing' /\ Placed'
    BY <1>1, <1>2, <1>3, <2>1 DEF Preparing, Placing, Placed, Kind, unloadAccount
  <2> QED
    BY <1>5, <2>1, <2>2 DEF Operating
<1>8. RepairIsRemembered'
  <2>1. CASE UNCHANGED <<hmac, pidhmac>>
    BY <1>1, <2>1 DEF MIInv, RepairIsRemembered
  <2>2. CASE hmac'
    BY <2>2 DEF RepairIsRemembered
  <2>3. CASE call = "write pidhmac" /\ UNCHANGED hmac
    BY <1>2, <2>3 DEF RepairIsRemembered
  <2> QED
    BY <1>1, <2>1, <2>2, <2>3
<1> QED
  BY <1>5, <1>6, <1>7, <1>8 DEF MIInv

LEMMA Failing ==
  ASSUME MIInv, CallFails
  PROVE  MIInv'
<1>1. /\ UNCHANGED <<frd, act, exclusive, slot, pidhmac, power, screen,
                     pnid, atLaunch, misled, doing,
                     target, after>>
      /\ doing # "none"
      /\ call' = "failed" \/ (doing = "repair" /\ call' = "leave exclusive")
  BY DEF CallFails, Then, Still
<1>2. call' \in Call
  BY <1>1 DEF Call, repairAccount
<1>3. /\ Shape' /\ Known' = Known /\ Found' = Found /\ power' = "run"
      /\ ScreenTypes' /\ OperationTypes' /\ Clean' /\ Noticed' /\ Asked'
  BY <1>1, <1>2, Calling DEF act, MIInv, MTypes, OperationTypes
<1>4. MTypes'
  BY <1>1, <1>3 DEF MIInv, MTypes, ServiceTypes, frd, act
<1>5. Operating'
  <2>1. Kind'
    BY <1>1 DEF MIInv, Operating, Kind, repairAccount
  <2>2. Preparing' /\ Placing' /\ Placed'
    BY <1>1, <2>1 DEF Preparing, Placing, Placed, Kind, unloadAccount
  <2> QED
    BY <1>3, <2>1, <2>2 DEF Operating
<1>6. RepairIsRemembered'
  BY <1>1 DEF MIInv, RepairIsRemembered, frd
<1> QED
  BY <1>3, <1>4, <1>5, <1>6 DEF MIInv

(* An operation that is over asks for a restart. *)
LEMMA Ending ==
  ASSUME MIInv, OperationFails \/ RepairEnds \/ SwitchEnds
  PROVE  MIInv'
<1>1. /\ UNCHANGED <<frd, act, exclusive, pidhmac, repairChecked,
                     currentAccount, pnid, target, slot,
                     atLaunch, misled>>
      /\ doing # "none" /\ doing' = "none" /\ needsReboot' = TRUE
      /\ \/ noticed' = TRUE /\ UNCHANGED power
         \/ UNCHANGED noticed /\ power' = "reboot"
      /\ UNCHANGED <<call, after>> \/ (call' = "end" /\ after' = "end")
  BY DEF OperationFails, RepairEnds, SwitchEnds, Ended, Leaves
<1>2. Shape' /\ power = "run"
  BY <1>1, SlotsKept DEF MIInv, act, Operating
<1>3. MTypes'
  <2>1. ServiceTypes'
    BY <1>1 DEF MIInv, MTypes, ServiceTypes, frd, act
  <2>2. noticed' \in BOOLEAN /\ power' \in {"off", "run", "reboot"}
    BY <1>1 DEF MIInv, MTypes, ScreenTypes
  <2>3. ScreenTypes'
    BY <1>1, <2>2 DEF MIInv, MTypes, ScreenTypes, pnid
  <2>4. call' \in Call /\ after' \in {"end", "unbind", "leave exclusive"}
    BY <1>1 DEF MIInv, MTypes, OperationTypes, Call
  <2>5. OperationTypes'
    BY <1>1, <2>4 DEF MIInv, MTypes, OperationTypes
  <2> QED
    BY <2>1, <2>3, <2>5 DEF MTypes
<1>4. Clean' /\ Noticed' /\ Operating'
  BY <1>1, <1>2 DEF Clean, Noticed, Operating
<1>5. Asked' /\ RepairIsRemembered'
  BY <1>1, <1>2 DEF MIInv, Asked, RepairIsRemembered, frd, act, pnid
<1> QED
  BY <1>2, <1>3, <1>4, <1>5 DEF MIInv

LEMMA MInvariance ==
  ASSUME MIInv, [MainNext]_mainVars
  PROVE  MIInv'
<1>1. CASE MainNext
  BY <1>1, Opening, RepairChecks, Pressing, OtherKeys, Unloading, Loading, FindingSlot,
     CreatingSlot,
     CommittingSlot, SettingDefault, UnbindingServer, Repairing, Failing, Ending
     DEF MainNext, Keys, Calls
<1>2. CASE UNCHANGED mainVars
  <2>1. /\ UNCHANGED <<frd, act, exclusive, pidhmac, power, screen,
                       pnid, op, atLaunch, misled>>
    BY <1>2 DEF mainVars
  <2>2. Shape' /\ Known' = Known /\ Found' = Found
    BY <2>1, SlotsKept DEF MIInv, act
  <2>3. ServiceTypes'
    BY <2>1 DEF MIInv, MTypes, ServiceTypes, frd, act
  <2>4. ScreenTypes' /\ OperationTypes'
    BY <2>1, CallTypes DEF MIInv, MTypes, OperationTypes, op
  <2>5. Clean' /\ Noticed' /\ Asked' /\ RepairIsRemembered'
    BY <2>1, <2>2 DEF MIInv, Clean, AsFound, Noticed, Asked, RepairIsRemembered,
       frd, act, screen, pnid, op
  <2>6. Operating'
    BY <2>1, <2>2 DEF MIInv, Operating, Kind, Preparing, Placing, Placed, Unlinked, frd,
       act, op
  <2> QED
    BY <2>2, <2>3, <2>4, <2>5, <2>6 DEF MIInv, MTypes
<1> QED
  BY <1>1, <1>2

-----------------------------------------------------------------------------
(* What the runs check of the main screen.                                 *)

(* Every reachable state of the main screen has the types of MainTypeOK.   *)
THEOREM MainTypeCorrect == MainSpec => []MainTypeOK
<1>1. MIInv => MainTypeOK
  <2> SUFFICES ASSUME MIInv PROVE MainTypeOK
    OBVIOUS
  <2>1. default # 0 /\ default \in 0 .. MaxSlots /\ default \in 1 .. MaxSlots
    BY Ranges
  <2>2. {default, pnidAccountSlot, agreed} \subseteq 0 .. MaxSlots
    BY <2>1 DEF MIInv, MTypes, ScreenTypes
  <2>3. {loaded, console, exclusive, hmac, pidhmac, needsReboot, repairChecked, noticed,
         retPNID, prompt, misled} \subseteq BOOLEAN
    BY DEF MIInv, MTypes, ServiceTypes, ScreenTypes
  <2>4. /\ atLaunch.account \in Account /\ atLaunch.default \in 1 .. MaxSlots
        /\ atLaunch.friends \subseteq Account /\ atLaunch.count \in 1 .. MaxSlots
        /\ atLaunch.pending \subseteq 1 .. MaxSlots
    BY DEF MIInv, MTypes, ServiceTypes, Opened
  <2>5. slots \in Seq(Slot) /\ Len(slots) <= MaxSlots
    BY Ranges
  <2> QED
    BY <2>1, <2>2, <2>3, <2>4, <2>5
    DEF MainTypeOK, MIInv, MTypes, ServiceTypes, ScreenTypes, OperationTypes
<1> QED
  BY MInitial, MInvariance, <1>1, PTL DEF MainSpec

(* Whoever leaves the app without a restart leaves the services as the app *)
(* found them.                                                             *)
THEOREM LeavesAsFound == MainSpec => []HalfDoneRestarts
<1>1. MIInv => HalfDoneRestarts
  BY DEF MIInv, Clean, AsFound, HalfDoneRestarts
<1> QED
  BY MInitial, MInvariance, <1>1, PTL DEF MainSpec

(* A switch that works leaves both services on the chosen account, in a    *)
(* slot committed unless it was found without, wherever the slots are.     *)
THEOREM SwitchWorks == MainSpec => []SwitchedIsWhole
<1>1. MIInv => SwitchedIsWhole
  <2> SUFFICES ASSUME MIInv PROVE SwitchedIsWhole
    OBVIOUS
  <2>1. default \in 1 .. Len(slots) /\ default <= Len(slots)
    BY Ranges
  <2> QED
    BY <2>1 DEF MIInv, Operating, Placed, Known, SwitchedIsWhole
<1> QED
  BY MInitial, MInvariance, <1>1, PTL DEF MainSpec

(* The file .pidhmac never hides an account that the check could see.      *)
THEOREM RemembersRepair == MainSpec => []RepairIsRemembered
<1>1. MIInv => RepairIsRemembered
  BY DEF MIInv
<1> QED
  BY MInitial, MInvariance, <1>1, PTL DEF MainSpec

(* Only the slot that the question names, or that with the number of an    *)
(* account being created, loses its PNID.                                  *)
LEMMA LosesPnid ==
  ASSUME MIInv, [MainNext]_mainVars, NEW s \in 1 .. Len(slots),
         s \in 1 .. Len(slots'), slots[s].linked, ~slots'[s].linked
  PROVE  \/ s = agreed
         \/ doing = "switch" /\ s = target /\ target \notin atLaunch.friends
<1>1. ~UNCHANGED slots
  OBVIOUS
<1>2. \/ Boot \/ ApplyPatches \/ PromptYes
      \/ CreateConsoleAccount \/ CommitConsoleAccount \/ UnbindServerAccount
  <2>1. [MainNext]_<<act>>
    BY DEF mainVars
  <2> QED
    BY <1>1, <2>1 DEF MainNext, Keys, Calls, act, Launch,
       MainReboot, PowerOff, RepairCheck, Start, PressX,
       PromptNo, PressAccount, UnloadConsoleAccount,
       EnterExclusiveState, UnloadLocalAccount,
       LoadLocalAccount, LocalAccountNotExists, CreateLocalAccount,
       FindSlot, SetDefaultAccount,
       LeaveExclusiveState, GetNewHMAC, TerminateFriends,
       ReplaceHMAC, WritePidhmac, CallFails,
       OperationFails, RepairEnds, SwitchEnds
<1>3. ~Boot
  BY Booting
<1>4. ~ApplyPatches
  BY Applying DEF MIInv
<1>5. ~CreateConsoleAccount
  BY CreatingSlot
<1>6. ~CommitConsoleAccount
  BY CommittingSlot
<1>7. CASE PromptYes
  <2>1. Unbind(pnidAccountSlot) /\ prompt /\ power = "run"
    BY <1>1, <1>7 DEF PromptYes, Frame, Ready
  <2>2. pnidAccountSlot \in 1 .. Len(slots) /\ agreed = pnidAccountSlot
    BY <2>1 DEF MIInv, Asked
  <2>3. s = pnidAccountSlot
    BY <1>7, <2>1, <2>2, Unbinding DEF MIInv, PromptYes
  <2> QED
    BY <2>2, <2>3
<1>8. CASE UnbindServerAccount
  <2>1. /\ doing = "switch" /\ target \notin atLaunch.friends
        /\ s # target => slots'[s] = slots[s]
    BY <1>8, UnbindingServer
  <2> QED
    BY <2>1
<1> QED
  BY <1>2, <1>3, <1>4, <1>5, <1>6, <1>7, <1>8

(* No order of keys, failures and restarts takes another account's PNID.   *)
THEOREM OnlyAsked == MainSpec => OnlyAskedIsUnlinked
<1> DEFINE A == \A s \in 1 .. Len(slots) :
                  s \in 1 .. Len(slots') /\ slots[s].linked /\ ~slots'[s].linked =>
                    s = agreed \/ (doing = "switch" /\ s = target
                                   /\ target \notin atLaunch.friends)
<1>1. MIInv /\ [MainNext]_mainVars => A
  BY LosesPnid
<1>2. MIInv /\ [MainNext]_mainVars => [A]_mainVars
  BY <1>1
<1> QED
  BY MInitial, MInvariance, <1>2, PTL DEF MainSpec, OnlyAskedIsUnlinked
===============================================================================
