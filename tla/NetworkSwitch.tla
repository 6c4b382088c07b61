---------------------------- MODULE NetworkSwitch ----------------------------
(***************************************************************************)
(* The "Patch networks" screen (app/source/states/NetworkSwitch.cpp): its  *)
(* stages, the trust and consent questions, the blocking jobs and their    *)
(* unverified retry, and the part of MainUI that opens it and leaves the   *)
(* app.  One action is one frame with the keys pressed in it; what a job   *)
(* does to the card is PatchCache and PatchInstall, here it is an outcome. *)
(***************************************************************************)
EXTENDS Services

CONSTANTS MaxFaults,   \* bound: saves of state.txt that fail
          MaxLaunches  \* bound: times the app is opened

ASSUME SwitchAssumption == MaxFaults \in Nat /\ MaxLaunches \in Nat

VARIABLES
  stage, job, retryJob,     \* the names of NetworkSwitch.cpp
  workFrames,
  allowUnverifiedRetry, unverified, trustPending,
  state, sel,
  needsReboot, running,     \* MainStruct::needsReboot; is the app open?
  saved, rvta,              \* SD card: state.txt, is RvtA installed?
  spoiled,                  \* ghost: was state.txt ever cut short, or written by
                            \* an older version of the app?
  agreed,                   \* ghost: providers the player has ever trusted
  failed,                   \* ghost: what the message on screen is about
  launches, faults

screen == <<stage, job, retryJob, workFrames>>
flags  == <<allowUnverifiedRetry, unverified, trustPending>>
memory == <<state, sel>>
card   == <<saved, rvta, spoiled>>
bounds == <<launches, faults>>
vars   == <<screen, flags, memory, needsReboot, running, card, agreed, failed, bounds>>

presetCount  == Len(presets)
AnalyticsRow == presetCount + 1
AppRow       == presetCount + 2
Row          == 1 .. presetCount + 2
ThirdParty   == Source \ Owned

Stages == {"Closed", "Page", "Trust", "Working", "Message", "Consent"}
Jobs   == {"None", "Apply", "SelfUpdate"}

NoState == [selection |-> <<>>, trusted |-> {}, analytics |-> ""]
NoFailure == [job |-> "None", sel |-> <<>>, cert |-> FALSE]

(* An install from a provider that is not offered any more. *)
OldState == [selection |-> [s \in Service |-> "unknown"], trusted |-> {"unknown"}, analytics |-> ""]

installed(st) == st.selection # <<>>

TypeOK ==
  /\ stage \in Stages /\ job \in Jobs /\ retryJob \in Jobs
  /\ workFrames \in 0 .. 3
  /\ {allowUnverifiedRetry, unverified, needsReboot, running, rvta, spoiled} \subseteq BOOLEAN
  /\ trustPending \in ThirdParty \cup {""}
  /\ \A st \in {state, saved} :
       /\ DOMAIN st.selection \subseteq Service
       /\ \A s \in DOMAIN st.selection : st.selection[s] \in Value
       /\ st.trusted \subseteq ThirdParty \cup {"unknown"}
       /\ st.analytics \in {"", "on", "off"}
  /\ sel = <<>> \/ sel \in [Service -> Source \cup {Off}]
  /\ agreed \subseteq ThirdParty
  /\ launches \in 0 .. MaxLaunches /\ faults \in 0 .. MaxFaults

Init ==
  /\ stage = "Closed" /\ job = "None" /\ retryJob = "None"
  /\ workFrames = 0
  /\ allowUnverifiedRetry = FALSE /\ unverified = FALSE /\ trustPending = ""
  /\ state = NoState /\ sel = <<>>
  /\ needsReboot = FALSE /\ running = FALSE
  /\ saved \in {NoState, OldState} /\ spoiled = (saved = OldState)
  /\ rvta \in BOOLEAN
  /\ agreed = {} /\ failed = NoFailure
  /\ launches = 0 /\ faults = 0

-------------------------------------------------------------------------------
(* What is left of a text whose end is missing: it holds the selection, the *)
(* trusted ids and the answer.                                              *)
Truncated(st) ==
  {[selection |-> s, trusted |-> {}, analytics |-> ""] : s \in Beginnings(st.selection)} \cup
  {[st EXCEPT !.trusted = t, !.analytics = ""] : t \in SUBSET st.trusted}

(* saveState.  The write is not checked: the file may keep its old text, or *)
(* be cut anywhere.                                                         *)
Save(st) ==
  \/ saved' = st /\ UNCHANGED <<spoiled, faults>>
  \/ /\ faults < MaxFaults
     /\ faults' = faults + 1
     /\ \/ UNCHANGED <<saved, spoiled>>
        \/ saved' \in Truncated(st) /\ spoiled' = TRUE

(* Mutant: an earlier offer to retry survives a later message. *)
showMessage_KeepsOffer(offer) ==
  /\ stage' = "Message"
  /\ allowUnverifiedRetry' = (offer \/ allowUnverifiedRetry)

showMessage(offer) ==
  /\ stage' = "Message"
  /\ allowUnverifiedRetry' = offer

(* The frame that starts a job also counts as its first one. *)
startWork(j) ==
  /\ job' = j
  /\ workFrames' = 1
  /\ stage' = "Working"

(* Mutant: who has trusted one provider is not asked about the next. *)
ApplyIfTrusted_AnyOne(st, selection) ==
  LET ask == IF st.trusted = {} THEN providersUsed(selection) \cap ThirdParty ELSE {}
  IN  IF ask = {}
      THEN startWork("Apply") /\ UNCHANGED trustPending
      ELSE /\ trustPending' \in ask
           /\ stage' = "Trust"
           /\ UNCHANGED <<job, workFrames>>

(* askTrustIfNeeded, else startWork. *)
ApplyIfTrusted(st, selection) ==
  LET ask == (providersUsed(selection) \cap ThirdParty) \ st.trusted
  IN  IF ask = {}
      THEN startWork("Apply") /\ UNCHANGED trustPending
      ELSE /\ trustPending' \in ask
           /\ stage' = "Trust"
           /\ UNCHANGED <<job, workFrames>>

(* setAnalytics(on).  Turning it on applies the installed network again. *)
setAnalytics(on) ==
  /\ state' = [state EXCEPT !.analytics = IF on THEN "on" ELSE "off"]
  /\ Save(state')
  /\ failed' = NoFailure
  /\ IF on
     THEN /\ UNCHANGED <<rvta, needsReboot>>
          /\ IF installed(state)
             THEN /\ sel' = normalized(state.selection)
                  /\ startWork("Apply")
                  /\ UNCHANGED allowUnverifiedRetry
             ELSE /\ showMessage(FALSE)
                  /\ UNCHANGED <<sel, job, workFrames>>
     ELSE /\ rvta' \in {FALSE, rvta}      \* nobody asks whether it was removed
          /\ needsReboot' = (needsReboot \/ rvta)
          /\ IF rvta
             THEN showMessage(FALSE)
             ELSE /\ stage' = IF stage = "Consent" THEN "Closed" ELSE "Page"
                  /\ UNCHANGED allowUnverifiedRetry
          /\ UNCHANGED <<sel, job, workFrames>>
  /\ UNCHANGED <<retryJob, unverified, trustPending, running, agreed, launches>>

-------------------------------------------------------------------------------
(* The app is opened: a new process, then onStartup. *)
Launch ==
  /\ ~running
  /\ launches < MaxLaunches
  /\ launches' = launches + 1
  /\ running' = TRUE
  /\ state' = saved
  /\ sel' = <<>>
  /\ rvta' \in {rvta, rvta /\ saved.analytics # "off"}
  /\ stage' = IF saved.analytics = "" THEN "Consent" ELSE "Closed"
  /\ job' = "None" /\ retryJob' = "None"
  /\ workFrames' = 0
  /\ allowUnverifiedRetry' = FALSE /\ unverified' = FALSE /\ trustPending' = ""
  /\ needsReboot' = FALSE
  /\ failed' = NoFailure
  /\ UNCHANGED <<saved, spoiled, agreed, faults>>

(* START, on every screen; the console reboots when that is needed. *)
Exit ==
  /\ running
  /\ running' = FALSE
  /\ UNCHANGED <<screen, flags, memory, needsReboot, card, agreed, failed, bounds>>

(* SELECT on the main screen: open. *)
Open ==
  /\ running /\ stage = "Closed"
  /\ ~needsReboot
  /\ state' = saved
  /\ unverified' = FALSE
  /\ stage' = "Page"
  /\ UNCHANGED <<job, retryJob, workFrames, allowUnverifiedRetry, trustPending, sel, needsReboot,
                 running, card, agreed, failed, bounds>>

(* Page.  UP, DOWN and the touch screen only move the cursor, then B      *)
(* closes the page or A selects the row the cursor is on.                 *)
PageClose ==
  /\ running /\ stage = "Page"
  /\ stage' = "Closed"
  /\ UNCHANGED <<job, retryJob, workFrames, flags, memory, needsReboot, running, card, agreed,
                 failed, bounds>>

PageSelect(row) ==
  /\ running /\ stage = "Page"
  /\ \/ /\ row = AppRow
        /\ startWork("SelfUpdate")
        /\ UNCHANGED <<retryJob, flags, memory, needsReboot, running, card, agreed, failed, bounds>>
     \/ /\ row = AnalyticsRow
        /\ setAnalytics(state.analytics # "on")
     \/ /\ row \in 1 .. presetCount
        /\ sel' = selectionForPreset(presets[row])
        /\ ApplyIfTrusted(state, sel')
        /\ UNCHANGED <<retryJob, allowUnverifiedRetry, unverified, state, needsReboot, running,
                       card, agreed, failed, bounds>>

ConsentAnswer(on) ==
  /\ running /\ stage = "Consent"
  /\ setAnalytics(on)

TrustCancel ==
  /\ running /\ stage = "Trust"
  /\ stage' = "Page"
  /\ UNCHANGED <<job, retryJob, workFrames, flags, memory, needsReboot, running, card,
                 agreed, failed, bounds>>

(* A, also when B is pressed in the same frame. *)
TrustAgree ==
  /\ running /\ stage = "Trust"
  /\ state' = [state EXCEPT !.trusted = @ \cup {trustPending}]
  /\ Save(state')
  /\ agreed' = agreed \cup {trustPending}
  /\ ApplyIfTrusted(state', sel)
  /\ UNCHANGED <<retryJob, allowUnverifiedRetry, unverified, sel, needsReboot, running,
                 rvta, failed, launches>>

MessageBack ==
  /\ running /\ stage = "Message"
  /\ stage' = "Page"
  /\ UNCHANGED <<job, retryJob, workFrames, flags, memory, needsReboot, running, card,
                 agreed, failed, bounds>>

(* Y, also when B is pressed in the same frame. *)
MessageRetry ==
  /\ running /\ stage = "Message"
  /\ allowUnverifiedRetry
  /\ unverified' = TRUE
  /\ startWork(retryJob)
  /\ UNCHANGED <<retryJob, allowUnverifiedRetry, trustPending, memory, needsReboot,
                 running, card, agreed, failed, bounds>>

-------------------------------------------------------------------------------
(* The "Working" screen is shown for a few frames before the job blocks. *)
WorkingFrame ==
  /\ running /\ stage = "Working"
  /\ workFrames < 2
  /\ workFrames' = workFrames + 1
  /\ UNCHANGED <<stage, job, retryJob, flags, memory, needsReboot, running, card,
                 agreed, failed, bounds>>

(* Mutant: the job is cleared before it is kept for the retry. *)
runJob_ClearsFirst(j) ==
  /\ running /\ stage = "Working"
  /\ workFrames = 2
  /\ workFrames' = 3
  /\ job = j
  /\ job' = "None"
  /\ retryJob' = job'
  /\ UNCHANGED <<unverified, trustPending, sel, running, agreed, launches>>

(* runJob: the part that does not depend on how the job ends. *)
runJob(j) ==
  /\ running /\ stage = "Working"
  /\ workFrames = 2
  /\ workFrames' = 3
  /\ job = j
  /\ retryJob' = job
  /\ job' = "None"
  /\ UNCHANGED <<unverified, trustPending, sel, running, agreed, launches>>

(* A failure; only one of the server's certificate, met while verifying,   *)
(* offers the retry.                                                       *)
Failure(cert) ==
  /\ showMessage(cert /\ ~unverified)
  /\ failed' = [job |-> job, sel |-> sel, cert |-> cert]
  /\ UNCHANGED <<state, needsReboot, saved, spoiled, faults>>

(* runApply.  A failed install may have replaced or removed RvtA already. *)
ApplyFails ==
  /\ runJob("Apply")
  /\ \E cert \in BOOLEAN :
       /\ Failure(cert)
       /\ rvta' \in IF cert THEN {rvta} ELSE {rvta, state.analytics = "on"}

ApplyDone ==
  /\ runJob("Apply")
  /\ state' = [state EXCEPT !.selection = sel]
  /\ Save(state')
  /\ rvta' = (state.analytics = "on")
  /\ needsReboot' = TRUE
  /\ stage' = "Closed"
  /\ UNCHANGED <<allowUnverifiedRetry, failed>>

(* runSelfUpdate: a failed check or download, or the newest version already. *)
UpdateFails ==
  /\ runJob("SelfUpdate")
  /\ \E cert \in BOOLEAN : Failure(cert)
  /\ UNCHANGED rvta

UpdateDone ==
  /\ runJob("SelfUpdate")
  /\ stage' = "Closed"
  /\ UNCHANGED <<allowUnverifiedRetry, state, needsReboot, card, failed, faults>>

Next ==
  \/ Launch \/ Exit \/ Open \/ PageClose
  \/ \E row \in Row : PageSelect(row)
  \/ \E on \in BOOLEAN : ConsentAnswer(on)
  \/ TrustCancel \/ TrustAgree \/ MessageBack \/ MessageRetry
  \/ WorkingFrame \/ ApplyFails \/ ApplyDone \/ UpdateFails \/ UpdateDone

Spec == Init /\ [][Next]_vars

-------------------------------------------------------------------------------
(* "Third-party providers must be trusted by the user once before anything *)
(* is downloaded from them" (NetworkSwitch.cpp:104): whatever way a job was *)
(* started and whatever is left of state.txt, the player has agreed to each *)
(* provider it will use.  The one exception is the base network, with which *)
(* normalized fills in what a text that was cut short, or an older one,     *)
(* does not tell: turning analytics on then downloads it unasked.           *)
TrustedBeforeDownload ==
  stage = "Working" /\ job = "Apply" =>
    providersUsed(sel) \cap ThirdParty \subseteq agreed \cup (IF spoiled THEN {Base} ELSE {})

(* Certificates stop being verified only as the answer to a message about a *)
(* failed certificate: no other message can offer it, in any order of jobs, *)
(* messages and screens.                                                    *)
UnverifiedOnlyAfterCertificate == [][unverified' /\ ~unverified => failed.cert]_vars

(* The retry runs the job that failed, with the selection it failed with,   *)
(* and no work is ever shown without a job.                                 *)
RetryRunsTheSame ==
  [][/\ stage' = "Working" => job' # "None"
     /\ stage = "Message" /\ stage' = "Working" => job' = failed.job /\ sel' = failed.sel]_vars

(* The comment as it stands (NetworkSwitch.cpp:104). *)
NothingUnasked ==
  stage = "Working" /\ job = "Apply" => providersUsed(sel) \cap ThirdParty \subseteq agreed

(* "Only allow user interaction when the system doesn't need a restart"    *)
(* (MainUI.cpp:674): no new job is started between a change that needs a   *)
(* reboot and that reboot.                                                 *)
NoWorkBeforeReboot == [][needsReboot /\ running' => ~(stage # "Working" /\ stage' = "Working")]_vars
==============================================================================
