------------------------- MODULE NetworkSwitchProofs -------------------------
(***************************************************************************)
(* Proofs about the "Patch networks" screen, for any number of launches    *)
(* and failed saves: what a retry repeats and when it may skip the         *)
(* certificates, and that nothing is downloaded unasked.  At the end, the  *)
(* life of a selection alone (SelectionPage), whatever state.txt may hold. *)
(***************************************************************************)
EXTENDS NetworkSwitch, SelectionPage, ServicesProofs

(* The part of a selection the player has to agree to. *)
ToTrust(selection) == providersUsed(selection) \cap ThirdParty

-------------------------------------------------------------------------------
(* Work that is shown has a job, and the offer to retry belongs to the     *)
(* message on the screen.                                                  *)
HasJob == stage = "Working" => job # "None"

Offer ==
  stage = "Message" /\ allowUnverifiedRetry =>
    failed.cert /\ retryJob = failed.job /\ retryJob # "None" /\ sel = failed.sel

RInv == HasJob /\ Offer

LEMMA ROther ==
  ASSUME RInv, Launch \/ Exit \/ Open \/ PageClose \/ TrustCancel \/ TrustAgree \/ MessageBack
                 \/ WorkingFrame \/ ApplyDone \/ UpdateDone \/ UNCHANGED vars
  PROVE  RInv'
<1> USE DEF RInv, HasJob, Offer
<1>1. CASE Launch
  BY <1>1 DEF Launch
<1>2. CASE Exit
  BY <1>2 DEF Exit, screen, flags, memory
<1>3. CASE Open
  BY <1>3 DEF Open
<1>4. CASE PageClose
  BY <1>4 DEF PageClose, flags, memory
<1>5. CASE TrustCancel
  BY <1>5 DEF TrustCancel, flags, memory
<1>6. CASE TrustAgree
  BY <1>6 DEF TrustAgree, ApplyIfTrusted, startWork
<1>7. CASE MessageBack
  BY <1>7 DEF MessageBack, flags, memory
<1>8. CASE WorkingFrame
  BY <1>8 DEF WorkingFrame, flags, memory
<1>9. CASE ApplyDone
  BY <1>9 DEF ApplyDone, runJob
<1>10. CASE UpdateDone
  BY <1>10 DEF UpdateDone, runJob
<1>11. CASE UNCHANGED vars
  BY <1>11 DEF vars, screen, flags, memory
<1> QED
  BY <1>1, <1>2, <1>3, <1>4, <1>5, <1>6, <1>7, <1>8, <1>9, <1>10, <1>11

LEMMA RAnalytics ==
  ASSUME RInv, NEW on \in BOOLEAN, setAnalytics(on)
  PROVE  RInv'
BY DEF RInv, HasJob, Offer, setAnalytics, startWork, showMessage

LEMMA RSelect ==
  ASSUME RInv, NEW row \in Row, PageSelect(row)
  PROVE  RInv'
<1>1. CASE setAnalytics(state.analytics # "on")
  BY <1>1, RAnalytics
<1>2. CASE startWork("SelfUpdate") /\ UNCHANGED <<retryJob, flags, memory>>
  BY <1>2 DEF RInv, HasJob, Offer, startWork
<1>3. CASE ApplyIfTrusted(state, sel')
  BY <1>3 DEF RInv, HasJob, Offer, ApplyIfTrusted, startWork
<1> QED
  BY <1>1, <1>2, <1>3 DEF PageSelect

(* A failed job leaves the offer for itself, and only for a certificate.   *)
LEMMA RFails ==
  ASSUME RInv, ApplyFails \/ UpdateFails
  PROVE  RInv'
<1>1. PICK cert \in BOOLEAN : Failure(cert)
  BY DEF ApplyFails, UpdateFails
<1>2. stage' = "Message" /\ retryJob' = job /\ sel' = sel /\ job # "None"
  BY <1>1 DEF ApplyFails, UpdateFails, runJob, Failure, showMessage
<1> QED
  BY <1>1, <1>2 DEF RInv, HasJob, Offer, Failure, showMessage

LEMMA RInvariance == RInv /\ [Next]_vars => RInv'
<1> SUFFICES ASSUME RInv, [Next]_vars PROVE RInv'
  OBVIOUS
<1>1. CASE MessageRetry
  BY <1>1 DEF MessageRetry, RInv, HasJob, Offer, startWork
<1>2. CASE \E on \in BOOLEAN : ConsentAnswer(on)
  BY <1>2, RAnalytics DEF ConsentAnswer
<1> QED
  BY <1>1, <1>2, ROther, RSelect, RFails DEF Next

LEMMA RInitial == Init => RInv
BY DEF Init, RInv, HasJob, Offer

(* Certificates stop being verified only as the answer to the message      *)
(* about a certificate that failed (NetworkSwitch::showMessage, the Y key).*)
THEOREM CertificateFirst == Spec => UnverifiedOnlyAfterCertificate
<1>1. RInv /\ [Next]_vars => (unverified' /\ ~unverified => failed.cert)
  <2> SUFFICES ASSUME RInv, [Next]_vars, unverified', ~unverified PROVE failed.cert
    OBVIOUS
  <2>1. CASE MessageRetry
    BY <2>1 DEF MessageRetry, RInv, Offer
  <2>2. ~MessageRetry => unverified' = unverified \/ ~unverified'
    BY DEF Next, vars, flags, Launch, Exit, Open, PageClose, PageSelect, ConsentAnswer,
       setAnalytics, TrustCancel, TrustAgree, MessageBack, WorkingFrame, runJob,
       ApplyFails, ApplyDone, UpdateFails, UpdateDone
  <2> QED
    BY <2>1, <2>2
<1>2. RInv /\ [Next]_vars => [unverified' /\ ~unverified => failed.cert]_vars
  BY <1>1
<1> QED
  BY RInitial, RInvariance, <1>2, PTL DEF Spec, UnverifiedOnlyAfterCertificate

(* A retry runs the job that failed with the selection it failed with, and *)
(* no work is shown without a job (NetworkSwitch::runJob).                 *)
THEOREM SameAgain == Spec => RetryRunsTheSame
<1> DEFINE Step == /\ stage' = "Working" => job' # "None"
                   /\ stage = "Message" /\ stage' = "Working" => job' = failed.job /\ sel' = failed.sel
<1>1. ASSUME RInv, [Next]_vars PROVE [Step]_vars
  <2>1. stage' = "Working" => job' # "None"
    BY <1>1, RInvariance DEF RInv, HasJob
  <2>2. ASSUME stage = "Message", stage' = "Working" PROVE job' = failed.job /\ sel' = failed.sel
    <3>1. MessageRetry
      BY <1>1, <2>2 DEF Next, vars, screen, Launch, Exit, Open, PageClose, PageSelect,
         ConsentAnswer, TrustCancel, TrustAgree, MessageBack, WorkingFrame, runJob,
         ApplyFails, ApplyDone, UpdateFails, UpdateDone
    <3> QED
      BY <1>1, <2>2, <3>1 DEF MessageRetry, startWork, memory, RInv, Offer
  <2> QED
    BY <2>1, <2>2
<1> QED
  BY RInitial, RInvariance, <1>1, PTL DEF Spec, RetryRunsTheSame

-------------------------------------------------------------------------------
(* What the app may download without asking: the base network, once        *)
(* normalized had to fill in a state.txt that was cut short.               *)
Allowed == agreed \cup (IF spoiled THEN {Base} ELSE {})

(* A state.txt names providers the player agreed to; it is a preset or     *)
(* nothing if it is whole.                                                 *)
Remembered(st) ==
  /\ st = [selection |-> st.selection, trusted |-> st.trusted, analytics |-> st.analytics]
  /\ st.trusted \subseteq agreed \cup {"unknown"}
  /\ ToTrust(st.selection) \subseteq Allowed
  /\ ~spoiled => st.selection \in Offered \cup {<<>>}

TInv ==
  /\ agreed \subseteq ThirdParty /\ spoiled \in BOOLEAN
  /\ Remembered(state) /\ Remembered(saved)
  /\ ~spoiled => sel \in Offered \cup {<<>>}
  /\ stage = "Trust" => trustPending \in ThirdParty
  /\ stage = "Message" /\ allowUnverifiedRetry /\ retryJob = "Apply" => ToTrust(sel) \subseteq Allowed
  /\ stage = "Working" /\ job = "Apply" => ToTrust(sel) \subseteq Allowed

LEMMA NothingUsed == ToTrust(<<>>) = {}
BY DEF ToTrust, providersUsed

LEMMA NoStateRemembered == Remembered(NoState)
BY NothingUsed DEF Remembered, NoState

(* Of a text that was cut short nothing is read that it did not say, but   *)
(* for a name no provider has.                                             *)
LEMMA BeginningsUse ==
  ASSUME NEW selection, NEW part \in Beginnings(selection)
  PROVE  ToTrust(part) \subseteq ToTrust(selection)
<1>1. "unknown" \notin ThirdParty
  BY DEF ThirdParty, Source
<1>2. /\ DOMAIN part \subseteq DOMAIN selection
      /\ \A s \in DOMAIN part : part[s] \in {selection[s], "unknown"}
  BY DEF Beginnings
<1> QED
  BY <1>1, <1>2 DEF ToTrust, providersUsed

(* normalized keeps what is there, or fills in the network's own source.   *)
LEMMA NormalizedUses ==
  ASSUME NEW in
  PROVE  ToTrust(normalized(in)) \subseteq ToTrust(in) \cup {Base}
<1>1. networkOf(in) \in {"revivetendo", Base}
  BY NetworkOfIs
<1>2. \A s \in Service : selectionFor(networkOf(in))[s] \in {"revivetendo", Base, Off}
  BY <1>1, SelectionForIs DEF allRevivetendo, allPretendo, Base, Off
<1>3. "revivetendo" \notin ThirdParty
  BY DEF ThirdParty, Owned
<1>4. /\ DOMAIN normalized(in) = Service
      /\ \A s \in Service : \/ s \in DOMAIN in /\ normalized(in)[s] = in[s]
                            \/ normalized(in)[s] = selectionFor(networkOf(in))[s]
  BY DEF normalized
<1> QED
  BY <1>2, <1>3, <1>4 DEF ToTrust, providersUsed

(* What turning analytics on applies, read from the card.                  *)
LEMMA InstalledAllowed ==
  ASSUME TInv, installed(state)
  PROVE  /\ ~spoiled => normalized(state.selection) \in Offered
         /\ ToTrust(normalized(state.selection)) \subseteq Allowed
<1>1. CASE spoiled
  BY <1>1, NormalizedUses DEF TInv, Remembered, Allowed
<1>2. CASE ~spoiled
  <2>1. state.selection \in Offered
    BY <1>2 DEF TInv, Remembered, installed
  <2> QED
    BY <1>2, <2>1, PresetsNormal DEF TInv, Remembered
<1> QED
  BY <1>1, <1>2

(* A save leaves a text that is remembered, whole or not.                  *)
LEMMA SaveRemembered ==
  ASSUME NEW st, Save(st), spoiled \in BOOLEAN,
         st = [selection |-> st.selection, trusted |-> st.trusted, analytics |-> st.analytics],
         st.trusted \subseteq agreed' \cup {"unknown"}, ToTrust(st.selection) \subseteq Allowed,
         ~spoiled => st.selection \in Offered \cup {<<>>},
         Remembered(saved), agreed \subseteq agreed'
  PROVE  /\ Remembered(saved)' /\ spoiled' \in BOOLEAN /\ (spoiled => spoiled')
         /\ Allowed \subseteq Allowed'
<1>1. \/ saved' = st /\ spoiled' = spoiled
      \/ saved' = saved /\ spoiled' = spoiled
      \/ saved' \in Truncated(st) /\ spoiled' = TRUE
  BY DEF Save
<1>2. spoiled' \in BOOLEAN /\ (spoiled => spoiled')
  BY <1>1
<1>3. Allowed \subseteq Allowed'
  BY <1>2 DEF Allowed
<1>4. CASE saved' = st /\ spoiled' = spoiled
  <2>1. ToTrust(st.selection) \subseteq Allowed'
    BY <1>3
  <2> QED
    BY <1>2, <1>3, <1>4, <2>1 DEF Remembered, ToTrust
<1>5. CASE saved' = saved /\ spoiled' = spoiled
  <2>1. ToTrust(saved.selection) \subseteq Allowed'
    BY <1>3 DEF Remembered
  <2> QED
    BY <1>2, <1>3, <1>5, <2>1 DEF Remembered, ToTrust
<1>6. CASE saved' \in Truncated(st) /\ spoiled' = TRUE
  <2>1. CASE \E s \in Beginnings(st.selection) :
               saved' = [selection |-> s, trusted |-> {}, analytics |-> ""]
    <3>1. PICK s \in Beginnings(st.selection) :
            saved' = [selection |-> s, trusted |-> {}, analytics |-> ""]
      BY <2>1
    <3>2. ToTrust(s) \subseteq Allowed'
      BY <1>3, <3>1, BeginningsUse
    <3> QED
      BY <1>3, <1>6, <3>1, <3>2 DEF Remembered, ToTrust
  <2>2. CASE \E t \in SUBSET st.trusted : saved' = [st EXCEPT !.trusted = t, !.analytics = ""]
    <3>1. PICK t \in SUBSET st.trusted : saved' = [st EXCEPT !.trusted = t, !.analytics = ""]
      BY <2>2
    <3>2. saved' = [selection |-> st.selection, trusted |-> t, analytics |-> ""]
      BY <3>1
    <3>3. ToTrust(st.selection) \subseteq Allowed' /\ t \subseteq agreed' \cup {"unknown"}
      BY <1>3
    <3> QED
      BY <1>3, <1>6, <3>2, <3>3 DEF Remembered, ToTrust
  <2> QED
    BY <1>6, <2>1, <2>2 DEF Truncated
<1> QED
  BY <1>1, <1>4, <1>5, <1>6

(* Either somebody is left to ask, or everybody who has a part in it has   *)
(* been trusted.                                                           *)
LEMMA ApplyTrusted ==
  ASSUME NEW st, NEW selection, NEW T, ApplyIfTrusted(st, selection),
         st.trusted \subseteq T \cup {"unknown"}
  PROVE  \/ stage' = "Trust" /\ trustPending' \in ThirdParty
         \/ stage' = "Working" /\ ToTrust(selection) \subseteq T
<1> DEFINE ask == ToTrust(selection) \ st.trusted
<1>1. "unknown" \notin ThirdParty
  BY DEF ThirdParty, Source
<1>2. CASE ask = {}
  <2>1. stage' = "Working"
    BY <1>2 DEF ApplyIfTrusted, startWork, ToTrust
  <2>2. ToTrust(selection) \subseteq T
    BY <1>1, <1>2 DEF ToTrust
  <2> QED
    BY <2>1, <2>2
<1>3. CASE ask # {}
  <2>1. stage' = "Trust" /\ trustPending' \in ask
    BY <1>3 DEF ApplyIfTrusted, ToTrust
  <2> QED
    BY <2>1 DEF ToTrust
<1> QED
  BY <1>2, <1>3

LEMMA TOther ==
  ASSUME TInv, Exit \/ Open \/ PageClose \/ TrustCancel \/ MessageBack
                 \/ WorkingFrame \/ UpdateDone \/ UNCHANGED vars
  PROVE  TInv'
<1> USE DEF TInv, Allowed, Remembered, ToTrust
<1>1. CASE Exit
  BY <1>1 DEF Exit, screen, flags, memory, card
<1>2. CASE Open
  BY <1>2 DEF Open, card
<1>3. CASE PageClose
  BY <1>3 DEF PageClose, flags, memory, card
<1>4. CASE TrustCancel
  BY <1>4 DEF TrustCancel, flags, memory, card
<1>5. CASE MessageBack
  BY <1>5 DEF MessageBack, flags, memory, card
<1>6. CASE WorkingFrame
  BY <1>6 DEF WorkingFrame, flags, memory, card
<1>7. CASE UpdateDone
  BY <1>7 DEF UpdateDone, runJob, card
<1>8. CASE UNCHANGED vars
  BY <1>8 DEF vars, screen, flags, memory, card
<1> QED
  BY <1>1, <1>2, <1>3, <1>4, <1>5, <1>6, <1>7, <1>8

LEMMA TAnalytics ==
  ASSUME TInv, NEW on \in BOOLEAN, setAnalytics(on)
  PROVE  TInv'
<1>1. agreed' = agreed /\ state' = [state EXCEPT !.analytics = IF on THEN "on" ELSE "off"]
      /\ Save(state')
  BY DEF setAnalytics
<1>2. state' = [selection |-> state.selection, trusted |-> state.trusted,
                analytics |-> IF on THEN "on" ELSE "off"]
  BY <1>1 DEF TInv, Remembered
<1>3. /\ Remembered(saved)' /\ spoiled' \in BOOLEAN /\ (spoiled => spoiled')
      /\ Allowed \subseteq Allowed'
  <2> DEFINE st == state'
  <2>1. /\ st = [selection |-> st.selection, trusted |-> st.trusted, analytics |-> st.analytics]
        /\ st.trusted \subseteq agreed' \cup {"unknown"} /\ ToTrust(st.selection) \subseteq Allowed
        /\ ~spoiled => st.selection \in Offered \cup {<<>>}
    BY <1>1, <1>2 DEF TInv, Remembered
  <2>2. Save(st) /\ spoiled \in BOOLEAN /\ Remembered(saved) /\ agreed \subseteq agreed'
    BY <1>1 DEF TInv
  <2> HIDE DEF st
  <2> QED
    BY <2>1, <2>2, SaveRemembered
<1>4. Remembered(state)'
  BY <1>1, <1>2, <1>3 DEF TInv, Remembered, ToTrust
<1>5. CASE on /\ installed(state)
  <2>1. stage' = "Working" /\ sel' = normalized(state.selection)
    BY <1>5 DEF setAnalytics, startWork
  <2>2. (~spoiled => sel' \in Offered) /\ ToTrust(sel') \subseteq Allowed
    BY <1>5, <2>1, InstalledAllowed
  <2> QED
    BY <1>1, <1>3, <1>4, <2>1, <2>2 DEF TInv, ToTrust
<1>6. CASE ~(on /\ installed(state))
  <2>1. sel' = sel /\ stage' \in {"Message", "Closed", "Page"}
        /\ (stage' = "Message" => ~allowUnverifiedRetry')
    BY <1>6 DEF setAnalytics, showMessage
  <2> QED
    BY <1>1, <1>3, <1>4, <2>1 DEF TInv
<1> QED
  BY <1>5, <1>6

LEMMA TSelect ==
  ASSUME TInv, NEW row \in Row, PageSelect(row)
  PROVE  TInv'
<1>1. CASE setAnalytics(state.analytics # "on")
  BY <1>1, TAnalytics
<1>2. CASE startWork("SelfUpdate")
           /\ UNCHANGED <<retryJob, flags, memory, needsReboot, running, card, agreed, failed, bounds>>
  BY <1>2 DEF TInv, Allowed, Remembered, ToTrust, startWork, memory, card
<1>3. CASE /\ row \in 1 .. presetCount
           /\ sel' = selectionForPreset(presets[row])
           /\ ApplyIfTrusted(state, sel')
           /\ UNCHANGED <<retryJob, allowUnverifiedRetry, unverified, state, needsReboot, running,
                          card, agreed, failed, bounds>>
  <2>1. sel' \in Offered
    <3>1. presets[row] \in {"pretendo", "roseverse", "revivetendo"}
      BY <1>3 DEF presets, presetCount
    <3> QED
      BY <1>3, <3>1, PresetsAre DEF Offered
  <2>2. state.trusted \subseteq agreed \cup {"unknown"}
    BY DEF TInv, Remembered
  <2>3. \/ stage' = "Trust" /\ trustPending' \in ThirdParty
        \/ stage' = "Working" /\ ToTrust(sel') \subseteq agreed
    BY <1>3, <2>2, ApplyTrusted
  <2> QED
    BY <1>3, <2>1, <2>3 DEF TInv, Allowed, Remembered, ToTrust, card
<1> QED
  BY <1>1, <1>2, <1>3 DEF PageSelect

LEMMA TAgree ==
  ASSUME TInv, TrustAgree
  PROVE  TInv'
<1>1. /\ stage = "Trust" /\ agreed' = agreed \cup {trustPending} /\ sel' = sel
      /\ state' = [state EXCEPT !.trusted = @ \cup {trustPending}]
      /\ Save(state') /\ ApplyIfTrusted(state', sel)
  BY DEF TrustAgree
<1>2. agreed \subseteq agreed' /\ agreed' \subseteq ThirdParty
  BY <1>1 DEF TInv
<1>3. state' = [selection |-> state.selection, trusted |-> state.trusted \cup {trustPending},
                analytics |-> state.analytics]
  BY <1>1 DEF TInv, Remembered
<1> DEFINE st == state'
<1>4. /\ st = [selection |-> st.selection, trusted |-> st.trusted, analytics |-> st.analytics]
      /\ st.trusted \subseteq agreed' \cup {"unknown"} /\ ToTrust(st.selection) \subseteq Allowed
      /\ ~spoiled => st.selection \in Offered \cup {<<>>}
  BY <1>1, <1>3 DEF TInv, Remembered
<1>5. Save(st) /\ spoiled \in BOOLEAN /\ Remembered(saved) /\ ApplyIfTrusted(st, sel)
  BY <1>1 DEF TInv
<1> HIDE DEF st
<1>6. /\ Remembered(saved)' /\ spoiled' \in BOOLEAN /\ (spoiled => spoiled')
      /\ Allowed \subseteq Allowed'
  BY <1>2, <1>4, <1>5, SaveRemembered
<1>7. Remembered(state)'
  BY <1>3, <1>4, <1>6 DEF Remembered, ToTrust, st
<1>8. \/ stage' = "Trust" /\ trustPending' \in ThirdParty
      \/ stage' = "Working" /\ ToTrust(sel') \subseteq agreed'
  <2> DEFINE T == agreed'
  <2>1. st.trusted \subseteq T \cup {"unknown"}
    BY <1>4
  <2> HIDE DEF T
  <2>2. \/ stage' = "Trust" /\ trustPending' \in ThirdParty
        \/ stage' = "Working" /\ ToTrust(sel) \subseteq T
    BY <1>5, <2>1, ApplyTrusted
  <2> QED
    BY <1>1, <2>2 DEF T, ToTrust
<1>9. stage' \in {"Trust", "Working"} /\ sel' = sel
  BY <1>1, <1>8
<1> QED
  BY <1>2, <1>6, <1>7, <1>8, <1>9 DEF TInv, Allowed, ToTrust

LEMMA TApply ==
  ASSUME TInv, ApplyFails \/ ApplyDone \/ UpdateFails
  PROVE  TInv'
<1>1. CASE ApplyFails
  BY <1>1 DEF ApplyFails, runJob, Failure, showMessage, TInv, Allowed, Remembered, ToTrust
<1>2. CASE UpdateFails
  BY <1>2 DEF UpdateFails, runJob, Failure, showMessage, TInv, Allowed, Remembered, ToTrust
<1>3. CASE ApplyDone
  <2>1. /\ stage = "Working" /\ job = "Apply" /\ stage' = "Closed" /\ agreed' = agreed /\ sel' = sel
        /\ state' = [state EXCEPT !.selection = sel] /\ Save(state')
    BY <1>3 DEF ApplyDone, runJob
  <2>2. state' = [selection |-> sel, trusted |-> state.trusted, analytics |-> state.analytics]
    BY <2>1 DEF TInv, Remembered
  <2> DEFINE st == state'
  <2>3. /\ st = [selection |-> st.selection, trusted |-> st.trusted, analytics |-> st.analytics]
        /\ st.trusted \subseteq agreed' \cup {"unknown"} /\ ToTrust(st.selection) \subseteq Allowed
        /\ ~spoiled => st.selection \in Offered \cup {<<>>}
    BY <2>1, <2>2 DEF TInv, Remembered
  <2>4. Save(st) /\ spoiled \in BOOLEAN /\ Remembered(saved) /\ agreed \subseteq agreed'
    BY <2>1 DEF TInv
  <2> HIDE DEF st
  <2>5. /\ Remembered(saved)' /\ spoiled' \in BOOLEAN /\ (spoiled => spoiled')
        /\ Allowed \subseteq Allowed'
    BY <2>3, <2>4, SaveRemembered
  <2>6. Remembered(state)'
    BY <2>2, <2>3, <2>5 DEF Remembered, ToTrust, st
  <2> QED
    BY <2>1, <2>5, <2>6 DEF TInv
<1> QED
  BY <1>1, <1>2, <1>3

LEMMA TInvariance == TInv /\ RInv /\ [Next]_vars => TInv'
<1> SUFFICES ASSUME TInv, RInv, [Next]_vars PROVE TInv'
  OBVIOUS
<1>1. CASE Launch
  BY <1>1 DEF Launch, TInv, Allowed, Remembered, ToTrust
<1>2. CASE MessageRetry
  BY <1>2 DEF MessageRetry, startWork, memory, card, TInv, Allowed, Remembered, ToTrust
<1>3. CASE \E on \in BOOLEAN : ConsentAnswer(on)
  BY <1>3, TAnalytics DEF ConsentAnswer
<1> QED
  BY <1>1, <1>2, <1>3, TOther, TSelect, TAgree, TApply DEF Next

(* Whatever way a job was started, over any number of launches and of saves *)
(* that failed or were cut anywhere, the player has agreed to each provider *)
(* it downloads from.  Only the base network can come unasked, and only     *)
(* where normalized fills in a state.txt that is not whole or is older than *)
(* this version (askTrustIfNeeded, setAnalytics, normalized).               *)
THEOREM AlwaysTrusted == Spec => []TrustedBeforeDownload
<1>1. Init => TInv
  <2> SUFFICES ASSUME Init PROVE TInv
    OBVIOUS
  <2>1. /\ state = NoState /\ saved \in {NoState, OldState} /\ sel = <<>> /\ agreed = {}
        /\ stage = "Closed" /\ spoiled = (saved = OldState)
    BY DEF Init
  <2>2. spoiled \in BOOLEAN /\ (~spoiled => saved = NoState)
    BY <2>1
  <2>3. ToTrust(OldState.selection) = {} /\ OldState.trusted = {"unknown"}
    BY DEF OldState, ToTrust, providersUsed, ThirdParty, Source
  <2>4. saved = OldState => Remembered(saved)
    BY <2>1, <2>3 DEF Remembered, OldState
  <2> QED
    BY <2>1, <2>2, <2>4, NoStateRemembered DEF TInv
<1>2. TInv => TrustedBeforeDownload
  BY DEF TInv, TrustedBeforeDownload, Allowed, ToTrust
<1> QED
  BY RInitial, RInvariance, TInvariance, <1>1, <1>2, PTL DEF Spec

-------------------------------------------------------------------------------
(* SelectionPage.                                                          *)

(* The selection of a fresh page: normalized puts what state.txt held in   *)
(* order, and presets and providers keep it so.                            *)
PInv == /\ picked \in Selection /\ Installable(picked)
        /\ (~loaded => BundlesWhole(picked)) /\ loaded \in BOOLEAN

LEMMA PInitial == PageInit => PInv
BY NormalizedInstallable DEF PageInit, PInv

LEMMA PInvariance == PInv /\ [PageNext]_pageVars => PInv'
<1> SUFFICES ASSUME PInv, [PageNext]_pageVars PROVE PInv'
  OBVIOUS
<1> USE DEF PInv
<1>1. ASSUME NEW i \in 1 .. Len(presets), ChoosePreset(presets[i]) PROVE PInv'
  <2>1. presets[i] \in {"pretendo", "roseverse", "revivetendo"}
    BY DEF presets
  <2>2. selectionForPreset(presets[i]) \in Offered
    BY <2>1, PresetsAre DEF Offered
  <2> QED
    BY <1>1, <2>2, PresetsInstallable DEF ChoosePreset
<1>2. ASSUME NEW s \in Service, NEW p, ChooseProvider(s, p) PROVE PInv'
  BY <1>2, SetProviderKeeps DEF ChooseProvider
<1>3. CASE UNCHANGED pageVars
  BY <1>3 DEF pageVars
<1> QED
  BY <1>1, <1>2, <1>3 DEF PageNext

(* Whatever state.txt held and whatever is chosen on the page, every       *)
(* service of the selection has a source that ships it, and Revivetendo is *)
(* not mixed with another source (Services::normalized and setProvider).   *)
THEOREM StaysInstallable == PageSpec => []AlwaysInstallable
<1>1. PInv => AlwaysInstallable
  BY DEF PInv, AlwaysInstallable
<1> QED
  BY PInitial, PInvariance, <1>1, PTL DEF PageSpec

(* No sequence of choices on the page takes a bundle apart                 *)
(* (Services::setProvider).                                                *)
THEOREM BundlesStayWhole == PageSpec => []NeverSplits
<1>1. PInv => NeverSplits
  BY DEF PInv, NeverSplits
<1> QED
  BY PInitial, PInvariance, <1>1, PTL DEF PageSpec
===============================================================================
