------------------------------ MODULE MainScreen ------------------------------
(***************************************************************************)
(* The main screen (app/source/states/MainUI.cpp): switching between the   *)
(* Nintendo and the Pretendo account, the repair of an older Pretendo      *)
(* account and unlinking a PNID.  Each of them is a series of calls to the *)
(* act, friends and ndm services that may stop at any call; power may be   *)
(* lost between two of them.                                               *)
(*                                                                         *)
(* The services are external: a loaded account, the default slot and what  *)
(* is committed survive a restart, the exclusive state does not, and an    *)
(* account slot that was not committed may or may not (migrateAccount      *)
(* expects one).  Accounts have their slots in any order, one at most.     *)
(* Emulators and the plugin launcher are left out, drawing is abstracted.  *)
(* A slot number of 0 is one that ACT_GetAccountInfo refuses, and files of *)
(* the app can be written.                                                 *)
(***************************************************************************)
EXTENDS Integers, Sequences, SequencesExt

CONSTANTS MaxSlots,     \* account slots of act
          MaxFailures,  \* bound: service calls that fail, power losses
          MaxLaunches   \* bound: times the app is opened

ASSUME ScreenAssumption ==
  MaxSlots \in Nat \ {0} /\ MaxFailures \in Nat /\ MaxLaunches \in Nat

Nintendo == 1   \* friend account ids
Pretendo == 2
Account  == {Nintendo, Pretendo}
Owner    == Account \cup {3}   \* the app never chooses any other account

VARIABLES
  friends, account, loaded,    \* friends: accounts that exist, the chosen one, is it loaded?
  slots, default, console,     \* act: account slots, default slot, is it loaded?
  exclusive,                   \* ndm: exclusive state
  hmac,                        \* friends: the Pretendo account has its new HMAC
  pidhmac,                     \* SD card: /3ds/nimbus/.pidhmac
  power,                       \* "off", "run" or "reboot" (NS_RebootSystem)
  needsReboot, repairChecked, currentAccount,
  noticed,                     \* is there a text in errorString?
  retPNID, pnidAccountSlot,    \* retPNID: did the last PNID call succeed?
  prompt,                      \* is the unlink question open?
  doing, target, slot,         \* the operation, its account and act slot
  call, after,                 \* its next call, and the call after switchAccounts
  atLaunch,                    \* ghost: accounts and slots when the app was opened, see Here
  agreed,                      \* ghost: the slot whose PNID the open question names, 0 for none
  misled,                      \* ghost: the repair check took an existing account for none
  launches, failures

frd      == <<friends, account, loaded, hmac>>
act      == <<slots, default, console>>
screen   == <<needsReboot, repairChecked, currentAccount, noticed>>
pnid     == <<retPNID, pnidAccountSlot, prompt, agreed>>
op       == <<doing, target, slot, call, after>>
bounds   == <<launches, failures>>
mainVars == <<frd, act, exclusive, pidhmac, power, screen, pnid, op, atLaunch, misled, bounds>>

Slot == [owner : Owner, linked : BOOLEAN, committed : BOOLEAN]

(* The calls of the operations; the online check of a creation changes     *)
(* nothing, so its failure is that of the call after it.                   *)
unloadAccount  == {"unload act", "enter exclusive", "unload friends"}
switchAccounts == {"load friends", "find slot", "create slot", "commit slot", "set default"}
createAccount  == {"create friends", "unbind"} \cup switchAccounts
repairAccount  == {"leave exclusive", "get HMAC", "terminate friends", "write HMAC",
                   "write pidhmac"}
Call == unloadAccount \cup createAccount \cup repairAccount \cup {"failed", "end"}

MainTypeOK ==
  /\ friends \subseteq Account /\ account \in Account
  /\ {loaded, console, exclusive, hmac, pidhmac, needsReboot, repairChecked, noticed,
      retPNID, prompt, misled} \subseteq BOOLEAN
  /\ slots \in Seq(Slot) /\ Len(slots) <= MaxSlots
  /\ {default, pnidAccountSlot, agreed} \subseteq 0 .. MaxSlots /\ default # 0
  /\ slot \in 0 .. MaxSlots + 1
  /\ power \in {"off", "run", "reboot"}
  /\ currentAccount \in Account /\ target \in Account
  /\ doing \in {"none", "switch", "repair"}
  /\ call \in Call /\ after \in {"end", "unbind", "leave exclusive"}
  /\ atLaunch.account \in Account /\ atLaunch.default \in 1 .. MaxSlots
  /\ atLaunch.friends \subseteq Account /\ atLaunch.count \in 1 .. MaxSlots
  /\ atLaunch.pending \subseteq 1 .. MaxSlots

SlotOf(a) == {i \in 1 .. Len(slots) : slots[i].owner = a}

(* ACT_GetAccountIndexOfFriendAccountId: 0 for none. *)
IndexOf(a) == IF SlotOf(a) = {} THEN 0 ELSE CHOOSE i \in SlotOf(a) : TRUE

(* Slots that wait for their commit. *)
Pending == {i \in 1 .. Len(slots) : ~slots[i].committed}

Here == [account |-> account, default |-> default, friends |-> friends,
         count |-> Len(slots), pending |-> Pending]

(* A console with or without a Pretendo account, set up by an older        *)
(* version or not at all; the act slot of an account may be missing or     *)
(* wait for its commit, and may have any number.                           *)
MainInit ==
  /\ friends \in {{Nintendo}, Account}
  /\ account \in friends /\ loaded = TRUE
  /\ slots \in UNION {[1 .. n -> Slot] : n \in 1 .. MaxSlots}
  /\ \A i, j \in 1 .. Len(slots) : slots[i].owner = slots[j].owner => i = j
  /\ default \in SlotOf(account) /\ console = TRUE
  /\ exclusive = FALSE
  /\ hmac = FALSE /\ pidhmac = FALSE
  /\ power = "off"
  /\ needsReboot = FALSE /\ repairChecked = FALSE /\ noticed = FALSE /\ currentAccount = account
  /\ retPNID = TRUE /\ pnidAccountSlot = 0 /\ prompt = FALSE /\ agreed = 0
  /\ doing = "none" /\ target = account /\ slot = 0 /\ call = "end" /\ after = "end"
  /\ atLaunch = Here /\ misled = FALSE
  /\ launches = 0 /\ failures = 0

MainFault == failures < MaxFailures /\ failures' = failures + 1
NoFault   == UNCHANGED failures

-------------------------------------------------------------------------------
(* Opening and leaving the app (main.cpp). *)

(* onStartup may leave a notice that no patches are installed. *)
Launch ==
  /\ power = "off"
  /\ launches < MaxLaunches
  /\ launches' = launches + 1
  /\ power' = "run"
  /\ needsReboot' = FALSE /\ repairChecked' = FALSE /\ noticed' \in BOOLEAN
  /\ currentAccount' = account
  /\ retPNID' = TRUE /\ pnidAccountSlot' = 0 /\ prompt' = FALSE /\ agreed' = 0
  /\ doing' = "none" /\ call' = "end" /\ after' = "end" /\ slot' = 0
  /\ atLaunch' = Here
  /\ UNCHANGED <<frd, act, exclusive, pidhmac, target, misled, failures>>

(* main restarts the console when it has to. *)
Leaves == power' = IF needsReboot' THEN "reboot" ELSE "off"

(* The console starts: the newest slot may be gone if it was not committed *)
(* (then another one is the default, if it was).                           *)
Boot ==
  /\ power' = "off"
  /\ loaded' = TRUE /\ console' = TRUE /\ exclusive' = FALSE
  /\ \/ UNCHANGED <<slots, default>>
     \/ /\ Len(slots) > 1 /\ Len(slots) \in Pending
        /\ slots' = Front(slots)
        /\ default' \in IF default < Len(slots) THEN {default} ELSE 1 .. Len(slots) - 1
  /\ doing' = "none" /\ call' = "end" /\ after' = "end"
  /\ UNCHANGED <<friends, account, hmac, pidhmac, screen, pnid, target, slot, misled, launches>>
  /\ atLaunch' = Here'

MainReboot == power = "reboot" /\ Boot /\ NoFault
PowerOff   == power = "run" /\ Boot /\ MainFault

-------------------------------------------------------------------------------
(* One frame of the screen; the repair check comes before any key. *)
Ready == power = "run" /\ doing = "none"
Frame == Ready /\ (repairChecked \/ noticed)

(* A lookup that fails leaves the index at 0. *)
RepairCheck ==
  /\ Ready /\ ~repairChecked /\ ~noticed
  /\ repairChecked' = TRUE
  /\ \E index \in {IndexOf(Pretendo), 0} :
       /\ IF index = IndexOf(Pretendo) THEN NoFault ELSE MainFault
       /\ pidhmac' = (pidhmac \/ index = 0)
       /\ misled' = (misled \/ (index = 0 /\ Pretendo \in friends))
  /\ IF pidhmac'
     THEN UNCHANGED op
     ELSE /\ doing' = "repair" /\ target' = Pretendo
          /\ call' = "unload act" /\ after' = "leave exclusive"
          /\ UNCHANGED slot
  /\ UNCHANGED <<frd, act, exclusive, power, needsReboot, currentAccount, noticed, pnid, atLaunch,
                 launches>>

Start ==
  /\ Frame
  /\ UNCHANGED needsReboot
  /\ Leaves
  /\ UNCHANGED <<frd, act, exclusive, pidhmac, repairChecked, currentAccount, noticed, pnid, op,
                 atLaunch, misled, bounds>>

(* migrateAccount commits the Pretendo slot. *)
PretendoCommitted ==
  [i \in 1 .. Len(slots) |->
     IF i = IndexOf(Pretendo) THEN [slots[i] EXCEPT !.committed = TRUE] ELSE slots[i]]

(* The networks page applies patches after the migration; an error of the  *)
(* migration is shown and nothing is installed.                            *)
ApplyPatches ==
  /\ Frame /\ ~needsReboot /\ ~prompt
  /\ \/ /\ slots' = PretendoCommitted /\ NoFault
        /\ noticed' \in BOOLEAN
        /\ needsReboot' = noticed'   \* applied, or an install that failed clears the text
     \/ /\ slots' \in {slots, PretendoCommitted} /\ MainFault
        /\ noticed' = TRUE
        /\ UNCHANGED needsReboot
  /\ UNCHANGED <<frd, default, console, exclusive, pidhmac, power, repairChecked, currentAccount,
                 pnid, op, atLaunch, misled, launches>>

(* X: look the PNID up, unless a call has failed before, and ask. *)
LookUp ==
  IF ~retPNID
  THEN UNCHANGED pnid /\ NoFault
  ELSE /\ \/ /\ pnidAccountSlot' = IndexOf(Pretendo)
             /\ \/ retPNID' = (IndexOf(Pretendo) # 0) /\ NoFault
                \/ IndexOf(Pretendo) # 0 /\ retPNID' = FALSE /\ MainFault
          \/ UNCHANGED pnidAccountSlot /\ retPNID' = FALSE /\ MainFault
       /\ prompt' = (retPNID' /\ slots[pnidAccountSlot'].linked)
       /\ agreed' = IF prompt' THEN pnidAccountSlot' ELSE 0

PressX ==
  /\ Frame /\ ~needsReboot /\ ~prompt
  /\ LookUp
  /\ UNCHANGED <<frd, act, exclusive, pidhmac, power, screen, op, atLaunch, misled, launches>>

(* A, or a touch of an account; X may be pressed in the same frame.        *)
PressAccount(a, withX) ==
  /\ Frame /\ ~needsReboot /\ ~prompt
  /\ IF withX THEN LookUp ELSE UNCHANGED pnid /\ NoFault
  /\ UNCHANGED needsReboot
  /\ IF a = currentAccount
     THEN Leaves /\ UNCHANGED op
     ELSE /\ doing' = "switch" /\ target' = a
          /\ call' = "unload act" /\ after' = "end"
          /\ UNCHANGED <<slot, power>>
  /\ UNCHANGED <<frd, act, exclusive, pidhmac, repairChecked, currentAccount, noticed, atLaunch,
                 misled, launches>>

Unbind(s) == slots' = [slots EXCEPT ![s].linked = FALSE]

(* Mutant: the account in use is unlinked, not the one that was looked up. *)
PromptYes_UnlinksDefault ==
  /\ Frame /\ prompt
  /\ \/ Unbind(default) /\ retPNID' = TRUE /\ NoFault
     \/ UNCHANGED slots /\ retPNID' = FALSE /\ MainFault
  /\ prompt' = FALSE /\ agreed' = 0
  /\ UNCHANGED <<frd, default, console, exclusive, pidhmac, power, screen, pnidAccountSlot, op,
                 atLaunch, misled, launches>>

(* A in the question: unlinkPNID. *)
PromptYes ==
  /\ Frame /\ prompt
  /\ \/ Unbind(pnidAccountSlot) /\ retPNID' = TRUE /\ NoFault
     \/ UNCHANGED slots /\ retPNID' = FALSE /\ MainFault
  /\ prompt' = FALSE /\ agreed' = 0
  /\ UNCHANGED <<frd, default, console, exclusive, pidhmac, power, screen, pnidAccountSlot, op,
                 atLaunch, misled, launches>>

PromptNo ==
  /\ Frame /\ prompt
  /\ prompt' = FALSE /\ agreed' = 0
  /\ UNCHANGED <<frd, act, exclusive, pidhmac, power, screen, retPNID, pnidAccountSlot, op,
                 atLaunch, misled, bounds>>

-------------------------------------------------------------------------------
(* The calls of an operation, one at a time. *)

Turn(c) == doing # "none" /\ call = c
Then(c) == call' = c /\ UNCHANGED <<doing, target, after>>
Still   == UNCHANGED <<pidhmac, power, screen, pnid, atLaunch, misled, launches>>

UnloadConsoleAccount ==
  /\ Turn("unload act")
  /\ console' = FALSE
  /\ Then("enter exclusive") /\ NoFault
  /\ UNCHANGED <<frd, slots, default, exclusive, slot>> /\ Still

EnterExclusiveState ==
  /\ Turn("enter exclusive")
  /\ exclusive' = TRUE
  /\ Then("unload friends") /\ NoFault
  /\ UNCHANGED <<frd, act, slot>> /\ Still

UnloadLocalAccount ==
  /\ Turn("unload friends")
  /\ loaded' = FALSE
  /\ Then("load friends") /\ NoFault
  /\ UNCHANGED <<friends, account, hmac, act, exclusive, slot>> /\ Still

LoadLocalAccount ==
  /\ Turn("load friends")
  /\ target \in friends
  /\ account' = target /\ loaded' = TRUE
  /\ Then("find slot") /\ NoFault
  /\ UNCHANGED <<friends, hmac, act, exclusive, slot>> /\ Still

(* LocalAccountNotExists: a switch creates the account, the repair has     *)
(* nothing to do.                                                          *)
LocalAccountNotExists ==
  /\ Turn("load friends")
  /\ target \notin friends
  /\ IF doing = "switch"
     THEN call' = "create friends" /\ after' = "unbind" /\ UNCHANGED <<doing, target, pidhmac>>
     ELSE Then("end") /\ pidhmac' = TRUE
  /\ NoFault
  /\ UNCHANGED <<frd, act, exclusive, slot, power, screen, pnid, atLaunch, misled, launches>>

(* The server gives a new account its HMAC. *)
CreateLocalAccount ==
  /\ Turn("create friends")
  /\ friends' = friends \cup {target} /\ hmac' = TRUE
  /\ Then("load friends") /\ NoFault
  /\ UNCHANGED <<account, loaded, act, exclusive, slot>> /\ Still

(* Mutant: the new slot's number is the number of slots before it.         *)
FindSlot_OffByOne ==
  /\ Turn("find slot")
  /\ IF IndexOf(target) # 0
     THEN slot' = IndexOf(target) /\ Then("set default")
     ELSE slot' = Len(slots) /\ Then("create slot")
  /\ NoFault
  /\ UNCHANGED <<frd, act, exclusive>> /\ Still

(* The account's slot, or a new one after the others. *)
FindSlot ==
  /\ Turn("find slot")
  /\ IF IndexOf(target) # 0
     THEN slot' = IndexOf(target) /\ Then("set default")
     ELSE slot' = Len(slots) + 1 /\ Then("create slot")
  /\ NoFault
  /\ UNCHANGED <<frd, act, exclusive>> /\ Still

CreateConsoleAccount ==
  /\ Turn("create slot")
  /\ Len(slots) < MaxSlots
  /\ slots' = Append(slots, [owner |-> account, linked |-> FALSE, committed |-> FALSE])
  /\ Then("commit slot") /\ NoFault
  /\ UNCHANGED <<frd, default, console, exclusive, slot>> /\ Still

CommitConsoleAccount ==
  /\ Turn("commit slot")
  /\ slots' = [slots EXCEPT ![slot].committed = TRUE]
  /\ Then("set default") /\ NoFault
  /\ UNCHANGED <<frd, default, console, exclusive, slot>> /\ Still

SetDefaultAccount ==
  /\ Turn("set default")
  /\ default' = slot /\ console' = TRUE
  /\ Then(after) /\ NoFault
  /\ UNCHANGED <<frd, slots, exclusive, slot>> /\ Still

(* "Reset the act account": the slot with the number of the friend account. *)
UnbindServerAccount ==
  /\ Turn("unbind")
  /\ target <= Len(slots)
  /\ Unbind(target)
  /\ Then("end") /\ NoFault
  /\ UNCHANGED <<frd, default, console, exclusive, slot>> /\ Still

LeaveExclusiveState ==
  /\ Turn("leave exclusive")
  /\ exclusive' = FALSE
  /\ Then("get HMAC") /\ NoFault
  /\ UNCHANGED <<frd, act, slot>> /\ Still

(* Principal ID and password of the loaded account, and the server's answer. *)
GetNewHMAC ==
  /\ Turn("get HMAC")
  /\ loaded
  /\ Then("terminate friends") /\ NoFault
  /\ UNCHANGED <<frd, act, exclusive, slot>> /\ Still

TerminateFriends ==
  /\ Turn("terminate friends")
  /\ loaded' = FALSE
  /\ Then("write HMAC") /\ NoFault
  /\ UNCHANGED <<friends, account, hmac, act, exclusive, slot>> /\ Still

ReplaceHMAC ==
  /\ Turn("write HMAC")
  /\ hmac' = TRUE
  /\ Then("write pidhmac") /\ NoFault
  /\ UNCHANGED <<friends, account, loaded, act, exclusive, slot>> /\ Still

WritePidhmac ==
  /\ Turn("write pidhmac")
  /\ pidhmac' = TRUE
  /\ Then("end") /\ NoFault
  /\ UNCHANGED <<frd, act, exclusive, slot, power, screen, pnid, atLaunch, misled, launches>>

(* Mutant: what comes after a failed call of the repair is done anyway.    *)
CallFails_WritesPidhmac ==
  /\ doing # "none" /\ call # "end"
  /\ MainFault
  /\ Then(IF doing = "repair" THEN "write pidhmac" ELSE "failed")
  /\ UNCHANGED <<frd, act, exclusive, slot>> /\ Still

(* A call fails and the operation ends; but when switching fails the       *)
(* repair goes on, because LeaveExclusiveState overwrites the result.      *)
CallFails ==
  /\ doing # "none" /\ call \notin {"write pidhmac", "failed", "end"}
  /\ \/ MainFault
     \/ call = "get HMAC" /\ ~loaded /\ NoFault
     \/ call = "create slot" /\ Len(slots) = MaxSlots /\ NoFault
     \/ call = "unbind" /\ target > Len(slots) /\ NoFault
  /\ Then(IF doing = "repair" /\ call \in switchAccounts THEN "leave exclusive" ELSE "failed")
  /\ UNCHANGED <<frd, act, exclusive, slot>> /\ Still

Ended(c) == doing # "none" /\ call = c

(* Mutant: after an error the player can leave without a restart. *)
OperationFails_Continues ==
  /\ Ended("failed")
  /\ doing' = "none" /\ call' = "end" /\ after' = "end"
  /\ noticed' = TRUE
  /\ UNCHANGED <<needsReboot, frd, act, exclusive, pidhmac, power, repairChecked, currentAccount,
                 pnid, target, slot, atLaunch, misled, bounds>>

(* An error: the screen stays and asks for a restart. *)
OperationFails ==
  /\ Ended("failed")
  /\ doing' = "none" /\ call' = "end" /\ after' = "end"
  /\ needsReboot' = TRUE /\ noticed' = TRUE
  /\ UNCHANGED <<frd, act, exclusive, pidhmac, power, repairChecked, currentAccount, pnid, target,
                 slot, atLaunch, misled, bounds>>

RepairEnds ==
  /\ Ended("end") /\ doing = "repair"
  /\ doing' = "none"
  /\ needsReboot' = TRUE /\ noticed' = TRUE
  /\ UNCHANGED <<frd, act, exclusive, pidhmac, power, repairChecked, currentAccount, pnid, target,
                 slot, call, after, atLaunch, misled, bounds>>

(* A switch that worked leaves the app and restarts the console. *)
SwitchEnds ==
  /\ Ended("end") /\ doing = "switch"
  /\ doing' = "none"
  /\ needsReboot' = TRUE
  /\ Leaves
  /\ UNCHANGED <<frd, act, exclusive, pidhmac, repairChecked, currentAccount, noticed, pnid, target,
                 slot, call, after, atLaunch, misled, bounds>>

Keys ==
  \/ Start \/ ApplyPatches \/ PressX \/ PromptYes \/ PromptNo
  \/ \E a \in Account, withX \in BOOLEAN : PressAccount(a, withX)

Calls ==
  \/ UnloadConsoleAccount \/ EnterExclusiveState \/ UnloadLocalAccount
  \/ LoadLocalAccount \/ LocalAccountNotExists \/ CreateLocalAccount
  \/ FindSlot \/ CreateConsoleAccount \/ CommitConsoleAccount \/ SetDefaultAccount
  \/ UnbindServerAccount
  \/ LeaveExclusiveState \/ GetNewHMAC \/ TerminateFriends \/ ReplaceHMAC \/ WritePidhmac
  \/ CallFails

MainNext ==
  \/ Launch \/ MainReboot \/ PowerOff
  \/ RepairCheck \/ Keys
  \/ Calls \/ OperationFails \/ RepairEnds \/ SwitchEnds

MainSpec == MainInit /\ [][MainNext]_mainVars

-------------------------------------------------------------------------------
(* No operation that stopped half way is left to the next program: without *)
(* a restart the app is only left with the services as it found them.      *)
HalfDoneRestarts ==
  power = "off" =>
    /\ loaded /\ console /\ ~exclusive
    /\ account = atLaunch.account /\ default = atLaunch.default

(* A switch that ends without an error has both services on the chosen     *)
(* account, whatever earlier attempts left behind.  Its slot is committed,  *)
(* unless it waited for that when the app was opened: switchAccounts takes  *)
(* such a slot as it is.  An account that was missing is not linked to      *)
(* anyone's PNID, unless it had a slot already whose number is not that of  *)
(* the friend account (MainUI.cpp:115 resets the slot of that number).      *)
SwitchedIsWhole ==
  doing = "switch" /\ call = "end" =>
    /\ loaded /\ console /\ account = target
    /\ default <= Len(slots) /\ slots[default].owner = target
    /\ slots[default].committed \/ default \in atLaunch.pending
    /\ target \notin atLaunch.friends =>
         ~slots[default].linked \/ (default <= atLaunch.count /\ default # target)

(* An account only loses its PNID as the answer to the question that names *)
(* it, or when a missing Pretendo account is created, and then only the    *)
(* slot with the number of that account: never any other, in any order of  *)
(* keys, failures and restarts.                                            *)
OnlyAskedIsUnlinked ==
  [][\A s \in 1 .. Len(slots) :
       s \in 1 .. Len(slots') /\ slots[s].linked /\ ~slots'[s].linked =>
         s = agreed \/ (doing = "switch" /\ s = target
                        /\ target \notin atLaunch.friends)]_mainVars

(* .pidhmac says that there is nothing to repair (any more), except when   *)
(* the check could not see the account.                                    *)
RepairIsRemembered == pidhmac /\ Pretendo \in friends /\ ~misled => hmac

-------------------------------------------------------------------------------
(* "If an account doesn't exist, we just create the dummy file"            *)
(* (MainUI.cpp:527): with an account the file means it was repaired.       *)
DummyOnlyWithoutAccount == pidhmac /\ Pretendo \in friends => hmac

(* "Reset the act account" (MainUI.cpp:114): the slot that a creation       *)
(* unlinks is the one of the account it created.                            *)
ResetIsOwn ==
  [][Turn("unbind") /\ doing' = doing =>
       \A s \in 1 .. Len(slots) : slots'[s] # slots[s] => slots[s].owner = target]_mainVars

(* "Only allow user interaction when the system doesn't need a restart"    *)
(* (MainUI.cpp:674): nothing is changed between an error and the restart.  *)
NothingChangesBeforeRestart ==
  [][Ready /\ needsReboot /\ power' = "run" => UNCHANGED <<frd, act>>]_mainVars
===============================================================================
