------------------------------- MODULE Plugin -------------------------------
(***************************************************************************)
(* The plugin for games: the app's Y key asks Luma's plugin loader to load *)
(* it with the next game (MainUI::launchPlugin), two tasks search the      *)
(* game's code for functions to hook (PatternManager), ACNL is patched     *)
(* before it runs, the plugin puts the loader back as it was, the menu     *)
(* switches packet logging, and the code is restored at the end.           *)
(*                                                                         *)
(* External: the plugin loader, which keeps its state and the persistent   *)
(* parameters from game to game; CTRPluginFramework, which holds the game  *)
(* while the menu is open and while PatchProcess runs; the game's code, as *)
(* the places at which each pattern is found.  The app and the plugin have *)
(* the same NIMBUS_PLUGIN_VERSION, or every game is only told so.          *)
(***************************************************************************)
EXTENDS Naturals, Sequences, FiniteSets

CONSTANTS MaxGames,  \* bound: games started
          MaxFaults  \* bound: calls to the plugin loader that fail

ASSUME PluginAssumption == MaxGames \in Nat /\ MaxFaults \in Nat

Func == 1..5    \* functions of the game, by their first instruction
Null == 0       \* no function: findNearestSTMFDptr found none, an unset address
Id == {"id1", "id2"}        \* places of ACNL's game server ID
Hook == {"send", "recv", "packet"}
Task == 1..2

VARIABLES
  enabled, params,       \* plugin loader: its state, a request with config[2]
  own, disturbed,        \* ghost: the player's setting while no game is
                         \* pending; a call failed, Y was pressed again before
                         \* a game ran, or the player was quicker than main()
  phase,                 \* "app", "search", "game", "menu" or "fini"
  hits,                  \* the game: where each pattern is found, in order
  at, hit, doing,        \* tasks: entry, next hit of it, position
  lock,                  \* the mutex of each hook: the task that holds it
  hook,                  \* RT_HOOK: funcAddr, what callCode leads to, isEnabled
  addr, ids,             \* ...FuncAddr of each hook, acnlGameServerIDAddrs
  code, patchedIds,      \* the game: code at each function, IDs changed
  todo,                  \* steps of the menu entry or of the end still to do
  logger,                \* does mainLogger point to a logger?
  cleaned,               \* how far main() is in putting the loader back
  games, faults

loader     == <<enabled, params, own, disturbed>>
search     == <<hits, at, hit, doing, lock>>
hooks      == <<hook, addr, ids>>
pluginVars == <<loader, phase, search, hooks, code, patchedIds, todo, logger, cleaned,
                games, faults>>

(***************************************************************************)
(* The patterns in the order of PatchProcess; ACNL has two more.           *)
(***************************************************************************)
Common == <<"send", "send", "send", "send", "recv", "recv", "recv", "recv", "recv",
            "conn", "ident">>
Entries(acnl) == IF acnl THEN Common \o <<"packet", "ids">> ELSE Common

(* Versions of the same function: a game is built with one library, so of  *)
(* the patterns of one hook two at most are found, one of them in code     *)
(* before which no function begins.  A version of ACNL may lack the        *)
(* handler of packets, the places of the game server ID, or both.          *)
Games ==
  {[e \in 1 .. Len(Entries(acnl)) |->
      CASE e = 1 -> s1 [] e = 4 -> s4 [] e = 5 -> r5 [] e = 6 -> r6
        [] e = 12 -> p12 [] e = 13 -> i13 [] OTHER -> <<>>] :
     acnl \in BOOLEAN, s1 \in {<<>>, <<1>>}, s4 \in {<<>>, <<Null, 2>>},
     r5 \in {<<>>, <<Null>>, <<Null, 3>>}, r6 \in {<<>>, <<4>>},
     p12 \in {<<>>, <<5>>}, i13 \in {<<>>, <<"id1", "id2">>}}

(* The places of the game server ID in the game that runs.                 *)
Places == IF Len(hits) > Len(Common) THEN {hits[13][i] : i \in DOMAIN hits[13]} ELSE {}

NoHook == [func |-> Null, call |-> Null, on |-> FALSE]

Each(S, v) == [x \in S |-> v]

PluginTypeOK ==
  /\ enabled \in BOOLEAN /\ own \in BOOLEAN /\ disturbed \in BOOLEAN
  /\ params \subseteq BOOLEAN /\ Cardinality(params) <= 1
  /\ phase \in {"app", "search", "game", "menu", "fini"}
  /\ hits \in Games \union {<<>>}
  /\ at \in [Task -> 1 .. 14] /\ hit \in [Task -> 1 .. 3]
  /\ doing \in [Task -> {"search", "copy"}]
  /\ lock \in [Hook -> Task \union {Null}]
  /\ hook \in [Hook -> [func : Func \union {Null}, call : Func \union {Null}, on : BOOLEAN]]
  /\ addr \in [Hook -> Func \union {Null}] /\ ids \subseteq Id
  /\ code \in [Func \union {Null} -> Hook \union {"game"}] /\ patchedIds \subseteq Id
  /\ todo \in Seq(STRING)
  /\ logger \in BOOLEAN /\ cleaned \in {"no", "state", "yes"}
  /\ games \in 0 .. MaxGames /\ faults \in 0 .. MaxFaults

PluginInit ==
  /\ enabled \in BOOLEAN /\ own = enabled
  /\ params = {} /\ disturbed = FALSE
  /\ phase = "app" /\ hits = <<>>
  /\ at = Each(Task, 1) /\ hit = Each(Task, 1) /\ doing = Each(Task, "search")
  /\ lock = Each(Hook, Null)
  /\ hook = Each(Hook, NoHook) /\ addr = Each(Hook, Null) /\ ids = {}
  /\ code = Each(Func \union {Null}, "game") /\ patchedIds = {}
  /\ todo = <<>> /\ logger = FALSE /\ cleaned = "no"
  /\ games = 0 /\ faults = 0

-----------------------------------------------------------------------------
(* Mutant: the previous state is read after the loader was enabled. *)
launchPlugin_SavesLate(before) ==
  /\ enabled' = (enabled \/ before \in {"parameters", "none"})
  /\ params' = IF before = "none" THEN {enabled'} ELSE params

(* launchPlugin: the calls before failed at, from no call at all to all of *)
(* them, are made; those of the parameters fail without anything undone.   *)
launchPlugin(before) ==
  /\ enabled' = (enabled \/ before \in {"parameters", "none"})
  /\ params' = IF before = "none" THEN {enabled} ELSE params

PressY ==
  /\ phase = "app"
  /\ \E failed \in {"enable", "parameters", "none"} :
       /\ failed # "none" => faults < MaxFaults
       /\ faults' = IF failed = "none" THEN faults ELSE faults + 1
       /\ launchPlugin(failed)
       /\ disturbed' = (disturbed \/ enabled # own \/ failed # "none")
  /\ UNCHANGED <<own, phase, search, hooks, code, patchedIds, todo, logger, cleaned, games>>

(* The player changes the loader in Luma's own menu, at any time.          *)
LoaderToggled ==
  /\ enabled' = ~enabled
  /\ IF params = {}
     THEN own' = enabled' /\ disturbed' = FALSE
     ELSE disturbed' = (disturbed \/ (phase = "game" /\ cleaned = "state")) /\ UNCHANGED own
  /\ UNCHANGED <<params, phase, search, hooks, code, patchedIds, todo, logger, cleaned,
                 games, faults>>

(* A game is started and the loader loads the plugin into it.              *)
StartGame ==
  /\ phase = "app" /\ enabled /\ params # {}
  /\ games < MaxGames /\ games' = games + 1
  /\ hits' \in Games
  /\ phase' = "search"
  /\ at' = Each(Task, 1) /\ hit' = Each(Task, 1) /\ doing' = Each(Task, "search")
  /\ lock' = Each(Hook, Null)
  /\ hook' = Each(Hook, NoHook) /\ addr' = Each(Hook, Null) /\ ids' = {}
  /\ code' = Each(Func \union {Null}, "game") /\ patchedIds' = {}
  /\ cleaned' = "no"
  /\ UNCHANGED <<loader, todo, logger, faults>>

-----------------------------------------------------------------------------
(* PatternManager::Perform: the first half of the entries is the first     *)
(* task's, the rest the second's.                                          *)
Count == Len(hits)
LastOf(k) == IF k = 1 THEN Count \div 2 ELSE Count
EntryOf(k) == at[k] + (IF k = 1 THEN 0 ELSE Count \div 2)
Kind(k) == Entries(Count > Len(Common))[EntryOf(k)]
Busy(k) == phase = "search" /\ EntryOf(k) <= LastOf(k)
HasHit(k) == Busy(k) /\ hit[k] <= Len(hits[EntryOf(k)])
Addr(k) == hits[EntryOf(k)][hit[k]]

NextHit(k) == hit' = [hit EXCEPT ![k] = @ + 1] /\ UNCHANGED at
NextEntry(k) == at' = [at EXCEPT ![k] = @ + 1] /\ hit' = [hit EXCEPT ![k] = 1]

NotFound(k) ==
  /\ Busy(k) /\ ~HasHit(k)
  /\ NextEntry(k)
  /\ UNCHANGED <<loader, phase, hits, doing, lock, hooks, code, patchedIds, todo, logger,
                 cleaned, games, faults>>

(* The callback of an entry returned done.                                 *)
Returned(k, done) ==
  IF done THEN NextEntry(k) ELSE NextHit(k)

(* Mutant: without the hook's mutex. *)
Install_NoMutex(k) ==
  LET h == Kind(k)
  IN  /\ HasHit(k) /\ h \in Hook /\ doing[k] = "search"
      /\ IF addr[h] # Null \/ Addr(k) = Null
         THEN Returned(k, addr[h] # Null) /\ UNCHANGED <<doing, lock, hook>>
         ELSE /\ doing' = [doing EXCEPT ![k] = "copy"]
              /\ hook' = [hook EXCEPT ![h].func = Addr(k), ![h].on = FALSE]
              /\ UNCHANGED <<at, hit, lock>>
      /\ UNCHANGED <<loader, phase, hits, addr, ids, code, patchedIds, todo, logger, cleaned,
                     games, faults>>

(* installSendRMC, installRecvRMC and installACNLPacket0x81Handler up to   *)
(* the middle of rtInitHook, under the hook's mutex.                       *)
Install(k) ==
  LET h == Kind(k)
  IN  /\ HasHit(k) /\ h \in Hook /\ doing[k] = "search" /\ lock[h] = Null
      /\ IF addr[h] # Null \/ Addr(k) = Null
         THEN Returned(k, addr[h] # Null) /\ UNCHANGED <<doing, lock, hook>>
         ELSE /\ doing' = [doing EXCEPT ![k] = "copy"]
              /\ lock' = [lock EXCEPT ![h] = k]
              /\ hook' = [hook EXCEPT ![h].func = Addr(k), ![h].on = FALSE]
              /\ UNCHANGED <<at, hit>>
      /\ UNCHANGED <<loader, phase, hits, addr, ids, code, patchedIds, todo, logger, cleaned,
                     games, faults>>

(* The rest of it: callCode leads back to the function.                    *)
Installed(k) ==
  LET h == Kind(k)
  IN  /\ phase = "search" /\ doing[k] = "copy"
      /\ hook' = [hook EXCEPT ![h].call = Addr(k)]
      /\ addr' = [addr EXCEPT ![h] = Addr(k)]
      /\ lock' = [lock EXCEPT ![h] = Null]
      /\ doing' = [doing EXCEPT ![k] = "search"]
      /\ Returned(k, TRUE)
      /\ UNCHANGED <<loader, phase, hits, ids, code, patchedIds, todo, logger, cleaned, games,
                     faults>>

(* Mutant: the search stops at the first place. *)
CollectId_First(k) ==
  /\ HasHit(k) /\ Kind(k) = "ids"
  /\ ids' = ids \union {Addr(k)}
  /\ Returned(k, TRUE)
  /\ UNCHANGED <<loader, phase, hits, doing, lock, hook, addr, code, patchedIds, todo, logger,
                 cleaned, games, faults>>

(* installACNLGameServerIDAddr wants every place.                          *)
CollectId(k) ==
  /\ HasHit(k) /\ Kind(k) = "ids"
  /\ ids' = ids \union {Addr(k)}
  /\ Returned(k, FALSE)
  /\ UNCHANGED <<loader, phase, hits, doing, lock, hook, addr, code, patchedIds, todo, logger,
                 cleaned, games, faults>>

-----------------------------------------------------------------------------
(* rtEnableHook and rtDisableHook: nothing to do is nothing done.          *)
rtEnableHook(h) ==
  IF hook[h].on THEN UNCHANGED <<hook, code>>
  ELSE /\ code' = [code EXCEPT ![hook[h].func] = h]
       /\ hook' = [hook EXCEPT ![h].on = TRUE]

rtDisableHook(h) ==
  IF ~hook[h].on THEN UNCHANGED <<hook, code>>
  ELSE /\ code' = [code EXCEPT ![hook[h].func] = "game"]
       /\ hook' = [hook EXCEPT ![h].on = FALSE]

(* Mutant: the places are changed whether the handler was found or not. *)
enablePatches_Always ==
  /\ phase = "search" /\ \A k \in Task : ~Busy(k)
  /\ IF addr["packet"] # Null THEN rtEnableHook("packet") ELSE UNCHANGED <<hook, code>>
  /\ patchedIds' = ids
  /\ phase' = "game"
  /\ UNCHANGED <<loader, search, addr, ids, todo, logger, cleaned, games, faults>>

(* enablePatches; then the game runs.                                      *)
enablePatches ==
  /\ phase = "search" /\ \A k \in Task : ~Busy(k)
  /\ IF addr["packet"] # Null
     THEN rtEnableHook("packet") /\ patchedIds' = ids
     ELSE UNCHANGED <<hook, code, patchedIds>>
  /\ phase' = "game"
  /\ UNCHANGED <<loader, search, addr, ids, todo, logger, cleaned, games, faults>>

(* main()'s clean-up for the launcher: two calls, of which each may fail,  *)
(* and without a session neither is made.                                  *)
RestoreState ==
  /\ phase = "game" /\ cleaned = "no"
  /\ \/ cleaned' = "state" /\ enabled' = (TRUE \in params) /\ UNCHANGED <<disturbed, faults>>
     \/ /\ faults < MaxFaults /\ faults' = faults + 1
        /\ cleaned' \in {"state", "yes"} /\ disturbed' = TRUE /\ UNCHANGED enabled
  /\ UNCHANGED <<params, own, phase, search, hooks, code, patchedIds, todo, logger, games>>

ClearParameters ==
  /\ phase = "game" /\ cleaned = "state"
  /\ cleaned' = "yes"
  /\ \/ params' = {} /\ UNCHANGED <<disturbed, faults>>
     \/ faults < MaxFaults /\ faults' = faults + 1 /\ disturbed' = TRUE /\ UNCHANGED params
  /\ UNCHANGED <<enabled, own, phase, search, hooks, code, patchedIds, todo, logger, games>>

-----------------------------------------------------------------------------
(* The menu's entry: enableHokakuCTR or disableHokakuCTR, step by step,    *)
(* with the game held.  It is greyed out while a function is missing.      *)
getHokakuCTRStatus == IF addr["send"] = Null \/ addr["recv"] = Null THEN "NotFound"
                      ELSE IF hook["send"].on /\ hook["recv"].on THEN "Active" ELSE "NotActive"

Toggle ==
  /\ phase = "game" /\ cleaned = "yes" /\ getHokakuCTRStatus # "NotFound"
  /\ phase' = "menu"
  /\ todo' = IF getHokakuCTRStatus = "NotActive"
             THEN <<"enable send", "enable recv", "new logger">>
             ELSE <<"disable send", "disable recv">>
  /\ UNCHANGED <<loader, search, hooks, code, patchedIds, logger, cleaned, games, faults>>

(* Mutant: the places are forgotten before they are restored. *)
Fini_ClearsFirst ==
  <<"disable send", "disable recv", "delete logger", "disable packet", "clear ids",
    "restore ids">>

(* menu->Run ends: finiHokakuCTR and finiPatches.                          *)
Fini == <<"disable send", "disable recv", "delete logger", "disable packet", "restore ids",
          "clear ids">>

End ==
  /\ phase = "game" /\ cleaned = "yes"
  /\ phase' = "fini"
  /\ todo' = Fini
  /\ UNCHANGED <<loader, search, hooks, code, patchedIds, logger, cleaned, games, faults>>

Step ==
  /\ todo # <<>>
  /\ todo' = Tail(todo)
  /\ CASE Head(todo) = "enable send" -> rtEnableHook("send")
       [] Head(todo) = "enable recv" -> rtEnableHook("recv")
       [] Head(todo) = "disable send" -> rtDisableHook("send")
       [] Head(todo) = "disable recv" -> rtDisableHook("recv")
       [] Head(todo) = "disable packet" -> rtDisableHook("packet")
       [] OTHER -> UNCHANGED <<hook, code>>
  /\ logger' = CASE Head(todo) = "new logger" -> TRUE
                 [] Head(todo) = "delete logger" -> FALSE
                 [] OTHER -> logger
  /\ patchedIds' = IF Head(todo) = "restore ids" THEN patchedIds \ ids ELSE patchedIds
  /\ ids' = IF Head(todo) = "clear ids" THEN {} ELSE ids
  /\ UNCHANGED <<loader, phase, search, addr, cleaned, games, faults>>

(* The menu closes and the game goes on, or the game is over.              *)
Resume ==
  /\ phase \in {"menu", "fini"} /\ todo = <<>>
  /\ phase' = IF phase = "menu" THEN "game" ELSE "app"
  /\ UNCHANGED <<loader, search, hooks, code, patchedIds, todo, logger, cleaned, games, faults>>

(* The game is closed from outside, maybe before main() ran.               *)
Killed ==
  /\ phase \in {"search", "game", "menu"}
  /\ phase' = "app"
  /\ hook' = Each(Hook, NoHook) /\ addr' = Each(Hook, Null) /\ ids' = {}
  /\ code' = Each(Func \union {Null}, "game") /\ patchedIds' = {}
  /\ todo' = <<>> /\ logger' = FALSE
  /\ UNCHANGED <<loader, search, cleaned, games, faults>>

PluginNext ==
  \/ PressY \/ LoaderToggled \/ StartGame
  \/ \E k \in Task : NotFound(k) \/ Install(k) \/ Installed(k) \/ CollectId(k)
  \/ enablePatches \/ RestoreState \/ ClearParameters \/ Toggle \/ End \/ Step \/ Resume
  \/ Killed

PluginSpec == PluginInit /\ [][PluginNext]_pluginVars

-----------------------------------------------------------------------------
(* Whichever task finds it first, a function whose code jumps to a handler *)
(* is the one the handler goes on to, and while the game runs the handlers *)
(* of packets have a logger to write to.                                   *)
HandlersReachTheGame ==
  /\ \A h \in Hook : addr[h] # Null => hook[h].func = addr[h] /\ hook[h].call = addr[h]
  /\ \A f \in Func : code[f] \in Hook => hook[code[f]].call = f
  /\ phase = "game" /\ {code[f] : f \in Func} \intersect {"send", "recv"} # {} => logger

(* The game's code is its own but where an enabled hook is, and all of it  *)
(* once the plugin has left; hooks that were never set up write nowhere.   *)
CodeIsRestored ==
  /\ code[Null] = "game"
  /\ \A f \in Func : code[f] # "game" => code[f] \in Hook /\ hook[code[f]].on
  /\ phase = "app" => patchedIds = {} /\ \A f \in Func : code[f] = "game"

(* ACNL asks for the game servers of the fixed game at every place or at   *)
(* none, and only with the fix in place: not in a version of the game      *)
(* whose handler the search did not find.                                  *)
FixedOrUntouched ==
  phase = "game" => patchedIds = IF hook["packet"].on THEN Places ELSE {}

(* After a game with the plugin, the loader is as it was when Y was        *)
(* pressed ("Save the previous plugin loader state", MainUI.cpp:246) and   *)
(* the next game is an ordinary one again, whichever games were closed     *)
(* before or between main()'s two calls; only a failed call, Y pressed     *)
(* again before a game or a change made between the two calls can disturb  *)
(* that.  Any other change the player makes in Luma's menu while a game is *)
(* pending does not count: it is undone.                                   *)
LoaderAsBefore ==
  ~disturbed => /\ params = {} => enabled = own
                /\ phase \in {"game", "menu", "fini"} /\ cleaned = "yes" => params = {}

(* The same without the exception of Y pressed again.                      *)
PreviousStateKept == faults = 0 /\ params = {} => enabled = own
=============================================================================
