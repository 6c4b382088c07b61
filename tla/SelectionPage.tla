----------------------------- MODULE SelectionPage ---------------------------
(***************************************************************************)
(* A selection over its life: read from state.txt in whatever shape, put   *)
(* in order by normalized, then changed by presets and single providers.   *)
(***************************************************************************)
EXTENDS Services

CONSTANTS Varied,    \* keys whose entry in state.txt may be anything
          Values     \* the values such an entry may have

ASSUME PageAssumption == Varied \subseteq Key /\ Values \subseteq Value

VARIABLES found,   \* selection read by State::parse
          picked,  \* NetworkSwitch's selection
          loaded   \* picked came straight from the file

pageVars == <<found, picked, loaded>>

(* state.txt holds a saved preset in which entries are changed or missing:  *)
(* an older app version wrote it, it was edited, or its end is cut off.     *)
PageInit ==
  /\ \E p \in {presets[i] : i \in 1 .. Len(presets)}, S \in SUBSET Varied :
       \E f \in [S -> Values] :
         found = [s \in (Service \ Varied) \cup S |->
                    IF s \in S THEN f[s] ELSE selectionForPreset(p)[s]]
  /\ picked = normalized(found)
  /\ loaded = TRUE

(* The page's rows. *)
ChoosePreset(p) ==
  /\ picked' = selectionForPreset(p)
  /\ loaded' = FALSE
  /\ UNCHANGED found

(* One service at a time: Services::setProvider (used by the presets). *)
ChooseProvider(s, p) ==
  /\ picked' = setProvider(picked, s, p)
  /\ UNCHANGED <<found, loaded>>

PageNext ==
  \/ \E i \in 1 .. Len(presets) : ChoosePreset(presets[i])
  \/ \E s \in Service, p \in Source \cup {Off} : ChooseProvider(s, p)

PageSpec == PageInit /\ [][PageNext]_pageVars

PageTypeOK ==
  /\ DOMAIN found \subseteq Key
  /\ \A s \in DOMAIN found : found[s] \in Value
  /\ picked \in [Service -> Source \cup {Off}]
  /\ loaded \in BOOLEAN

(* Whatever the file held and whatever is chosen, the selection can be     *)
(* staged and never mixes our network with another source.                 *)
AlwaysInstallable == Installable(picked)

(* Choosing a provider makes bundles whole or keeps them whole: from a      *)
(* selection made on the page no sequence of choices splits one.            *)
NeverSplits == ~loaded => BundlesWhole(picked)

(* "its services must be taken together" (Sources.hpp:28). *)
AlwaysTogether == BundlesWhole(picked)
==============================================================================
