------------------------------- MODULE Services ------------------------------
(***************************************************************************)
(* The selection algebra of the patch page (app/source/net/Services.cpp)   *)
(* over the sources built into the app (app/source/net/Sources.cpp).  A    *)
(* selection maps service ids to providers; what state.txt holds may be    *)
(* any partial map, because it is read from the SD card.                   *)
(***************************************************************************)
EXTENDS Integers, Sequences, FiniteSets

Service == {"account", "friends", "http", "socket", "ssl", "miiverse", "eshop", "plugin"}
Source  == {"pretendo", "revivetendo", "roseverse"}
Base == "pretendo"
Off  == "off"

ShippedBy ==
  [pretendo    |-> Service \ {"eshop"},
   revivetendo |-> Service,
   roseverse   |-> {"account", "http", "miiverse"}]

Owned       == {"revivetendo"}
FullNetwork == {"revivetendo"}
Overlay     == {"roseverse"}
Bundled     == {"roseverse"}

Network == {Base} \cup FullNetwork

(* Keys and values State::parse may find in state.txt. *)
Key   == Service \cup {"retired"}
Value == Source \cup {Off, "unknown"}

(* The full network some service uses, or the base. *)
networkOf(sel) ==
  IF \E s \in DOMAIN sel : sel[s] \in FullNetwork
  THEN CHOOSE n \in FullNetwork : \E s \in DOMAIN sel : sel[s] = n
  ELSE Base

selectionFor(net) == [s \in Service |-> IF s \in ShippedBy[net] THEN net ELSE Off]

(* What may provide a service next to the network's own source. *)
providersFor(s, net) ==
  {selectionFor(net)[s]} \cup {n \in Overlay : net \notin FullNetwork /\ s \in ShippedBy[n]}

(* Mutant: leaving a bundle moves the chosen service only. *)
setProvider_OneByOne(sel, s, p) ==
  IF networkOf(sel) # Base \/ p \notin providersFor(s, Base)
  THEN sel
  ELSE [t \in Service |-> IF (p \in Bundled /\ t \in ShippedBy[p]) \/ t = s THEN p ELSE sel[t]]

(* Choosing a provider for one service.  Leaving a bundle moves every member *)
(* back to the base, entering one takes every member.                        *)
setProvider(sel, s, p) ==
  LET old  == sel[s]
      left == IF old \in Bundled /\ p # old
              THEN {t \in ShippedBy[old] : sel[t] = old} ELSE {}
      taken == IF p \in Bundled THEN ShippedBy[p] ELSE {}
  IN  IF networkOf(sel) # Base \/ p \notin providersFor(s, Base)
      THEN sel
      ELSE [t \in Service |->
              IF t = s \/ t \in taken THEN p ELSE IF t \in left THEN Base ELSE sel[t]]

presets == <<"pretendo", "roseverse", "revivetendo">>

selectionForPreset(p) ==
  CASE p = "revivetendo" -> selectionFor("revivetendo")
    [] p = "roseverse"   -> setProvider(selectionFor(Base), "miiverse", "roseverse")
    [] OTHER             -> selectionFor(Base)

(* Mutant: an entry is kept whatever network the selection belongs to. *)
normalized_KeepsAny(in) ==
  [s \in Service |->
     IF s \in DOMAIN in /\ in[s] \in Source \cup {Off} THEN in[s] ELSE selectionFor(networkOf(in))[s]]

(* Drop invalid entries and fill in the defaults of the network. *)
normalized(in) ==
  LET net == networkOf(in)
  IN  [s \in Service |->
         IF s \in DOMAIN in /\ in[s] \in providersFor(s, net)
         THEN in[s] ELSE selectionFor(net)[s]]

providersUsed(sel) == {sel[s] : s \in DOMAIN sel} \ {Off}

(* State::serialize writes a selection in the order of its ids; of a text  *)
(* that was cut short State::parse finds the first ones, and the name of   *)
(* the last provider may be cut as well.                                   *)
ById == <<"account", "eshop", "friends", "http", "miiverse", "plugin", "socket", "ssl">>

First(n) == {ById[i] : i \in 1 .. n}

Beginnings(sel) ==
  {[s \in DOMAIN sel \cap First(n) |-> sel[s]] : n \in 0 .. Len(ById)} \cup
  {[s \in DOMAIN sel \cap First(n) |-> IF s = ById[n] THEN "unknown" ELSE sel[s]] :
     n \in 1 .. Len(ById)}

-------------------------------------------------------------------------------
(* What makes a selection installable: every service comes from a source   *)
(* that ships it (buildStage finds its files), and a full network is never *)
(* mixed with another source ("cannot be mixed", Services.hpp:7).          *)
Installable(sel) ==
  /\ DOMAIN sel = Service
  /\ \A s \in Service : (sel[s] \in Source /\ s \in ShippedBy[sel[s]]) \/ sel[s] = Off
  /\ providersUsed(sel) \cap FullNetwork # {} => Cardinality(providersUsed(sel)) = 1

(* A bundled source provides all its services or none ("its services must *)
(* be taken together", Sources.hpp:28).                                    *)
BundlesWhole(sel) ==
  \A b \in Bundled :
    (\E s \in Service : sel[s] = b) => \A s \in ShippedBy[b] : sel[s] = b
==============================================================================
