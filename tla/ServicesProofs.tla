---------------------------- MODULE ServicesProofs ---------------------------
(***************************************************************************)
(* What the operators on selections return, for every selection: the facts *)
(* the proofs about the patch page rest on.                                *)
(***************************************************************************)
EXTENDS Services, FiniteSetTheorems, TLAPS

Selection == [Service -> Source \cup {Off}]

(* Every service that can be had from one source. *)
allRevivetendo == [s \in Service |-> "revivetendo"]
allPretendo    == [s \in Service |-> IF s = "eshop" THEN Off ELSE "pretendo"]
withRoseverse  == [s \in Service |-> IF s \in {"account", "http", "miiverse"}
                                     THEN "roseverse" ELSE allPretendo[s]]

Offered == {allPretendo, withRoseverse, allRevivetendo}

-------------------------------------------------------------------------------
(* The only full network is Revivetendo. *)
LEMMA NetworkOfIs ==
  ASSUME NEW sel
  PROVE  /\ (\E s \in DOMAIN sel : sel[s] = "revivetendo") => networkOf(sel) = "revivetendo"
         /\ ~(\E s \in DOMAIN sel : sel[s] = "revivetendo") => networkOf(sel) = Base
BY DEF networkOf, FullNetwork, Base

LEMMA SelectionForIs ==
  /\ selectionFor("revivetendo") = allRevivetendo
  /\ selectionFor(Base) = allPretendo
<1>1. \A s \in Service : s \in ShippedBy["revivetendo"]
  BY DEF ShippedBy
<1>2. \A s \in Service : s \in ShippedBy["pretendo"] <=> s # "eshop"
  BY DEF ShippedBy
<1>3. selectionFor("revivetendo") = allRevivetendo
  BY <1>1 DEF selectionFor, allRevivetendo
<1>4. selectionFor(Base) = allPretendo
  BY <1>2 DEF selectionFor, allPretendo, Base
<1> QED
  BY <1>3, <1>4

LEMMA ProvidersForIs ==
  ASSUME NEW s \in Service
  PROVE  /\ providersFor(s, "revivetendo") = {"revivetendo"}
         /\ providersFor(s, Base) = {allPretendo[s]} \cup
              (IF s \in {"account", "http", "miiverse"} THEN {"roseverse"} ELSE {})
<1>1. allRevivetendo[s] = "revivetendo"
  BY DEF allRevivetendo
<1>2. ShippedBy["roseverse"] = {"account", "http", "miiverse"}
  BY DEF ShippedBy
<1>3. providersFor(s, "revivetendo") = {"revivetendo"}
  BY <1>1, SelectionForIs DEF providersFor, FullNetwork
<1>4. providersFor(s, Base) = {allPretendo[s]} \cup {n \in Overlay : s \in ShippedBy[n]}
  BY SelectionForIs DEF providersFor, FullNetwork, Base
<1>5. {n \in Overlay : s \in ShippedBy[n]} =
        IF s \in {"account", "http", "miiverse"} THEN {"roseverse"} ELSE {}
  BY <1>2 DEF Overlay
<1> QED
  BY <1>3, <1>4, <1>5

-------------------------------------------------------------------------------
(* A selection of single sources, without the full network, is installable *)
(* when each of them ships its services.                                   *)
LEMMA SingleSources ==
  ASSUME NEW sel \in [Service -> {"pretendo", "roseverse", Off}],
         \A s \in Service : /\ sel[s] = "pretendo" => s # "eshop"
                            /\ sel[s] = "roseverse" => s \in {"account", "http", "miiverse"}
  PROVE  Installable(sel)
<1>1. "revivetendo" \notin providersUsed(sel)
  BY DEF providersUsed, Off
<1>2. \A s \in Service : (sel[s] \in Source /\ s \in ShippedBy[sel[s]]) \/ sel[s] = Off
  BY DEF Source, ShippedBy, Off
<1> QED
  BY <1>1, <1>2 DEF Installable, FullNetwork

LEMMA NetworkInstallable == Installable(allRevivetendo)
<1>1. providersUsed(allRevivetendo) = {"revivetendo"}
  BY DEF providersUsed, allRevivetendo, Service, Off
<1>2. Cardinality({"revivetendo"}) = 1
  BY FS_Singleton
<1>3. \A s \in Service : allRevivetendo[s] \in Source /\ s \in ShippedBy[allRevivetendo[s]]
  BY DEF allRevivetendo, Source, ShippedBy
<1> QED
  BY <1>1, <1>2, <1>3 DEF Installable, allRevivetendo

(* normalized makes any map that can be read from the card installable.    *)
LEMMA NormalizedInstallable ==
  ASSUME NEW in
  PROVE  Installable(normalized(in)) /\ normalized(in) \in Selection
<1>1. CASE \E s \in DOMAIN in : in[s] = "revivetendo"
  <2>1. normalized(in) = allRevivetendo
    BY <1>1, NetworkOfIs, SelectionForIs, ProvidersForIs DEF normalized, allRevivetendo
  <2> QED
    BY <2>1, NetworkInstallable DEF allRevivetendo, Selection, Source
<1>2. CASE ~(\E s \in DOMAIN in : in[s] = "revivetendo")
  <2>1. normalized(in) = [s \in Service |->
           IF s \in DOMAIN in /\ in[s] \in providersFor(s, Base) THEN in[s] ELSE allPretendo[s]]
    BY <1>2, NetworkOfIs, SelectionForIs DEF normalized
  <2>2. \A s \in Service : normalized(in)[s] \in providersFor(s, Base)
    BY <2>1, ProvidersForIs
  <2>3. \A s \in Service : /\ normalized(in)[s] = allPretendo[s] \/ normalized(in)[s] = "roseverse"
                           /\ normalized(in)[s] = "roseverse" => s \in {"account", "http", "miiverse"}
    BY <2>2, ProvidersForIs DEF allPretendo, Off
  <2>4. normalized(in) \in [Service -> {"pretendo", "roseverse", Off}]
    BY <2>1, <2>3 DEF allPretendo
  <2>5. Installable(normalized(in))
    BY <2>3, <2>4, SingleSources DEF allPretendo, Off
  <2> QED
    BY <2>4, <2>5 DEF Selection, Source
<1> QED
  BY <1>1, <1>2

-------------------------------------------------------------------------------
(* The three presets, written out. *)
LEMMA PresetsAre ==
  /\ selectionForPreset("pretendo") = allPretendo
  /\ selectionForPreset("roseverse") = withRoseverse
  /\ selectionForPreset("revivetendo") = allRevivetendo
<1>1. networkOf(allPretendo) = Base
  BY NetworkOfIs DEF allPretendo, Off
<1>2. "roseverse" \in providersFor("miiverse", Base)
  BY ProvidersForIs DEF Service
<1>3. allPretendo["miiverse"] = "pretendo"
  BY DEF allPretendo, Service
<1>4. ShippedBy["roseverse"] = {"account", "http", "miiverse"}
  BY DEF ShippedBy
<1>5. setProvider(allPretendo, "miiverse", "roseverse") = withRoseverse
  BY <1>1, <1>2, <1>3, <1>4 DEF setProvider, withRoseverse, Bundled, Base
<1> QED
  BY <1>5, SelectionForIs DEF selectionForPreset

LEMMA PresetsInstallable ==
  ASSUME NEW sel \in Offered
  PROVE  sel \in Selection /\ Installable(sel) /\ BundlesWhole(sel)
<1>1. CASE sel = allRevivetendo
  <2>1. BundlesWhole(sel)
    BY <1>1 DEF BundlesWhole, Bundled, allRevivetendo
  <2> QED
    BY <1>1, <2>1, NetworkInstallable DEF Selection, allRevivetendo, Source
<1>2. CASE sel = allPretendo
  <2>1. BundlesWhole(sel)
    BY <1>2 DEF BundlesWhole, Bundled, allPretendo, Off
  <2>2. sel \in [Service -> {"pretendo", "roseverse", Off}]
    BY <1>2 DEF allPretendo
  <2>3. Installable(sel)
    BY <1>2, <2>2, SingleSources DEF allPretendo, Off
  <2> QED
    BY <2>1, <2>2, <2>3 DEF Selection, Source
<1>3. CASE sel = withRoseverse
  <2>1. ShippedBy["roseverse"] = {"account", "http", "miiverse"} /\ ShippedBy["roseverse"] \subseteq Service
    BY DEF ShippedBy, Service
  <2>2. BundlesWhole(sel)
    BY <1>3, <2>1 DEF BundlesWhole, Bundled, withRoseverse
  <2>3. sel \in [Service -> {"pretendo", "roseverse", Off}]
    BY <1>3 DEF withRoseverse, allPretendo
  <2>4. Installable(sel)
    BY <1>3, <2>3, SingleSources DEF withRoseverse, allPretendo, Off
  <2> QED
    BY <2>2, <2>3, <2>4 DEF Selection, Source
<1> QED
  BY <1>1, <1>2, <1>3 DEF Offered

(* A preset that comes back from state.txt is the preset that was saved.   *)
LEMMA PresetsNormal ==
  ASSUME NEW sel \in Offered
  PROVE  normalized(sel) = sel
<1>1. CASE sel = allRevivetendo
  <2>1. networkOf(sel) = "revivetendo"
    BY <1>1, NetworkOfIs DEF allRevivetendo, Service
  <2> QED
    BY <1>1, <2>1, ProvidersForIs, SelectionForIs DEF normalized, allRevivetendo
<1>2. CASE sel = allPretendo
  <2>1. networkOf(sel) = Base
    BY <1>2, NetworkOfIs DEF allPretendo, Off
  <2> QED
    BY <1>2, <2>1, ProvidersForIs, SelectionForIs DEF normalized, allPretendo
<1>3. CASE sel = withRoseverse
  <2>1. networkOf(sel) = Base
    BY <1>3, NetworkOfIs DEF withRoseverse, allPretendo, Off
  <2>2. \A s \in Service : sel[s] \in providersFor(s, Base)
    BY <1>3, ProvidersForIs DEF withRoseverse
  <2> QED
    BY <1>3, <2>1, <2>2, SelectionForIs DEF normalized, withRoseverse
<1> QED
  BY <1>1, <1>2, <1>3 DEF Offered

-------------------------------------------------------------------------------
(* Choosing one provider keeps a selection installable and bundles whole.  *)
LEMMA SetProviderKeeps ==
  ASSUME NEW sel \in Selection, Installable(sel),
         NEW s \in Service, NEW p
  PROVE  /\ setProvider(sel, s, p) \in Selection
         /\ Installable(setProvider(sel, s, p))
         /\ BundlesWhole(sel) => BundlesWhole(setProvider(sel, s, p))
<1>1. CASE networkOf(sel) # Base \/ p \notin providersFor(s, Base)
  BY <1>1 DEF setProvider
<1>2. CASE networkOf(sel) = Base /\ p \in providersFor(s, Base)
  <2> DEFINE new == setProvider(sel, s, p)
             rose == {"account", "http", "miiverse"}
             left == IF sel[s] = "roseverse" /\ p # "roseverse"
                     THEN {t \in rose : sel[t] = "roseverse"} ELSE {}
             taken == IF p = "roseverse" THEN rose ELSE {}
  <2>1. ShippedBy["roseverse"] = rose /\ rose \subseteq Service
    BY DEF ShippedBy, Service
  <2>2. new = [t \in Service |-> IF t = s \/ t \in taken THEN p
                                 ELSE IF t \in left THEN "pretendo" ELSE sel[t]]
    BY <1>2, <2>1 DEF setProvider, Bundled, Base
  <2>3. \A t \in Service : /\ sel[t] \in {"pretendo", "roseverse", Off}
                           /\ sel[t] = "pretendo" => t # "eshop"
                           /\ sel[t] = "roseverse" => t \in rose
    <3> TAKE t \in Service
    <3>1. sel[t] # "revivetendo"
      BY <1>2, NetworkOfIs DEF Selection, Base
    <3>2. sel[t] = Off \/ (sel[t] \in Source /\ t \in ShippedBy[sel[t]])
      BY DEF Installable
    <3>3. "eshop" \notin ShippedBy["pretendo"]
      BY DEF ShippedBy
    <3>4. CASE sel[t] = Off
      BY <3>4 DEF Off
    <3>5. CASE sel[t] \in Source /\ t \in ShippedBy[sel[t]]
      <4>1. sel[t] = "pretendo" \/ sel[t] = "roseverse"
        BY <3>1, <3>5 DEF Source
      <4> QED
        BY <2>1, <3>3, <3>5, <4>1
    <3> QED
      BY <3>2, <3>4, <3>5
  <2>4. \/ p = "roseverse" /\ s \in rose
        \/ p = "pretendo" /\ s # "eshop"
        \/ p = Off
    BY <1>2, ProvidersForIs DEF allPretendo
  <2>5. \A t \in Service : /\ new[t] \in {"pretendo", "roseverse", Off}
                           /\ new[t] = "pretendo" => t # "eshop"
                           /\ new[t] = "roseverse" => t \in rose
    BY <2>2, <2>3, <2>4 DEF Off
  <2>6. new \in [Service -> {"pretendo", "roseverse", Off}]
    BY <2>2, <2>5
  <2>7. Installable(new)
    BY <2>5, <2>6, SingleSources
  <2>8. ASSUME BundlesWhole(sel) PROVE BundlesWhole(new)
    <3>1. (\E t \in Service : sel[t] = "roseverse") => \A t \in rose : sel[t] = "roseverse"
      BY <2>1, <2>8 DEF BundlesWhole, Bundled
    <3>2. (\E t \in Service : new[t] = "roseverse") => \A t \in rose : new[t] = "roseverse"
      <4>1. CASE p = "roseverse"
        BY <2>1, <2>2, <4>1
      <4>2. CASE p # "roseverse" /\ sel[s] = "roseverse"
        <5>1. \A t \in Service : new[t] # "roseverse"
          BY <2>2, <2>3, <4>2
        <5> QED
          BY <5>1
      <4>3. CASE p # "roseverse" /\ sel[s] # "roseverse"
        <5>1. \A t \in Service : new[t] = IF t = s THEN p ELSE sel[t]
          BY <2>2, <4>3
        <5>2. \A t \in Service : new[t] = "roseverse" <=> sel[t] = "roseverse"
          BY <4>3, <5>1
        <5> QED
          BY <2>1, <3>1, <5>2
      <4> QED
        BY <4>1, <4>2, <4>3
    <3> QED
      BY <2>1, <3>2 DEF BundlesWhole, Bundled
  <2> QED
    BY <2>6, <2>7, <2>8 DEF Selection, Source
<1> QED
  BY <1>1, <1>2
==============================================================================
