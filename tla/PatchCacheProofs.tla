-------------------------- MODULE PatchCacheProofs --------------------------
(***************************************************************************)
(* Proofs about what the app downloads.  The cache: what prepare hands     *)
(* over is whole, and a failed call leaves a whole cache, for every number *)
(* of versions, every choice of the files they ship and any number of      *)
(* failures.  And, at the end, SelfUpdate, the app's update of itself: it  *)
(* ends with the newest release, for any versions, releases and failures.  *)
(***************************************************************************)
EXTENDS PatchCache, SelfUpdate, FiniteSetTheorems, SequenceTheorems, WellFoundedInduction, TLAPS

Stages == {"check", "clear", "store", "drop", "tidy", "swap"}

(* While a call runs nothing is reported yet, and the source has what the  *)
(* call asks for.                                                          *)
Asking ==
  /\ want <= latest
  /\ pc \in Stages => result = "none"

(* Until the swap begins the old cache is as the call found it. *)
Untouched == pc \in {"check", "clear", "store", "drop"} => cache = before

(* A cache that names a version has all of it, unless a swap was cut short *)
(* or one is running.                                                      *)
Labelled ==
  pc \notin {"tidy", "swap"} /\ ~cut =>
    \A v \in Version : cache["version.txt"] = v => Whole(cache, v)

(* The files stored so far, and the whole fresh folder before the swap. *)
Stored ==
  /\ pc = "store" => \A f \in Ships[want] \ todo : Has(fresh, f, want)
  /\ pc \in {"drop", "tidy"} => Whole(fresh, want)

(* During the swap a file of the new version is in one of the two folders. *)
Swapping ==
  pc = "swap" => \A n \in Ships[want] \cup {"version.txt"} :
                   Has(IF n \in todo THEN fresh ELSE cache, n, want)

IInv ==
  /\ TypeOK /\ Asking /\ Untouched /\ Labelled /\ Stored /\ Swapping
  /\ PreparedIsWhole /\ FailureKeepsACache

-------------------------------------------------------------------------------
LEMMA ShipsNames ==
  ASSUME NEW v \in Version
  PROVE  Ships[v] \subseteq PatchFile /\ "version.txt" \notin Ships[v]
BY CacheAssumption DEF Version

(* Only a file that is there has the content of a version. *)
LEMMA HasIsThere ==
  ASSUME NEW dir \in [Name -> Content], NEW n \in Name, NEW v \in Version,
         raw \in BOOLEAN, Has(dir, n, v)
  PROVE  dir[n] # None
BY CacheAssumption DEF Has, Content, Version, None, Torn

LEMMA KeepType ==
  ASSUME NEW dir \in [Name -> Content], NEW K
  PROVE  Keep(dir, K) \in [Name -> Content]
BY DEF Keep, Content

-------------------------------------------------------------------------------
(* Types: the folders only ever hold published versions or torn files.     *)
LEMMA TypeStep == TypeOK /\ [Next]_vars => TypeOK'
<1> SUFFICES ASSUME TypeOK, [Next]_vars PROVE TypeOK'
  OBVIOUS
<1> USE CacheAssumption DEF TypeOK
<1>1. CASE Publish
  BY <1>1 DEF Publish, call, Version
<1>2. CASE Ask
  BY <1>2 DEF Ask, source, Fault, NoFault
<1>3. CASE Check
  BY <1>3 DEF Check, source
<1>4. CASE Clear
  <2>1. Ships[want] \in SUBSET Name
    BY ShipsNames DEF Name
  <2>2. fresh' \in [Name -> Content]
    BY <1>4, KeepType DEF Clear, Empty, Content
  <2> QED
    BY <1>4, <2>1, <2>2 DEF Clear, source, Fault, NoFault
<1>5. CASE Stamp
  BY <1>5 DEF Stamp, source, Content
<1>6. CASE GiveUp
  BY <1>6, KeepType DEF GiveUp, source, Fault
<1>7. CASE Drop
  <2>1. cache' \in [Name -> Content]
    BY <1>7, KeepType DEF Drop, Empty, Content
  <2> QED
    BY <1>7, <2>1 DEF Drop, source, Fault, NoFault
<1>8. CASE Tidy
  <2>1. cache' \in [Name -> Content]
    BY <1>8, KeepType DEF Tidy
  <2> QED
    BY <1>8, <2>1 DEF Tidy, NamesIn, source, Fault, NoFault
<1>9. CASE EndSwap
  <2>1. /\ pc' = "idle" /\ result' \in {"downloaded", "failed"} /\ cut' = FALSE
        /\ UNCHANGED <<latest, raw, cache, fresh, want, todo, before>>
    BY <1>9 DEF EndSwap, source
  <2>2. faults' \in 0 .. MaxFaults
    BY <1>9 DEF EndSwap, Fault, NoFault
  <2> QED
    BY <2>1, <2>2
<1>10. CASE \E f \in PatchFile : Store(f)
  BY <1>10 DEF Store, source, Content
<1>11. CASE \E n \in Name : MoveOne(n)
  BY <1>11 DEF MoveOne, source, Content
<1>12. CASE \E n \in Name : MoveFail(n)
  BY <1>12 DEF MoveFail, source, Content, Fault
<1>13. CASE PowerLoss
  BY <1>13 DEF PowerLoss, source, Fault
<1>14. CASE UNCHANGED vars
  BY <1>14 DEF vars, source, call
<1> QED
  BY <1>1, <1>2, <1>3, <1>4, <1>5, <1>6, <1>7, <1>8, <1>9, <1>10, <1>11, <1>12,
     <1>13, <1>14 DEF Next

-------------------------------------------------------------------------------
(* Whole only depends on the folder, the version and the kind of source. *)
LEMMA StoreStep ==
  ASSUME IInv, TypeOK', NEW f \in PatchFile, Store(f)
  PROVE  IInv'
<1> USE CacheAssumption DEF IInv, TypeOK
<1>1. /\ pc = "store" /\ pc' = "store" /\ cache' = cache /\ want' = want
      /\ latest' = latest /\ raw' = raw /\ result' = result
      /\ before' = before /\ cut' = cut /\ todo' = todo \ {f}
      /\ fresh' = [fresh EXCEPT ![f] = IF raw THEN latest ELSE want]
  BY DEF Store, source
<1>2. Has(fresh, f, want)'
  BY <1>1, f \in Name DEF Has, Asking, Version, Name
<1>3. (\A g \in Ships[want] \ todo : Has(fresh, g, want))'
  <2> SUFFICES ASSUME NEW g \in PatchFile, g \in Ships[want'] \ todo'
               PROVE  Has(fresh, g, want)'
    BY ShipsNames
  <2>1. CASE g = f
    BY <1>2, <2>1
  <2>2. CASE g # f
    <3>1. g \in Ships[want] \ todo /\ g \in Name
      BY <1>1, <2>2, ShipsNames DEF Name
    <3>2. Has(fresh, g, want) /\ fresh'[g] = fresh[g]
      BY <1>1, <2>2, <3>1 DEF Stored
    <3> QED
      BY <1>1, <3>2 DEF Has
  <2> QED
    BY <2>1, <2>2
<1>4. Asking' /\ Untouched' /\ Stored' /\ Swapping'
  BY <1>1, <1>3 DEF Asking, Untouched, Stored, Swapping, Stages
<1>5. Labelled' /\ PreparedIsWhole' /\ FailureKeepsACache'
  BY <1>1 DEF Labelled, PreparedIsWhole, FailureKeepsACache, Whole, Has
<1> QED
  BY <1>4, <1>5

(* version.txt is the last file the fresh folder gets. *)
LEMMA StampStep ==
  ASSUME IInv, TypeOK', Stamp
  PROVE  IInv'
<1> USE CacheAssumption DEF IInv, TypeOK
<1>1. /\ pc = "store" /\ pc' = "drop" /\ todo = {} /\ cache' = cache /\ want' = want
      /\ latest' = latest /\ raw' = raw /\ result' = result
      /\ before' = before /\ cut' = cut
      /\ fresh' = [fresh EXCEPT !["version.txt"] = want]
  BY DEF Stamp, source
<1>2. ASSUME NEW n \in PatchFile, n \in Ships[want] PROVE Has(fresh, n, want)'
  <2>1. n \in Name /\ n # "version.txt"
    BY ShipsNames DEF Name
  <2>2. Has(fresh, n, want) /\ fresh'[n] = fresh[n]
    BY <1>1, <1>2, <2>1 DEF Stored
  <2> QED
    BY <1>1, <2>2 DEF Has
<1>3. Has(fresh, "version.txt", want)'
  BY <1>1 DEF Has, Name
<1>4. Whole(fresh, want)'
  BY <1>1, <1>2, <1>3, ShipsNames DEF Whole
<1>5. Asking' /\ Untouched' /\ Stored' /\ Swapping'
  BY <1>1, <1>4 DEF Asking, Untouched, Stored, Swapping, Stages
<1>6. Labelled' /\ PreparedIsWhole' /\ FailureKeepsACache'
  BY <1>1 DEF Labelled, PreparedIsWhole, FailureKeepsACache, Whole, Has
<1> QED
  BY <1>5, <1>6

(* Before the swap every file of the new version is in the fresh folder. *)
LEMMA TidyStep ==
  ASSUME IInv, TypeOK', Tidy
  PROVE  IInv'
<1> USE CacheAssumption DEF IInv, TypeOK
<1>1. /\ pc = "tidy" /\ pc' = "swap" /\ want' = want /\ fresh' = fresh
      /\ latest' = latest /\ raw' = raw /\ result' = result /\ result = "none"
      /\ todo' = NamesIn(fresh)
  BY DEF Tidy, source, Asking, Stages
<1>2. ASSUME NEW n \in Name, n \in Ships[want] \cup {"version.txt"}
      PROVE  n \in todo' /\ Has(fresh, n, want)'
  <2>2. Has(fresh, n, want)
    BY <1>1, <1>2 DEF Stored, Whole
  <2>3. fresh[n] # None
    BY <2>2, HasIsThere
  <2> QED
    BY <1>1, <2>2, <2>3 DEF NamesIn, Has
<1>3. Swapping'
  BY <1>1, <1>2, ShipsNames DEF Swapping, Name
<1> QED
  BY <1>1, <1>3 DEF Asking, Untouched, Labelled, Stored, PreparedIsWhole, FailureKeepsACache,
     Stages

(* A file that is moved has in the cache what it had in the fresh folder. *)
LEMMA MoveOneStep ==
  ASSUME IInv, TypeOK', NEW n \in Name, MoveOne(n)
  PROVE  IInv'
<1> USE CacheAssumption DEF IInv, TypeOK
<1>1. /\ pc = "swap" /\ pc' = "swap" /\ want' = want /\ n \in todo
      /\ latest' = latest /\ raw' = raw /\ result' = result /\ result = "none"
      /\ cache' = [cache EXCEPT ![n] = fresh[n]]
      /\ fresh' = [fresh EXCEPT ![n] = None]
      /\ todo' = todo \ {n}
  BY DEF MoveOne, source, Asking, Stages
<1>2. ASSUME NEW m \in Name, m \in Ships[want] \cup {"version.txt"}
      PROVE  Has(IF m \in todo THEN fresh ELSE cache, m, want)'
  <2>2. Has(IF m \in todo THEN fresh ELSE cache, m, want)
    BY <1>1, <1>2 DEF Swapping
  <2>3. CASE m = n
    BY <1>1, <2>2, <2>3 DEF Has
  <2>4. CASE m # n
    BY <1>1, <2>2, <2>4 DEF Has
  <2> QED
    BY <2>3, <2>4
<1>3. Swapping'
  BY <1>1, <1>2, ShipsNames DEF Swapping, Name
<1> QED
  BY <1>1, <1>3 DEF Asking, Untouched, Labelled, Stored, PreparedIsWhole, FailureKeepsACache,
     Stages

(* Once nothing is left to move, the cache is the new version. *)
LEMMA EndSwapStep ==
  ASSUME IInv, TypeOK', EndSwap
  PROVE  IInv'
<1> USE CacheAssumption DEF IInv, TypeOK
<1>1. /\ pc = "swap" /\ pc' = "idle" /\ want' = want /\ todo = {} /\ cache' = cache
      /\ latest' = latest /\ raw' = raw /\ result' \in {"downloaded", "failed"}
  BY DEF EndSwap, source
<1>2. Whole(cache, want)'
  BY <1>1 DEF Swapping, Whole, Has
<1>3. Labelled'
  <2> SUFFICES ASSUME NEW v \in Version, cache'["version.txt"] = v
               PROVE  Whole(cache, v)'
    BY DEF Labelled
  <2>1. v = want'
    BY <1>1, <1>2 DEF Whole, Has
  <2> QED
    BY <1>2, <2>1
<1> QED
  BY <1>1, <1>2, <1>3 DEF Asking, Untouched, Stored, Swapping, PreparedIsWhole,
     FailureKeepsACache, Stages

(* A version that is named is the one that was asked for. *)
LEMMA CheckStep ==
  ASSUME IInv, TypeOK', Check
  PROVE  IInv'
<1> USE CacheAssumption DEF IInv, TypeOK
<1>1. /\ pc = "check" /\ want' = want /\ cache' = cache /\ latest' = latest /\ raw' = raw
      /\ before' = before /\ cut' = cut /\ result = "none"
      /\ \/ pc' = "idle" /\ result' = "reused" /\ cache["version.txt"] = want
         \/ pc' = "clear" /\ result' = result
  BY DEF Check, source, Current, Asking, Stages
<1>2. Labelled'
  BY <1>1 DEF Labelled, Whole, Has
<1>3. PreparedIsWhole'
  BY <1>1, <1>2 DEF PreparedIsWhole, Labelled
<1> QED
  BY <1>1, <1>2, <1>3 DEF Asking, Untouched, Stored, Swapping, FailureKeepsACache, Stages

-------------------------------------------------------------------------------
LEMMA Invariance == IInv /\ [Next]_vars => IInv'
<1> SUFFICES ASSUME IInv, [Next]_vars PROVE IInv'
  OBVIOUS
<1>0. TypeOK'
  BY TypeStep DEF IInv
<1> USE CacheAssumption DEF IInv, TypeOK
<1>1. CASE Publish
  BY <1>0, <1>1 DEF Publish, call, Asking, Untouched, Labelled, Stored, Swapping,
     PreparedIsWhole, FailureKeepsACache, Whole, Has, Version
<1>2. CASE Ask
  BY <1>0, <1>2 DEF Ask, source, Asking, Untouched, Labelled, Stored, Swapping,
     PreparedIsWhole, FailureKeepsACache, Whole, Has, Version, Stages
<1>3. CASE Check
  BY <1>0, <1>3, CheckStep
<1>4. CASE Clear
  BY <1>0, <1>4 DEF Clear, source, Asking, Untouched, Labelled, Stored, Swapping,
     PreparedIsWhole, FailureKeepsACache, Whole, Has, Stages
<1>5. CASE Stamp
  BY <1>0, <1>5, StampStep
<1>6. CASE GiveUp
  BY <1>0, <1>6 DEF GiveUp, source, Asking, Untouched, Labelled, Stored, Swapping,
     PreparedIsWhole, FailureKeepsACache, Whole, Has, Stages
<1>7. CASE Drop
  BY <1>0, <1>7 DEF Drop, source, Asking, Untouched, Labelled, Stored, Swapping,
     PreparedIsWhole, FailureKeepsACache, Whole, Has, Stages
<1>8. CASE Tidy
  BY <1>0, <1>8, TidyStep
<1>9. CASE EndSwap
  BY <1>0, <1>9, EndSwapStep
<1>10. CASE \E f \in PatchFile : Store(f)
  BY <1>0, <1>10, StoreStep
<1>11. CASE \E n \in Name : MoveOne(n)
  BY <1>0, <1>11, MoveOneStep
<1>12. CASE \E n \in Name : MoveFail(n)
  BY <1>0, <1>12 DEF MoveFail, source, Asking, Untouched, Labelled, Stored, Swapping,
     PreparedIsWhole, FailureKeepsACache, Stages
<1>13. CASE PowerLoss
  BY <1>0, <1>13 DEF PowerLoss, source, Asking, Untouched, Labelled, Stored, Swapping,
     PreparedIsWhole, FailureKeepsACache, Whole, Has, Stages
<1>14. CASE UNCHANGED vars
  BY <1>0, <1>14 DEF vars, source, call, Asking, Untouched, Labelled, Stored, Swapping,
     PreparedIsWhole, FailureKeepsACache, Whole, Has
<1> QED
  BY <1>1, <1>2, <1>3, <1>4, <1>5, <1>6, <1>7, <1>8, <1>9, <1>10, <1>11, <1>12,
     <1>13, <1>14 DEF Next

LEMMA Initial == Init => IInv
<1> SUFFICES ASSUME Init PROVE IInv
  OBVIOUS
<1>1. 0 \notin Version /\ 1 \in Version /\ "version.txt" \in Name
  BY CacheAssumption DEF Version, Name
<1>2. TypeOK
  <2>1. cache \in [Name -> Content] /\ fresh \in [Name -> Content] /\ before \in [Name -> Content]
    BY DEF Init, Empty, Content
  <2>2. latest \in Version /\ want \in Version /\ faults \in 0 .. MaxFaults
    BY <1>1, CacheAssumption DEF Init
  <2> QED
    BY <2>1, <2>2 DEF Init, TypeOK
<1>3. \A v \in Version : cache["version.txt"] # v
  BY <1>1 DEF Init, Empty, None
<1>4. Asking /\ Untouched /\ Stored /\ Swapping /\ PreparedIsWhole /\ FailureKeepsACache
  BY CacheAssumption DEF Init, Asking, Untouched, Stored, Swapping, PreparedIsWhole,
     FailureKeepsACache, Stages
<1> QED
  BY <1>2, <1>3, <1>4 DEF IInv, Labelled

(* What Manager::prepare reports as reused or downloaded is in the cache   *)
(* with every file of that version, after any failures of earlier calls,   *)
(* as long as no swap was cut short since the last whole one.              *)
THEOREM AlwaysWhole == Spec => []PreparedIsWhole
<1>1. IInv => PreparedIsWhole
  BY DEF IInv
<1> QED
  BY Initial, Invariance, <1>1, PTL DEF Spec

(* A call of Manager::prepare that fails leaves the cache it found, or the *)
(* new one, unless the swap itself was cut short.                          *)
THEOREM AlwaysACache == Spec => []FailureKeepsACache
<1>1. IInv => FailureKeepsACache
  BY DEF IInv
<1> QED
  BY Initial, Invariance, <1>1, PTL DEF Spec

-------------------------------------------------------------------------------
(* The app's update of itself. *)

(* Any set of numbers has a smallest one: the sets 0..i are well-founded.  *)
LEMMA SmallestNumber ==
  ASSUME NEW I \in SUBSET Nat, I # {}
  PROVE  \E m \in I : \A j \in I : m <= j
<1> DEFINE Below == {0 .. i : i \in I}
<1>1. IsWellFoundedOn(StrictSubsetOrdering(Nat), FiniteSubsetsOf(Nat))
  BY FS_StrictSubsetOrderingWellFounded
<1>2. \A i \in I : 0 .. i \in FiniteSubsetsOf(Nat)
  BY FS_Interval DEF FiniteSubsetsOf
<1>3. Below \subseteq FiniteSubsetsOf(Nat) /\ Below # {}
  BY <1>2
<1>4. PICK S \in Below : \A T \in Below : ~(<<T, S>> \in StrictSubsetOrdering(Nat))
  BY <1>1, <1>3, WFMin
<1>5. PICK m \in I : S = 0 .. m
  BY <1>4
<1>6. ASSUME NEW j \in I PROVE m <= j
  <2>1. ~(<<0 .. j, 0 .. m>> \in StrictSubsetOrdering(Nat))
    BY <1>4, <1>5, <1>6
  <2>2. ASSUME j < m PROVE FALSE
    <3>1. m \in 0 .. m /\ m \notin 0 .. j /\ 0 .. j \subseteq 0 .. m
      BY <1>5, <1>6, <2>2
    <3> QED
      BY <2>1, <3>1 DEF StrictSubsetOrdering
  <2> QED
    BY <1>5, <1>6, <2>2
<1> QED
  BY <1>6

(* A number of a version, also one that is missing. *)
LEMMA PartType ==
  ASSUME NEW a \in Seq(Nat), NEW k \in Nat \ {0}
  PROVE  Part(a, k) \in Nat /\ (k > Len(a) => Part(a, k) = 0)
BY DEF Part

(* Newer: the first place where two versions differ, wherever it is.       *)
LEMMA NewerSomewhere ==
  ASSUME NEW a \in Seq(Nat), NEW b \in Seq(Nat)
  PROVE  Newer(a, b) <=>
           \E k \in Nat \ {0} : /\ Part(a, k) > Part(b, k)
                                /\ \A j \in 1 .. k - 1 : Part(a, j) = Part(b, j)
<1>1. \A k \in Nat \ {0} : Part(a, k) \in Nat /\ (k > Len(a) => Part(a, k) = 0)
  BY PartType
<1>2. \A k \in Nat \ {0} : Part(b, k) \in Nat
  BY PartType
<1>3. Len(a) \in Nat /\ Len(b) \in Nat
  OBVIOUS
<1>4. \A k \in 1 .. Len(a) + Len(b) : k \in Nat \ {0}
  BY <1>3
<1>5. \A k \in Nat \ {0} : Part(a, k) > Part(b, k) => k \in 1 .. Len(a) + Len(b)
  <2> SUFFICES ASSUME NEW k \in Nat \ {0}, Part(a, k) > Part(b, k)
               PROVE  k \in 1 .. Len(a) + Len(b)
    OBVIOUS
  <2>1. ~(k > Len(a))
    BY <1>1, <1>2
  <2> QED
    BY <1>3, <2>1
<1>6. ASSUME Newer(a, b)
      PROVE  \E k \in Nat \ {0} :
               /\ Part(a, k) > Part(b, k)
               /\ \A j \in 1 .. k - 1 : Part(a, j) = Part(b, j)
  BY <1>4, <1>6 DEF Newer
<1>7. ASSUME NEW k \in Nat \ {0}, Part(a, k) > Part(b, k),
             \A j \in 1 .. k - 1 : Part(a, j) = Part(b, j)
      PROVE  Newer(a, b)
  BY <1>5, <1>7 DEF Newer
<1> QED
  BY <1>6, <1>7

(* compareVersions finds the order of versions. *)
LEMMA ComparesNewer ==
  ASSUME NEW a \in Seq(Nat), NEW b \in Seq(Nat)
  PROVE  compareVersions(a, b) > 0 <=> Newer(a, b)
<1> DEFINE n == IF Len(a) > Len(b) THEN Len(a) ELSE Len(b)
           D == Differing(a, b)
<1>1. D = {k \in 1 .. n : Part(a, k) # Part(b, k)}
  BY DEF Differing
<1>2. Len(a) \in Nat /\ Len(b) \in Nat /\ n \in Nat /\ n >= Len(a) /\ n >= Len(b)
  OBVIOUS
<1>3. \A k \in Nat \ {0} :
        /\ Part(a, k) \in Nat /\ (k > Len(a) => Part(a, k) = 0)
        /\ Part(b, k) \in Nat /\ (k > Len(b) => Part(b, k) = 0)
  BY PartType
<1>4. \A k \in Nat \ {0} : k \notin D => Part(a, k) = Part(b, k)
  BY <1>1, <1>2, <1>3
<1>5. CASE D = {}
  <2>1. ~Newer(a, b)
    BY <1>3, <1>4, <1>5, NewerSomewhere
  <2> QED
    BY <1>5, <2>1 DEF compareVersions
<1>6. CASE D # {}
  <2> DEFINE i == Min(D)
  <2>1. D \in SUBSET Nat /\ D \subseteq Nat \ {0}
    BY <1>1
  <2>2. i \in D /\ \A j \in D : i <= j
    BY <1>6, <2>1, SmallestNumber DEF Min
  <2>3. i \in Nat \ {0} /\ Part(a, i) # Part(b, i)
    BY <1>1, <2>2
  <2>4. \A j \in 1 .. i - 1 : Part(a, j) = Part(b, j)
    BY <1>4, <2>1, <2>2, <2>3
  <2>5. compareVersions(a, b)
          = IF Part(a, i) < Part(b, i) THEN -1 ELSE 1
    BY <1>6 DEF compareVersions
  <2> HIDE DEF i, D
  <2>6. compareVersions(a, b) > 0 <=> Part(a, i) > Part(b, i)
    BY <1>3, <2>3, <2>5
  <2>7. CASE Part(a, i) > Part(b, i)
    BY <2>3, <2>4, <2>6, <2>7, NewerSomewhere
  <2>8. CASE ~(Part(a, i) > Part(b, i))
    <3>1. Part(a, i) < Part(b, i)
      BY <1>3, <2>3, <2>8
    <3>2. ASSUME NEW k \in Nat \ {0}, Part(a, k) > Part(b, k),
                 \A j \in 1 .. k - 1 : Part(a, j) = Part(b, j)
          PROVE  FALSE
      <4>1. k \in D
        BY <1>3, <1>4, <3>2
      <4>2. i <= k /\ i # k
        BY <2>2, <2>8, <3>2, <4>1
      <4> QED
        BY <2>3, <3>2, <4>2
    <3> QED
      BY <2>6, <2>8, <3>2, NewerSomewhere
  <2> QED
    BY <2>7, <2>8
<1> QED
  BY <1>5, <1>6

(* The order of versions is transitive and strict. *)
LEMMA NewerOrder ==
  ASSUME NEW a \in Seq(Nat), NEW b \in Seq(Nat), NEW c \in Seq(Nat)
  PROVE  /\ ~Newer(a, a)
         /\ Newer(a, b) /\ Newer(b, c) => Newer(a, c)
<1>1. \A k \in Nat \ {0} : /\ Part(a, k) \in Nat /\ Part(b, k) \in Nat
                           /\ Part(c, k) \in Nat
  BY PartType
<1>2. ~Newer(a, a)
  BY <1>1, NewerSomewhere
<1>3. ASSUME Newer(a, b), Newer(b, c) PROVE Newer(a, c)
  <2>1. PICK k \in Nat \ {0} : /\ Part(a, k) > Part(b, k)
                               /\ \A j \in 1 .. k - 1 : Part(a, j) = Part(b, j)
    BY <1>3, NewerSomewhere
  <2>2. PICK l \in Nat \ {0} : /\ Part(b, l) > Part(c, l)
                               /\ \A j \in 1 .. l - 1 : Part(b, j) = Part(c, j)
    BY <1>3, NewerSomewhere
  <2>3. CASE k <= l
    <3>1. k = l \/ Part(b, k) = Part(c, k)
      <4>1. k = l \/ k \in 1 .. l - 1
        BY <2>1, <2>2, <2>3
      <4> QED
        BY <2>2, <4>1
    <3>3. Part(a, k) > Part(c, k)
      <4>1. Part(b, k) > Part(c, k) \/ Part(b, k) = Part(c, k)
        BY <2>2, <3>1
      <4>2. Part(a, k) \in Nat /\ Part(b, k) \in Nat /\ Part(c, k) \in Nat
        BY <1>1
      <4> QED
        BY <2>1, <4>1, <4>2
    <3>2. ASSUME NEW j \in 1 .. k - 1 PROVE Part(a, j) = Part(c, j)
      <4>1. j \in 1 .. l - 1
        BY <2>1, <2>2, <2>3, <3>2
      <4> QED
        BY <2>1, <2>2, <3>2, <4>1
    <3> QED
      BY <3>2, <3>3, NewerSomewhere
  <2>4. CASE l < k
    <3>1. Part(a, l) > Part(c, l)
      BY <1>1, <2>1, <2>2, <2>4
    <3>2. \A j \in 1 .. l - 1 : Part(a, j) = Part(c, j)
      BY <2>1, <2>2, <2>4
    <3> QED
      BY <3>1, <3>2, NewerSomewhere
  <2> QED
    BY <2>3, <2>4
<1> QED
  BY <1>2, <1>3

(* What the loop over the release list has taken after each of its steps.  *)
BestSteps(list, f, n) ==
  /\ f[0] = 0
  /\ \A k \in 1 .. n :
       f[k] = IF Eligible(list[k])
                 /\ (\/ f[k - 1] = 0
                     \/ compareVersions(list[k].tag, list[f[k - 1]].tag) > 0)
              THEN k ELSE f[k - 1]

(* The loop has an outcome for every list. *)
LEMMA BestExists ==
  ASSUME NEW list, NEW n \in Nat
  PROVE  \E f : f = [i \in 0 .. n |->
                       IF i = 0 THEN 0
                       ELSE IF Eligible(list[i])
                               /\ (\/ f[i - 1] = 0
                                   \/ compareVersions(list[i].tag, list[f[i - 1]].tag) > 0)
                       THEN i ELSE f[i - 1]]
<1> DEFINE Step(f, i) ==
             IF i = 0 THEN 0
             ELSE IF Eligible(list[i])
                     /\ (\/ f[i - 1] = 0
                         \/ compareVersions(list[i].tag, list[f[i - 1]].tag) > 0)
             THEN i ELSE f[i - 1]
           Goes(m) == \E f : f = [i \in 0 .. m |-> Step(f, i)]
           Stuck == {m \in Nat : ~Goes(m)}
<1>1. Goes(0)
  <2> DEFINE f == [i \in 0 .. 0 |-> 0]
  <2>1. f = [i \in 0 .. 0 |-> Step(f, i)]
    OBVIOUS
  <2> QED
    BY <2>1
<1>2. ASSUME NEW m \in Nat, Goes(m) PROVE Goes(m + 1)
  <2>1. PICK f : f = [i \in 0 .. m |-> Step(f, i)]
    BY <1>2
  <2> DEFINE g == [i \in 0 .. m + 1 |-> IF i = m + 1 THEN Step(f, i) ELSE f[i]]
  <2>2. \A i \in 0 .. m : g[i] = f[i]
    OBVIOUS
  <2>3. ASSUME NEW i \in 0 .. m + 1 PROVE Step(g, i) = Step(f, i)
    <3>1. i = 0 \/ i - 1 \in 0 .. m
      OBVIOUS
    <3> QED
      BY <2>2, <3>1
  <2>4. \A i \in 0 .. m : f[i] = Step(f, i)
    BY <2>1
  <2> HIDE DEF Step
  <2>5. \A i \in 0 .. m + 1 : g[i] = Step(g, i)
    BY <2>3, <2>4
  <2> QED
    BY <2>5
<1> HIDE DEF Goes
<1>3. Stuck = {}
  <2> SUFFICES ASSUME Stuck # {} PROVE FALSE
    OBVIOUS
  <2>1. PICK m \in Stuck : \A j \in Stuck : m <= j
    BY SmallestNumber
  <2>2. m \in Nat /\ ~Goes(m)
    BY <2>1
  <2>3. m # 0
    BY <1>1, <2>2
  <2>4. m - 1 \in Nat /\ Goes(m - 1)
    BY <2>1, <2>2, <2>3
  <2>5. Goes((m - 1) + 1)
    BY <1>2, <2>4
  <2>6. (m - 1) + 1 = m
    BY <2>2
  <2> QED
    BY <2>2, <2>5, <2>6
<1>4. Goes(n)
  BY <1>3
<1> QED
  BY <1>4 DEF Goes

LEMMA BestRuns ==
  ASSUME NEW list \in Seq(Release)
  PROVE  BestSteps(list, Best(list), Len(list))
<1> DEFINE n == Len(list)
           f == Best(list)
<1>1. n \in Nat
  OBVIOUS
<1>2. f = [i \in 0 .. n |->
             IF i = 0 THEN 0
             ELSE IF Eligible(list[i])
                     /\ (\/ f[i - 1] = 0
                         \/ compareVersions(list[i].tag, list[f[i - 1]].tag) > 0)
             THEN i ELSE f[i - 1]]
  BY <1>1, BestExists DEF Best
<1> HIDE DEF f, n
<1>3. f[0] = 0
  BY <1>1, <1>2
<1>4. ASSUME NEW k \in 1 .. n
      PROVE  f[k] = IF Eligible(list[k])
                       /\ (\/ f[k - 1] = 0
                           \/ compareVersions(list[k].tag, list[f[k - 1]].tag) > 0)
                    THEN k ELSE f[k - 1]
  <2>1. k \in 0 .. n /\ k # 0
    BY <1>1, <1>4
  <2> QED
    BY <1>2, <2>1
<1>5. BestSteps(list, f, n)
  BY <1>3, <1>4 DEF BestSteps
<1> QED
  BY <1>5 DEF f, n

(* What the loop has taken is the newest of the eligible releases so far.  *)
NewestSoFar(list, f, k) ==
  /\ f[k] \in 0 .. k
  /\ f[k] # 0 => Eligible(list[f[k]])
  /\ \A j \in 1 .. k :
       Eligible(list[j]) => f[k] # 0 /\ ~Newer(list[j].tag, list[f[k]].tag)

LEMMA NewestStep ==
  ASSUME NEW list \in Seq(Release), NEW f,
         BestSteps(list, f, Len(list)), NEW k \in 1 .. Len(list), NewestSoFar(list, f, k - 1)
  PROVE  NewestSoFar(list, f, k)
<1> DEFINE b == f[k - 1]
<1>1. k \in Nat \ {0} /\ k <= Len(list) /\ b \in 0 .. k - 1
  <2>1. k \in Nat \ {0} /\ k <= Len(list)
    BY LenProperties
  <2>2. b \in 0 .. k - 1
    BY DEF NewestSoFar
  <2> QED
    BY <2>1, <2>2
<1>2. \A j \in 1 .. Len(list) : list[j].tag \in Seq(Nat)
  <2>1. \A j \in 1 .. Len(list) : list[j] \in Release
    OBVIOUS
  <2>2. \A r \in Release : r.tag \in Tag
    BY DEF Release
  <2> QED
    BY <2>1, <2>2, UpdateAssumption
<1>3. f[k] = IF Eligible(list[k])
                /\ (b = 0 \/ compareVersions(list[k].tag, list[b].tag) > 0)
             THEN k ELSE b
  BY DEF BestSteps
<1>4. \A j \in 1 .. k : j = k \/ j \in 1 .. k - 1
  BY <1>1
<1>5. CASE Eligible(list[k]) /\ b = 0
  <2>1. f[k] = k /\ \A j \in 1 .. k - 1 : ~Eligible(list[j])
    BY <1>3, <1>5 DEF NewestSoFar
  <2>2. ~Newer(list[k].tag, list[k].tag)
    BY <1>1, <1>2, NewerOrder
  <2> QED
    BY <1>1, <1>4, <1>5, <2>1, <2>2 DEF NewestSoFar
<1>6. CASE Eligible(list[k]) /\ b # 0
           /\ compareVersions(list[k].tag, list[b].tag) > 0
  <2>1. f[k] = k
    BY <1>3, <1>6
  <2>2. list[k].tag \in Seq(Nat) /\ list[b].tag \in Seq(Nat) /\ b \in 1 .. Len(list)
    BY <1>1, <1>2, <1>6
  <2>3. Newer(list[k].tag, list[b].tag)
    BY <1>6, <2>2, ComparesNewer
  <2>4. ASSUME NEW j \in 1 .. k - 1, Eligible(list[j])
        PROVE  ~Newer(list[j].tag, list[k].tag)
    <3>1. ~Newer(list[j].tag, list[b].tag)
      BY <2>4 DEF NewestSoFar
    <3>2. list[j].tag \in Seq(Nat)
      BY <1>1, <1>2, <2>4
    <3> QED
      BY <2>2, <2>3, <3>1, <3>2, NewerOrder
  <2>5. ~Newer(list[k].tag, list[k].tag)
    BY <2>2, NewerOrder
  <2> QED
    BY <1>1, <1>4, <1>6, <2>1, <2>4, <2>5 DEF NewestSoFar
<1>7. CASE Eligible(list[k]) /\ b # 0
           /\ ~(compareVersions(list[k].tag, list[b].tag) > 0)
  <2>1. f[k] = b
    BY <1>3, <1>7
  <2>2. list[k].tag \in Seq(Nat) /\ list[b].tag \in Seq(Nat)
    BY <1>1, <1>2, <1>7
  <2>3. ~Newer(list[k].tag, list[b].tag)
    BY <1>7, <2>2, ComparesNewer
  <2> QED
    BY <1>1, <1>4, <1>7, <2>1, <2>3 DEF NewestSoFar
<1>8. CASE ~Eligible(list[k])
  <2>1. f[k] = b
    BY <1>3, <1>8
  <2> QED
    BY <1>1, <1>4, <1>8, <2>1 DEF NewestSoFar
<1> QED
  BY <1>5, <1>6, <1>7, <1>8

(* The loop ends with the newest eligible release of the list, if any.     *)
LEMMA FindsNewest ==
  ASSUME NEW list \in Seq(Release)
  PROVE  LET best == findLatestByTagPrefix(list)
         IN  /\ best \in 0 .. Len(list)
             /\ best # 0 => Eligible(list[best])
             /\ \A j \in 1 .. Len(list) :
                  Eligible(list[j])
                    => best # 0 /\ ~Newer(list[j].tag, list[best].tag)
<1> DEFINE f == Best(list)
           n == Len(list)
           Wrong == {k \in 0 .. n : ~NewestSoFar(list, f, k)}
<1>1. n \in Nat
  OBVIOUS
<1>2. BestSteps(list, f, n)
  BY BestRuns
<1>3. NewestSoFar(list, f, 0)
  BY <1>2 DEF BestSteps, NewestSoFar
<1>4. Wrong = {}
  <2> SUFFICES ASSUME Wrong # {} PROVE FALSE
    OBVIOUS
  <2>1. Wrong \in SUBSET Nat
    BY <1>1
  <2>2. PICK m \in Wrong : \A j \in Wrong : m <= j
    BY <2>1, SmallestNumber
  <2>3. m \in 1 .. n
    BY <1>3, <2>2
  <2>4. NewestSoFar(list, f, m - 1)
    BY <1>1, <2>2, <2>3
  <2> HIDE DEF f
  <2>5. NewestSoFar(list, f, m)
    BY <1>2, <2>3, <2>4, NewestStep
  <2> QED
    BY <2>2, <2>5
<1>5. NewestSoFar(list, f, n)
  BY <1>1, <1>4
<1>6. findLatestByTagPrefix(list) = f[n]
  BY DEF findLatestByTagPrefix
<1> HIDE DEF f
<1> QED
  BY <1>5, <1>6 DEF NewestSoFar

-------------------------------------------------------------------------------
Updating == {"fetch", "start", "write"}

(* A release of this version can be had. *)
Released(tag) ==
  \E i \in 1 .. Len(releases) : Eligible(releases[i]) /\ releases[i].tag = tag

UpdateTypes ==
  /\ releases \in Seq(Release) /\ listed \in Seq(Release)
  /\ app.tag \in Seq(Nat) /\ version \in Seq(Nat)

(* The app is a release, or the first app of all, and knows its version.   *)
Origin == Released(app.tag) \/ (app.tag = Built /\ version = Built)

(* What an update is for: the newest release of the list it received,      *)
(* which is no older than the app.                                         *)
Chosen ==
  step \in Updating =>
    /\ info.tag \in Seq(Nat) /\ Released(info.tag) /\ ~Newer(app.tag, info.tag)
    /\ \A i \in 1 .. Len(listed) :
         Eligible(listed[i]) => ~Newer(listed[i].tag, info.tag)

(* The file that was downloaded is the one that was chosen. *)
Downloaded ==
  step \in {"start", "write"} => cia.tag = info.tag /\ (info.sha256 => cia.as = "listed")

Offered == offer => step = "message" /\ answer.code = "certificate" /\ verifyTls

UpdateInv ==
  /\ UpdateTypes /\ Origin /\ Chosen /\ Downloaded /\ Offered /\ InstalledIsNewest

(* A step in which nothing is published, chosen, downloaded or installed.  *)
Quiet ==
  /\ UNCHANGED <<releases, listed, app, version>>
  /\ step' \in Updating => step \in Updating /\ UNCHANGED info
  /\ step' \in {"start", "write"} => step \in {"start", "write"} /\ UNCHANGED cia
  /\ step' = "done" => step = "done" /\ UNCHANGED info

LEMMA QuietSteps ==
  ASSUME \/ Replace \/ OpenPage \/ StartUpdate \/ MessageBack
         \/ GetFails \/ AmUnavailable \/ StartInstall \/ StartFails
         \/ WriteChunk \/ WriteFails \/ FinishFails
         \/ Close \/ PowerOff \/ UNCHANGED updateVars
  PROVE  Quiet
<1> USE DEF github, am, http, job, ghost, Message,
            AttemptFails, UpdateFault, Quiet, Updating
<1>1. CASE Replace
  BY <1>1 DEF Replace
<1>2. CASE OpenPage
  BY <1>2 DEF OpenPage
<1>3. CASE StartUpdate
  BY <1>3 DEF StartUpdate
<1>4. CASE MessageBack
  BY <1>4 DEF MessageBack
<1>5. CASE GetFails
  BY <1>5 DEF GetFails
<1>6. CASE AmUnavailable
  BY <1>6 DEF AmUnavailable
<1>7. CASE StartInstall
  BY <1>7 DEF StartInstall
<1>8. CASE StartFails
  BY <1>8 DEF StartFails
<1>9. CASE WriteChunk
  BY <1>9 DEF WriteChunk
<1>10. CASE WriteFails
  BY <1>10 DEF WriteFails
<1>11. CASE FinishFails
  BY <1>11 DEF FinishFails
<1>12. CASE Close
  BY <1>12 DEF Close
<1>13. CASE PowerOff
  BY <1>13 DEF PowerOff
<1>14. CASE UNCHANGED updateVars
  BY <1>14 DEF updateVars
<1> QED
  BY <1>1, <1>2, <1>3, <1>4, <1>5, <1>6, <1>7, <1>8, <1>9, <1>10, <1>11, <1>12, <1>13, <1>14

LEMMA QuietKeeps ==
  ASSUME UpdateInv, Quiet
  PROVE  /\ UpdateTypes' /\ Origin' /\ Chosen' /\ Downloaded' /\ InstalledIsNewest'
<1> USE DEF UpdateInv, Quiet
<1>1. UpdateTypes'
  BY DEF UpdateTypes
<1>2. Origin'
  BY DEF Origin, Released
<1>3. Chosen'
  BY DEF Chosen, Released
<1>4. Downloaded'
  BY DEF Downloaded, Updating
<1>5. InstalledIsNewest'
  BY DEF InstalledIsNewest
<1> QED
  BY <1>1, <1>2, <1>3, <1>4, <1>5

(* The choice of an update, by an app that knows its version. *)
LEMMA CheckGotKeeps ==
  ASSUME UpdateInv, CheckGot
  PROVE  /\ UpdateTypes' /\ Origin' /\ Chosen' /\ Downloaded' /\ InstalledIsNewest'
<1> DEFINE best == findLatestByTagPrefix(releases)
<1> USE DEF UpdateInv
<1>1. /\ UNCHANGED <<releases, app, version>> /\ listed' = releases
      /\ step' \in {"fetch", "message"}
      /\ step' = "fetch" => /\ best # 0 /\ info' = releases[best]
                          /\ compareVersions(releases[best].tag, version) > 0
  BY DEF CheckGot, github, am, Message
<1>2. /\ best \in 0 .. Len(releases)
      /\ best # 0 => Eligible(releases[best])
      /\ \A j \in 1 .. Len(releases) :
           Eligible(releases[j])
             => best # 0 /\ ~Newer(releases[j].tag, releases[best].tag)
  BY FindsNewest DEF UpdateTypes
<1> HIDE DEF best
<1>3. UpdateTypes'
  BY <1>1 DEF UpdateTypes
<1>4. Origin'
  BY <1>1 DEF Origin, Released
<1>5. ASSUME step' = "fetch"
      PROVE  /\ info'.tag \in Seq(Nat) /\ Released(info'.tag)
             /\ ~Newer(app.tag, info'.tag)
             /\ \A i \in 1 .. Len(releases) :
                  Eligible(releases[i]) => ~Newer(releases[i].tag, info'.tag)
  <2>1. best \in 1 .. Len(releases) /\ Eligible(releases[best])
    BY <1>1, <1>2, <1>5
  <2>2. releases[best] \in Release
    BY <2>1 DEF UpdateTypes
  <2>3. info'.tag = releases[best].tag /\ info'.tag \in Seq(Nat)
    BY <1>1, <1>5, <2>2, UpdateAssumption DEF Release
  <2>4. Released(info'.tag)
    BY <2>1, <2>3 DEF Released
  <2>5. CASE Released(app.tag)
    BY <1>2, <2>3, <2>5 DEF Released
  <2>6. CASE app.tag = Built /\ version = Built
    <3>1. Newer(info'.tag, app.tag)
      BY <1>1, <1>5, <2>3, <2>6, ComparesNewer DEF UpdateTypes
    <3> QED
      BY <1>2, <2>3, <2>4, <3>1, NewerOrder DEF UpdateTypes
  <2>7. ~Newer(app.tag, info'.tag)
    BY <2>5, <2>6 DEF Origin
  <2> QED
    BY <1>2, <2>3, <2>4, <2>7
<1>6. Chosen'
  BY <1>1, <1>5 DEF Chosen, Released, Updating
<1>7. Downloaded' /\ InstalledIsNewest'
  BY <1>1 DEF Downloaded, InstalledIsNewest
<1> QED
  BY <1>3, <1>4, <1>6, <1>7

LEMMA PublishKeeps ==
  ASSUME UpdateInv, PublishApp
  PROVE  /\ UpdateTypes' /\ Origin' /\ Chosen' /\ Downloaded' /\ InstalledIsNewest'
<1> USE DEF UpdateInv
<1>1. PICK r \in Release : releases' = <<r>> \o releases
  BY DEF PublishApp
<1>2. UNCHANGED <<app, version, step, info, cia, listed>>
  BY DEF PublishApp, am, job, ghost
<1>3. /\ releases' \in Seq(Release) /\ Len(releases') = Len(releases) + 1
      /\ \A i \in 1 .. Len(releases) : releases'[i + 1] = releases[i]
  <2>1. <<r>> \in Seq(Release) /\ Len(<<r>>) = 1
    OBVIOUS
  <2> QED
    BY <1>1, <2>1, ConcatProperties DEF UpdateTypes
<1>4. ASSUME NEW tag, Released(tag) PROVE Released(tag)'
  <2>1. PICK i \in 1 .. Len(releases) :
          Eligible(releases[i]) /\ releases[i].tag = tag
    BY <1>4 DEF Released
  <2>2. i + 1 \in 1 .. Len(releases') /\ releases'[i + 1] = releases[i]
    BY <1>3, <2>1, LenProperties DEF UpdateTypes
  <2>3. Eligible(releases'[i + 1]) /\ releases'[i + 1].tag = tag
    BY <2>1, <2>2
  <2> QED
    BY <2>2, <2>3 DEF Released
<1>5. UpdateTypes'
  BY <1>2, <1>3 DEF UpdateTypes
<1>6. Origin'
  BY <1>2, <1>4 DEF Origin
<1>7. Chosen'
  BY <1>2, <1>4 DEF Chosen
<1>8. Downloaded' /\ InstalledIsNewest'
  BY <1>2 DEF Downloaded, InstalledIsNewest
<1> QED
  BY <1>5, <1>6, <1>7, <1>8

LEMMA FetchGotKeeps ==
  ASSUME UpdateInv, FetchGot
  PROVE  /\ UpdateTypes' /\ Origin' /\ Chosen' /\ Downloaded' /\ InstalledIsNewest'
<1> USE DEF UpdateInv
<1>1. /\ UNCHANGED <<releases, listed, app, version, info>>
      /\ step = "fetch" /\ step' \in {"start", "message"}
      /\ step' = "start" => cia'.tag = info.tag /\ (info.sha256 => cia'.as = "listed")
  <2>1. PICK file \in Served(info) :
          IF file.as = "short" \/ (info.sha256 /\ file.as # "listed")
          THEN Message(FALSE) /\ UNCHANGED cia
          ELSE cia' = file /\ step' = "start" /\ UNCHANGED offer
    BY DEF FetchGot
  <2>2. file.tag = info.tag
    BY <2>1 DEF Served
  <2> QED
    BY <2>1, <2>2 DEF FetchGot, github, am, Message
<1>2. UpdateTypes' /\ Origin'
  BY <1>1 DEF UpdateTypes, Origin, Released
<1>3. Chosen'
  BY <1>1 DEF Chosen, Released, Updating
<1>4. Downloaded' /\ InstalledIsNewest'
  BY <1>1 DEF Downloaded, InstalledIsNewest
<1> QED
  BY <1>2, <1>3, <1>4

(* AM puts the downloaded file in the place of the app. *)
LEMMA FinishKeeps ==
  ASSUME UpdateInv, FinishInstall
  PROVE  /\ UpdateTypes' /\ Origin' /\ Chosen' /\ Downloaded' /\ InstalledIsNewest'
         /\ ~Newer(app.tag, app'.tag)
<1> USE DEF UpdateInv
<1>1. /\ UNCHANGED <<releases, listed, version, info, cia>>
      /\ step = "write" /\ step' = "done" /\ app' = cia
  BY DEF FinishInstall, github, job, ghost
<1>2. /\ app'.tag = info.tag /\ (info.sha256 => app'.as = "listed")
      /\ info.tag \in Seq(Nat) /\ Released(info.tag) /\ ~Newer(app.tag, info.tag)
      /\ \A i \in 1 .. Len(listed) :
           Eligible(listed[i]) => ~Newer(listed[i].tag, info.tag)
  BY <1>1 DEF Chosen, Downloaded, Updating
<1>3. UpdateTypes' /\ Origin'
  BY <1>1, <1>2 DEF UpdateTypes, Origin, Released
<1>4. Chosen' /\ Downloaded' /\ InstalledIsNewest'
  BY <1>1, <1>2 DEF Chosen, Downloaded, Updating, InstalledIsNewest
<1> QED
  BY <1>2, <1>3, <1>4

(* The app that is opened has the version it was built with. *)
LEMMA OpenAppKeeps ==
  ASSUME UpdateInv, OpenApp
  PROVE  /\ UpdateTypes' /\ Origin' /\ Chosen' /\ Downloaded' /\ InstalledIsNewest'
<1> USE DEF UpdateInv
<1>0. Built \in [1 .. 3 -> Nat]
  BY UpdateAssumption
<1>1. /\ UNCHANGED <<releases, listed, app>> /\ step' = "page"
      /\ version' = [i \in 1 .. 3 |-> Part(app.tag, i)]
  BY DEF OpenApp, github, am, ghost
<1>2. version' \in [1 .. 3 -> Nat]
  BY <1>1, PartType DEF UpdateTypes
<1>3. UpdateTypes'
  BY <1>1, <1>2, SeqDef DEF UpdateTypes
<1>4. app.tag = Built => version' = Built
  <2>1. ASSUME app.tag = Built, NEW i \in 1 .. 3 PROVE Part(app.tag, i) = Built[i]
    <3>1. Len(Built) = 3
      BY <1>0, <2>1, LenProperties DEF UpdateTypes
    <3> QED
      BY <2>1, <3>1 DEF Part
  <2> QED
    BY <1>0, <1>1, <2>1
<1>5. Origin'
  BY <1>1, <1>4 DEF Origin, Released
<1>6. Chosen' /\ Downloaded' /\ InstalledIsNewest'
  BY <1>1 DEF Chosen, Downloaded, Updating, InstalledIsNewest
<1> QED
  BY <1>3, <1>5, <1>6

(* The question is only asked by the attempt that met the certificate.     *)
LEMMA OfferStep == Offered /\ [UpdateNext]_updateVars => Offered'
<1> SUFFICES ASSUME Offered, [UpdateNext]_updateVars PROVE Offered'
  OBVIOUS
<1> USE DEF Offered, http, ghost, job, Message, AttemptFails
<1>1. CASE PublishApp
  BY <1>1 DEF PublishApp
<1>2. CASE Replace
  BY <1>2 DEF Replace
<1>3. CASE OpenApp
  BY <1>3 DEF OpenApp
<1>4. CASE OpenPage
  BY <1>4 DEF OpenPage
<1>5. CASE StartUpdate
  BY <1>5 DEF StartUpdate
<1>6. CASE MessageBack
  BY <1>6 DEF MessageBack
<1>7. CASE GetFails
  BY <1>7 DEF GetFails
<1>8. CASE CheckGot
  BY <1>8 DEF CheckGot
<1>9. CASE FetchGot
  BY <1>9 DEF FetchGot
<1>10. CASE AmUnavailable
  BY <1>10 DEF AmUnavailable
<1>11. CASE StartInstall
  BY <1>11 DEF StartInstall
<1>12. CASE StartFails
  BY <1>12 DEF StartFails
<1>13. CASE WriteChunk
  BY <1>13 DEF WriteChunk
<1>14. CASE WriteFails
  BY <1>14 DEF WriteFails
<1>15. CASE FinishInstall
  BY <1>15 DEF FinishInstall
<1>16. CASE FinishFails
  BY <1>16 DEF FinishFails
<1>17. CASE Close
  BY <1>17 DEF Close
<1>18. CASE PowerOff
  BY <1>18 DEF PowerOff
<1>19. CASE UNCHANGED updateVars
  BY <1>19 DEF updateVars
<1> QED
  BY <1>1, <1>2, <1>3, <1>4, <1>5, <1>6, <1>7, <1>8, <1>9, <1>10, <1>11, <1>12, <1>13,
     <1>14, <1>15, <1>16, <1>17, <1>18, <1>19 DEF UpdateNext

LEMMA UpdateInvariance ==
  UpdateInv /\ [UpdateNext]_updateVars
    => UpdateInv' /\ (~Newer(app.tag, app'.tag) \/ UNCHANGED app)
<1> SUFFICES ASSUME UpdateInv, [UpdateNext]_updateVars
             PROVE  UpdateInv' /\ (~Newer(app.tag, app'.tag) \/ UNCHANGED app)
  OBVIOUS
<1>1. Offered'
  BY OfferStep DEF UpdateInv
<1>2. CASE Quiet
  BY <1>1, <1>2, QuietKeeps DEF UpdateInv, Quiet
<1>3. CASE PublishApp
  BY <1>1, <1>3, PublishKeeps DEF UpdateInv, PublishApp, am
<1>4. CASE OpenApp
  BY <1>1, <1>4, OpenAppKeeps DEF UpdateInv, OpenApp, am
<1>5. CASE CheckGot
  BY <1>1, <1>5, CheckGotKeeps DEF UpdateInv, CheckGot, am
<1>6. CASE FetchGot
  BY <1>1, <1>6, FetchGotKeeps DEF UpdateInv, FetchGot, am
<1>7. CASE FinishInstall
  BY <1>1, <1>7, FinishKeeps DEF UpdateInv
<1> QED
  BY <1>2, <1>3, <1>4, <1>5, <1>6, <1>7, QuietSteps DEF UpdateNext

LEMMA UpdateInitial == UpdateInit => UpdateInv
<1> SUFFICES ASSUME UpdateInit PROVE UpdateInv
  OBVIOUS
<1>1. UpdateTypes
  <2>1. Built \in Seq(Nat)
    BY UpdateAssumption, SeqDef
  <2> QED
    BY <2>1 DEF UpdateInit, UpdateTypes
<1>2. Origin /\ Chosen /\ Downloaded /\ Offered /\ InstalledIsNewest
  BY DEF UpdateInit, Origin, Chosen, Updating, Downloaded, Offered, InstalledIsNewest
<1> QED
  BY <1>1, <1>2 DEF UpdateInv

(* An update leaves the app on the newest eligible release that was listed *)
(* (Release::findLatestByTagPrefix), with the file that was listed when a  *)
(* checksum was, whatever is published, replaced or fails meanwhile.       *)
THEOREM UpdatesToNewest == UpdateSpec => []InstalledIsNewest
<1>1. UpdateInv => InstalledIsNewest
  BY DEF UpdateInv
<1>2. UpdateInv /\ [UpdateNext]_updateVars => UpdateInv'
  BY UpdateInvariance
<1> QED
  BY UpdateInitial, <1>1, <1>2, PTL DEF UpdateSpec

(* CurlHttp's code of an earlier attempt never makes the page offer to     *)
(* turn verification off.                                                  *)
THEOREM OfferedWithReason == UpdateSpec => []OfferedForCertificate
<1>1. Offered => OfferedForCertificate
  BY DEF Offered, OfferedForCertificate
<1>2. UpdateInit => Offered
  BY DEF UpdateInit, Offered
<1> QED
  BY <1>1, <1>2, OfferStep, PTL DEF UpdateSpec

(* No sequence of updates takes the app back to an older version, also     *)
(* when the page is opened again while the replaced app still runs.        *)
THEOREM NeverBack == UpdateSpec => NeverOlder
<1>1. UpdateInv /\ [UpdateNext]_updateVars => UpdateInv'
  BY UpdateInvariance
<1>2. UpdateInv /\ [UpdateNext]_updateVars
        => [~Newer(app.tag, app'.tag)]_updateVars
  <2> SUFFICES ASSUME UpdateInv, [UpdateNext]_updateVars
               PROVE  ~Newer(app.tag, app'.tag)
    OBVIOUS
  <2>1. CASE UNCHANGED app
    BY <2>1, NewerOrder DEF UpdateInv, UpdateTypes
  <2> QED
    BY <2>1, UpdateInvariance
<1> QED
  BY UpdateInitial, <1>1, <1>2, PTL DEF UpdateSpec, NeverOlder
==============================================================================
