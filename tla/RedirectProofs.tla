--------------------------- MODULE RedirectProofs ---------------------------
(***************************************************************************)
(* Proofs about Redirect, for any number of threads, sessions and          *)
(* failures, and, at the end, about Plugin, which also puts its code into  *)
(* another program's, for any number of games and of failed calls.         *)
(***************************************************************************)
EXTENDS Redirect, Plugin, FiniteSetTheorems, WellFoundedInduction, SequenceTheorems, TLAPS

(* What is needed of the shape of the variables.                           *)
Where == {"idle", "handle", "version", "types", "store", "close"}
Shape == /\ environment \in Environment /\ nasc_environment \in Nat
         /\ pretendo \in BOOLEAN /\ crossed \in BOOLEAN
         /\ pc \in [Thread -> Where]
         /\ answer \in [Thread -> Environment]
         /\ seen \in [Thread -> BOOLEAN]
         /\ DOMAIN sent = Thread
         /\ sent = [t \in Thread |-> sent[t]]

(* A Pretendo account that is loaded, in a reply, in the cache or known to *)
(* a request that was redirected has been loaded since the start.          *)
Told(t) == /\ pc[t] = "store" /\ answer[t] = Pretendo => pretendo
           /\ sent[t].out # sent[t].asked => pretendo
Heard == /\ environment = Pretendo => pretendo
         /\ nasc_environment = Pretendo + 1 => pretendo
         /\ \A t \in Thread : Told(t)

(* Unless an account was loaded while a thread asked: while threads ask,   *)
(* the cache and the replies are those of the account that is loaded, and  *)
(* the cache is filled before any thread can close its session, before any *)
(* request is redirected and thus before any request begins that has one   *)
(* redirected before it; such a request never asks frd itself.             *)
CacheRight == (\E t \in Thread : Asking(t)) => nasc_environment \in {0, environment + 1}
Filled(t) == /\ pc[t] = "store" => answer[t] = environment
             /\ pc[t] = "close" => nasc_environment = environment + 1
             /\ seen[t] => nasc_environment = Pretendo + 1
             /\ seen[t] => pc[t] \notin {"handle", "version", "types", "store"}
Right(t) == /\ sent[t].out # sent[t].asked => nasc_environment = Pretendo + 1
            /\ sent[t].seen => nasc_environment = Pretendo + 1
            /\ sent[t].seen => sent[t].out = handle_replacements(sent[t].asked)
Steady == ~crossed => CacheRight /\ \A t \in Thread : Filled(t) /\ Right(t)

IInv == Shape /\ Heard /\ Steady

(* What holds at the start.                                                *)
Start == /\ environment \in Environment /\ nasc_environment = 0
         /\ frd_handle = NoHandle /\ open = {} /\ versioned = {} /\ issued = 0
         /\ pretendo \in BOOLEAN /\ (environment = Pretendo => pretendo) /\ crossed = FALSE
         /\ pc = [t \in Thread |-> "idle"] /\ url = [t \in Thread |-> <<>>]
         /\ answer = [t \in Thread |-> 0] /\ seen = [t \in Thread |-> FALSE]
         /\ sent = [t \in Thread |-> [asked |-> <<>>, out |-> <<>>, seen |-> FALSE]]

LEMMA Starts == Init => Start
<1> SUFFICES ASSUME Init PROVE Start
  OBVIOUS
<1>1. pretendo = (environment = Pretendo)
  BY DEF Init
<1>2. (environment = Pretendo) \in BOOLEAN
  OBVIOUS
<1>3. pretendo \in BOOLEAN /\ (environment = Pretendo => pretendo)
  BY <1>1, <1>2, Zenon
<1> QED BY <1>3, Zenon DEF Init, Start

(* The invariant holds at the start.                                       *)
LEMMA InitIInv == Init => IInv
<1> SUFFICES ASSUME Start PROVE IInv
  BY Starts
<1>1. Shape
  <2>1. pretendo \in BOOLEAN /\ crossed \in BOOLEAN
    BY Zenon DEF Start
  <2>2. /\ environment \in Environment /\ nasc_environment = 0
        /\ pc = [t \in Thread |-> "idle"] /\ answer = [t \in Thread |-> 0]
        /\ seen = [t \in Thread |-> FALSE]
        /\ sent = [t \in Thread |-> [asked |-> <<>>, out |-> <<>>, seen |-> FALSE]]
    BY Zenon DEF Start
  <2> QED BY <2>1, <2>2 DEF Shape, Environment, Where
<1>2. Heard
  BY DEF Start, Heard, Told, Pretendo
<1>3. Steady
  BY DEF Start, Steady, CacheRight, Filled, Right, Asking
<1> QED BY <1>1, <1>2, <1>3 DEF IInv

(* A request leaves with what the cache said, or with nothing known.       *)
LEMMA LeaveKeeps ==
  ASSUME IInv, NEW t \in Thread, NEW text, NEW known, NEW before,
         known \in {0, nasc_environment}, before \in BOOLEAN,
         Leave(t, text, known, before), UNCHANGED <<accounts, nasc_environment>>
  PROVE  /\ DOMAIN sent' = Thread /\ sent' = [u \in Thread |-> sent'[u]]
         /\ pc' \in [Thread -> Where]
         /\ pc'[t] = "idle" /\ \A u \in Thread \ {t} : pc'[u] = pc[u] /\ sent'[u] = sent[u]
         /\ sent'[t].out # sent'[t].asked => pretendo'
         /\ (~crossed /\ (before => known = Pretendo + 1)) => Right(t)'
<1> DEFINE out == IF known = Pretendo + 1 THEN handle_replacements(text) ELSE text
<1>1. /\ sent' = [sent EXCEPT ![t] = [asked |-> text, seen |-> before, out |-> out]]
      /\ pc' = [pc EXCEPT ![t] = "idle"]
  BY DEF Leave
<1>2. sent'[t] = [asked |-> text, seen |-> before, out |-> out]
  BY <1>1 DEF IInv, Shape
<1>u. UNCHANGED <<pretendo, crossed, nasc_environment>>
  BY DEF accounts
<1>k. known # 0 => known = nasc_environment
  OBVIOUS
<1>n. Pretendo + 1 # 0
  BY DEF Pretendo
<1>o. IF known = Pretendo + 1 THEN out = handle_replacements(text) ELSE out = text
  OBVIOUS
<1> HIDE DEF out
<1>3. /\ sent'[t].asked = text /\ sent'[t].seen = before /\ sent'[t].out = out
  BY <1>2
<1>4. sent'[t].out # sent'[t].asked => pretendo'
  <2>1. out # text => known = Pretendo + 1
    BY <1>o
  <2>2. known = Pretendo + 1 => nasc_environment = Pretendo + 1
    BY <1>k, <1>n
  <2> QED BY <1>3, <1>u, <2>1, <2>2 DEF IInv, Heard
<1>5. ASSUME before => known = Pretendo + 1 PROVE Right(t)'
  <2>1. CASE known = Pretendo + 1
    BY <1>3, <1>k, <1>n, <1>o, <1>u, <2>1 DEF Right
  <2>2. CASE known # Pretendo + 1
    BY <1>3, <1>5, <1>o, <2>2 DEF Right
  <2> QED BY <2>1, <2>2
<1>6. /\ pc' \in [Thread -> Where] /\ pc'[t] = "idle"
      /\ \A u \in Thread \ {t} : pc'[u] = pc[u] /\ sent'[u] = sent[u]
  BY <1>1 DEF IInv, Shape, Where
<1>7. DOMAIN sent' = Thread /\ sent' = [u \in Thread |-> sent'[u]]
  BY <1>1 DEF IInv, Shape
<1> QED BY <1>4, <1>5, <1>6, <1>7

(* A request that leaves keeps the invariant.                              *)
LEMMA LeaveIInv ==
  ASSUME IInv, NEW t \in Thread, NEW text, NEW known, NEW before \in BOOLEAN,
         known \in {0, nasc_environment},
         ~crossed /\ before => known = Pretendo + 1,
         Leave(t, text, known, before), seen' = [seen EXCEPT ![t] = before],
         UNCHANGED <<accounts, nasc_environment, answer>>
  PROVE  IInv'
<1>1. /\ DOMAIN sent' = Thread /\ sent' = [u \in Thread |-> sent'[u]]
      /\ pc' \in [Thread -> Where]
      /\ pc'[t] = "idle" /\ \A u \in Thread \ {t} : pc'[u] = pc[u] /\ sent'[u] = sent[u]
      /\ sent'[t].out # sent'[t].asked => pretendo'
      /\ ~crossed => Right(t)'
  BY LeaveKeeps
<1>2. /\ UNCHANGED <<environment, pretendo, crossed, nasc_environment, answer>>
      /\ seen' \in [Thread -> BOOLEAN] /\ seen'[t] = before
      /\ \A u \in Thread \ {t} : seen'[u] = seen[u]
  BY DEF accounts, IInv, Shape
<1>3. Shape'
  BY <1>1, <1>2 DEF IInv, Shape
<1>4. Heard'
  BY <1>1, <1>2 DEF IInv, Heard, Told
<1>5. Steady'
  <2> SUFFICES ASSUME ~crossed PROVE CacheRight' /\ \A u \in Thread : Filled(u)' /\ Right(u)'
    BY <1>2 DEF Steady
  <2>0. CacheRight /\ \A u \in Thread : Filled(u) /\ Right(u)
    BY DEF IInv, Steady
  <2>1. CacheRight'
    BY <1>1, <1>2, <2>0 DEF CacheRight, Asking
  <2>2. before => nasc_environment = Pretendo + 1
    BY DEF Pretendo
  <2>3. Filled(t)' /\ Right(t)'
    BY <1>1, <1>2, <2>2 DEF Filled
  <2>4. \A u \in Thread \ {t} : Filled(u)' /\ Right(u)'
    BY <1>1, <1>2, <2>0 DEF Filled, Right
  <2> QED BY <2>1, <2>3, <2>4
<1> QED BY <1>3, <1>4, <1>5 DEF IInv

(* No step of any thread breaks the invariant.                             *)
LEMMA NextIInv == IInv /\ [Next]_vars => IInv'
<1> SUFFICES ASSUME IInv, [Next]_vars PROVE IInv'
  OBVIOUS
<1>0. Shape /\ Heard /\ Steady
  BY DEF IInv
<1>1. CASE UNCHANGED vars
  BY <1>0, <1>1 DEF vars, accounts, IInv, Shape, Heard, Told, Steady, CacheRight, Filled, Right,
                    Asking
<1>2. ASSUME NEW t \in Thread, Begin(t) PROVE IInv'
  <2>1. PICK text \in GameUrl \union AccountUrls :
          LET before == Redirected \/ \E u \in Thread : seen[u]
          IN  /\ seen' = [seen EXCEPT ![t] = before]
              /\ IF nasc_environment # 0
                 THEN Leave(t, text, nasc_environment, before)
                 ELSE pc' = [pc EXCEPT ![t] = "handle"] /\ UNCHANGED sent
    BY <1>2 DEF Begin
  <2> DEFINE before == Redirected \/ \E u \in Thread : seen[u]
  <2>2. before \in BOOLEAN /\ (~crossed /\ before => nasc_environment = Pretendo + 1)
    BY <1>0 DEF Redirected, Steady, Filled, Right
  <2>3. UNCHANGED <<accounts, nasc_environment, answer>> /\ pc[t] = "idle"
    BY <1>2 DEF Begin
  <2>4. seen' = [seen EXCEPT ![t] = before]
    BY <2>1
  <2> HIDE DEF before
  <2>5. CASE nasc_environment # 0
    <3>1. Leave(t, text, nasc_environment, before)
      BY <2>1, <2>5 DEF before
    <3> QED BY <2>2, <2>3, <2>4, <3>1, LeaveIInv
  <2>6. CASE nasc_environment = 0
    <3>1. pc' = [pc EXCEPT ![t] = "handle"] /\ UNCHANGED sent
      BY <2>1, <2>6 DEF before
    <3>2. UNCHANGED <<environment, pretendo, crossed, nasc_environment, answer, sent>>
      BY <2>3, <3>1 DEF accounts
    <3>3. /\ pc' \in [Thread -> Where] /\ pc'[t] = "handle"
          /\ \A u \in Thread \ {t} : pc'[u] = pc[u]
      BY <1>0, <3>1 DEF Shape, Where
    <3>4. /\ seen' \in [Thread -> BOOLEAN] /\ seen'[t] = before
          /\ \A u \in Thread \ {t} : seen'[u] = seen[u]
      BY <1>0, <2>2, <2>4 DEF Shape
    <3>5. Shape' /\ Heard'
      BY <1>0, <3>2, <3>3, <3>4 DEF Shape, Heard, Told
    <3>6. ~crossed => ~before
      BY <2>2, <2>6 DEF Pretendo
    <3>7. Steady'
      BY <1>0, <2>6, <3>2, <3>3, <3>4, <3>6 DEF Steady, CacheRight, Filled, Right
    <3> QED BY <3>5, <3>7 DEF IInv
  <2> QED BY <2>5, <2>6
<1>3. ASSUME NEW t \in Thread, get_frd_u_handle(t) \/ SetClientSdkVersion(t) PROVE IInv'
  <2>1. /\ UNCHANGED <<environment, pretendo, crossed, nasc_environment, answer, seen, sent>>
        /\ \E place \in {"version", "types"} : pc' = [pc EXCEPT ![t] = place]
        /\ pc[t] \in {"handle", "version"}
    BY <1>3 DEF get_frd_u_handle, SetClientSdkVersion, accounts
  <2>2. /\ pc' \in [Thread -> Where] /\ pc'[t] \in {"version", "types"}
        /\ \A u \in Thread \ {t} : pc'[u] = pc[u]
    BY <1>0, <2>1 DEF Shape, Where
  <2>3. Shape' /\ Heard'
    BY <1>0, <2>1, <2>2 DEF Shape, Heard, Told
  <2>4. Steady'
    BY <1>0, <2>1, <2>2 DEF Steady, CacheRight, Filled, Right, Asking
  <2> QED BY <2>3, <2>4 DEF IInv
<1>4. ASSUME NEW t \in Thread, GetServerTypes(t) PROVE IInv'
  <2>1. /\ UNCHANGED <<environment, pretendo, crossed, nasc_environment, seen, sent>>
        /\ pc' = [pc EXCEPT ![t] = "store"] /\ pc[t] = "types"
        /\ answer' = [answer EXCEPT ![t] = environment]
    BY <1>4 DEF GetServerTypes, accounts
  <2>2. /\ pc' \in [Thread -> Where] /\ pc'[t] = "store"
        /\ answer' \in [Thread -> Environment] /\ answer'[t] = environment
        /\ \A u \in Thread \ {t} : pc'[u] = pc[u] /\ answer'[u] = answer[u]
    BY <1>0, <2>1 DEF Shape, Where
  <2>3. Shape' /\ Heard'
    BY <1>0, <2>1, <2>2 DEF Shape, Heard, Told
  <2>4. Steady'
    BY <1>0, <2>1, <2>2 DEF Steady, CacheRight, Filled, Right, Asking
  <2> QED BY <2>3, <2>4 DEF IInv
<1>5. ASSUME NEW t \in Thread, GetServerTypesFails(t) PROVE IInv'
  <2>1. /\ pc[t] = "types" /\ Leave(t, url[t], 0, seen[t])
        /\ UNCHANGED <<accounts, nasc_environment, answer>> /\ seen' = seen
    BY <1>5 DEF GetServerTypesFails
  <2>2. /\ seen[t] \in BOOLEAN /\ seen' = [seen EXCEPT ![t] = seen[t]]
        /\ ~crossed => ~seen[t]
    BY <1>0, <2>1 DEF Shape, Steady, Filled
  <2> QED BY <2>1, <2>2, LeaveIInv
<1>6. ASSUME NEW t \in Thread, Store(t) PROVE IInv'
  <2>1. /\ UNCHANGED <<environment, pretendo, crossed, answer, seen, sent>>
        /\ pc' = [pc EXCEPT ![t] = "close"] /\ pc[t] = "store"
        /\ nasc_environment' = answer[t] + 1 /\ answer[t] \in 0 .. 2
    BY <1>0, <1>6 DEF Store, Cached, accounts, Shape, Environment
  <2>2. /\ pc' \in [Thread -> Where] /\ pc'[t] = "close"
        /\ \A u \in Thread \ {t} : pc'[u] = pc[u]
    BY <1>0, <2>1 DEF Shape, Where
  <2>3. nasc_environment' \in Nat /\ (nasc_environment' = Pretendo + 1 => answer[t] = Pretendo)
    BY <2>1 DEF Pretendo
  <2>4. Shape' /\ Heard'
    BY <1>0, <2>1, <2>2, <2>3 DEF Shape, Heard, Told
  <2>5. Steady'
    <3> SUFFICES ASSUME ~crossed
                 PROVE  CacheRight' /\ \A u \in Thread : Filled(u)' /\ Right(u)'
      BY <2>1 DEF Steady
    <3>1. CacheRight /\ \A u \in Thread : Filled(u) /\ Right(u)
      BY <1>0 DEF Steady
    <3>2. /\ answer[t] = environment /\ nasc_environment' = environment + 1
          /\ nasc_environment \in {0, environment + 1}
      BY <2>1, <3>1 DEF CacheRight, Filled, Asking
    <3>3. nasc_environment = Pretendo + 1 => nasc_environment' = Pretendo + 1
      BY <3>2 DEF Pretendo
    <3>4. CacheRight' /\ \A u \in Thread : Filled(u)'
      BY <2>1, <2>2, <3>1, <3>2, <3>3 DEF CacheRight, Filled
    <3>5. \A u \in Thread : Right(u)'
      BY <2>1, <3>1, <3>3 DEF Right
    <3> QED BY <3>4, <3>5
  <2> QED BY <2>4, <2>5 DEF IInv
<1>7. ASSUME NEW t \in Thread, Close(t) PROVE IInv'
  <2>1. /\ pc[t] = "close" /\ Leave(t, url[t], nasc_environment, seen[t])
        /\ UNCHANGED <<accounts, nasc_environment, answer>> /\ seen' = seen
    BY <1>7 DEF Close
  <2>2. /\ seen[t] \in BOOLEAN /\ seen' = [seen EXCEPT ![t] = seen[t]]
        /\ ~crossed /\ seen[t] => nasc_environment = Pretendo + 1
    BY <1>0, <2>1 DEF Shape, Steady, Filled
  <2> QED BY <2>1, <2>2, LeaveIInv
<1>8. CASE LoadLocalAccount
  <2>1. /\ environment' \in Environment /\ pretendo' = (pretendo \/ environment' = Pretendo)
        /\ crossed' = (crossed \/ \E t \in Thread : Asking(t))
        /\ UNCHANGED <<nasc_environment, pc, answer, seen, sent>>
    BY <1>8 DEF LoadLocalAccount
  <2>2. pretendo' \in BOOLEAN /\ crossed' \in BOOLEAN /\ (pretendo => pretendo')
    BY <1>0, <2>1 DEF Shape
  <2>3. Shape' /\ Heard'
    BY <1>0, <2>1, <2>2 DEF Shape, Heard, Told
  <2>4. Steady'
    <3> SUFFICES ASSUME ~crossed'
                 PROVE  CacheRight' /\ \A u \in Thread : Filled(u)' /\ Right(u)'
      BY DEF Steady
    <3>1. ~crossed /\ \A u \in Thread : pc[u] = "idle"
      BY <2>1 DEF Asking
    <3> QED BY <1>0, <2>1, <3>1 DEF Steady, CacheRight, Filled, Right, Asking
  <2> QED BY <2>3, <2>4 DEF IInv
<1> QED BY <1>1, <1>2, <1>3, <1>4, <1>5, <1>6, <1>7, <1>8 DEF Next

(* Whatever threads share the session, however often frd fails and         *)
(* whatever account is loaded while no thread asks, once a request was     *)
(* redirected every one that begins later is.                              *)
THEOREM OnceRedirected == Spec => []StaysRedirected
<1>1. IInv => StaysRedirected
  BY DEF IInv, Steady, Right, StaysRedirected
<1> QED BY InitIInv, NextIInv, <1>1, PTL DEF Spec

(* No request is redirected unless a Pretendo account was loaded since the *)
(* start, whatever accounts are loaded while threads ask and fail.         *)
THEOREM PretendoOnly == Spec => []OnlyForPretendo
<1>1. IInv => OnlyForPretendo
  BY DEF IInv, Heard, Told, OnlyForPretendo
<1> QED BY InitIInv, NextIInv, <1>1, PTL DEF Spec
-----------------------------------------------------------------------------
(* Any set of numbers has a smallest one: the sets 0..i are well-founded.  *)
LEMMA SmallestNumber ==
  ASSUME NEW I \in SUBSET Nat, I # {}
  PROVE  \E m \in I : \A j \in I : m <= j
<1> DEFINE Below == {0 .. i : i \in I}
<1>1. IsWellFoundedOn(StrictSubsetOrdering(Nat), FiniteSubsetsOf(Nat))
  BY FS_StrictSubsetOrderingWellFounded
<1>2. \A i \in I : 0 .. i \in FiniteSubsetsOf(Nat)
  BY FS_Interval DEF FiniteSubsetsOf
<1>3. Below \subseteq FiniteSubsetsOf(Nat) /\ Below # {}
  BY <1>2
<1>4. PICK S \in Below : \A T \in Below : ~(<<T, S>> \in StrictSubsetOrdering(Nat))
  BY <1>1, <1>3, WFMin
<1>5. PICK m \in I : S = 0 .. m
  BY <1>4
<1>6. ASSUME NEW j \in I PROVE m <= j
  <2>1. ~(<<0 .. j, 0 .. m>> \in StrictSubsetOrdering(Nat))
    BY <1>4, <1>5, <1>6
  <2>2. ASSUME j < m PROVE FALSE
    <3>1. m \in 0 .. m /\ m \notin 0 .. j /\ 0 .. j \subseteq 0 .. m
      BY <1>5, <1>6, <2>2
    <3> QED
      BY <2>1, <3>1 DEF StrictSubsetOrdering
  <2> QED
    BY <1>5, <1>6, <2>2
<1> QED
  BY <1>6

(* The pieces of URLs.                                                     *)
Piece == {"nasc.", "nintendowifi.net", "api.", "pokemon-gl.com", "/html", "www.", "other.com",
          "npns.", "nintendo.net", "/?to=", "https://account.", "/v1/api/", "https://act.",
          "nicochristmann.net", ":6666/v1/api/", "nicoch.net"}

(* strstr finds a name where there is one.                                 *)
LEMMA StrstrFinds ==
  ASSUME NEW n \in Nat, NEW text \in [1 .. n -> Piece], NEW target
  PROVE  IF strstr(text, target) = 0
         THEN \A i \in 1 .. n : text[i] # target
         ELSE strstr(text, target) \in 1 .. n /\ text[strstr(text, target)] = target
<1> DEFINE places == {i \in 1 .. n : text[i] = target}
<1>1. strstr(text, target) = IF places = {} THEN 0 ELSE Min(places)
  BY DEF strstr
<1>2. CASE places = {}
  BY <1>1, <1>2
<1>3. CASE places # {}
  <2>1. \E m \in places : \A j \in places : m <= j
    <3>1. places \in SUBSET Nat
      OBVIOUS
    <3> QED
      BY <1>3, <3>1, SmallestNumber
  <2>2. Min(places) \in places
    BY <2>1 DEF Min
  <2> QED
    BY <1>1, <1>3, <2>2
<1> QED
  BY <1>2, <1>3

(* find_and_replace takes a name out that is there once, and brings no     *)
(* name in but ours.                                                       *)
LEMMA FindReplaces ==
  ASSUME NEW n \in Nat, NEW text \in [1 .. n -> Piece], NEW target
  PROVE  /\ find_and_replace(text, target) \in [1 .. n -> Piece]
         /\ \A i \in 1 .. n : find_and_replace(text, target)[i] \in {text[i], "nicoch.net"}
         /\ (\A i, j \in 1 .. n : text[i] = target /\ text[j] = target => i = j)
            /\ target # "nicoch.net"
              => \A i \in 1 .. n : find_and_replace(text, target)[i] # target
<1> DEFINE k == strstr(text, target)
<1>1. IF k = 0 THEN \A i \in 1 .. n : text[i] # target ELSE k \in 1 .. n /\ text[k] = target
  BY StrstrFinds
<1>2. find_and_replace(text, target) = IF k = 0 THEN text ELSE [text EXCEPT ![k] = "nicoch.net"]
  BY DEF find_and_replace
<1> HIDE DEF k
<1>3. CASE k = 0
  BY <1>1, <1>2, <1>3
<1>4. CASE k # 0
  <2>1. find_and_replace(text, target) = [text EXCEPT ![k] = "nicoch.net"]
    BY <1>2, <1>4
  <2>2. find_and_replace(text, target) \in [1 .. n -> Piece]
    <3>1. "nicoch.net" \in Piece
      BY DEF Piece
    <3> QED
      BY <2>1, <3>1
  <2>3. \A i \in 1 .. n : find_and_replace(text, target)[i]
                            = IF i = k THEN "nicoch.net" ELSE text[i]
    BY <2>1
  <2> HIDE DEF k
  <2> QED
    BY <1>1, <1>4, <2>2, <2>3
<1> QED
  BY <1>3, <1>4

Known == GameUrl \union {Official, Unofficial, <<>>}

(* In the URLs there are, Nintendo's account server is named once at most; *)
(* the replacement of the other names leaves that so.                      *)
LEMMA NintendoReplaced ==
  ASSUME NEW text \in Known
  PROVE  ~Contains(handle_replacements(text), "nintendo.net")
<1>1. PICK n \in Nat : text \in [1 .. n -> Piece]
  <2>1. \/ text = <<"nasc.", "nintendowifi.net">> \/ text = <<"api.", "pokemon-gl.com", "/html">>
        \/ text = <<"www.", "other.com">> \/ text = <<>>
        \/ text = <<"npns.", "nintendo.net", "/?to=", "nintendowifi.net">>
        \/ text = Official \/ text = Unofficial
    BY DEF Known, GameUrl
  <2>2. text \in Seq(Piece)
    <3>1. /\ <<"nasc.", "nintendowifi.net">> \in Seq(Piece)
          /\ <<"www.", "other.com">> \in Seq(Piece) /\ <<>> \in Seq(Piece)
      BY DEF Piece
    <3>2. <<"api.", "pokemon-gl.com", "/html">> \in Seq(Piece)
      BY DEF Piece
    <3>3. <<"npns.", "nintendo.net", "/?to=", "nintendowifi.net">> \in Seq(Piece)
      BY DEF Piece
    <3>4. Official \in Seq(Piece)
      BY DEF Official, Piece
    <3>5. Unofficial \in Seq(Piece)
      BY DEF Unofficial, Piece
    <3> QED
      BY <2>1, <3>1, <3>2, <3>3, <3>4, <3>5
  <2> QED
    BY <2>2, LenProperties
<1>2. \A i, j \in 1 .. n : text[i] = "nintendo.net" /\ text[j] = "nintendo.net" => i = j
  <2>1. DOMAIN text = 1 .. n
    BY <1>1
  <2>2. \A i, j \in DOMAIN text : text[i] = "nintendo.net" /\ text[j] = "nintendo.net" => i = j
    BY DEF Known, GameUrl, Official, Unofficial
  <2> QED
    BY <2>1, <2>2
<1> DEFINE one   == find_and_replace(text, Targets[1])
           two   == find_and_replace(one, Targets[2])
           three == find_and_replace(two, Targets[3])
<1>3. handle_replacements(text) = three /\ Targets[2] = "nintendo.net"
  BY DEF handle_replacements, Targets
<1>4. one \in [1 .. n -> Piece] /\ \A i \in 1 .. n : one[i] \in {text[i], "nicoch.net"}
  BY <1>1, FindReplaces
<1> HIDE DEF one
<1>5. two \in [1 .. n -> Piece] /\ \A i \in 1 .. n : two[i] # "nintendo.net"
  BY <1>2, <1>3, <1>4, FindReplaces
<1> HIDE DEF two
<1>6. three \in [1 .. n -> Piece] /\ \A i \in 1 .. n : three[i] # "nintendo.net"
  BY <1>5, FindReplaces
<1> HIDE DEF three
<1>7. three \in Seq(Piece) /\ 1 .. Len(three) = 1 .. n
  <2>1. three \in Seq(Piece)
    BY <1>6, SeqDef
  <2> QED
    BY <1>6, <2>1, LenProperties
<1> QED
  BY <1>3, <1>6, <1>7 DEF Contains
-----------------------------------------------------------------------------
(* A request that leaves has a URL there is, sent as it was or replaced.   *)
LEMMA LeaveTypes ==
  ASSUME TypeOK, NEW t \in Thread, NEW text \in Known, NEW known, NEW before \in BOOLEAN,
         Leave(t, text, known, before)
  PROVE  /\ pc' \in [Thread -> Where]
         /\ pc' = [pc EXCEPT ![t] = "idle"]
         /\ DOMAIN sent' = Thread
         /\ \A u \in Thread : /\ sent'[u].asked \in Known /\ sent'[u].seen \in BOOLEAN
                              /\ sent'[u].out \in {sent'[u].asked,
                                                   handle_replacements(sent'[u].asked)}
<1> DEFINE out == IF known = Pretendo + 1 THEN handle_replacements(text) ELSE text
<1>1. /\ sent' = [sent EXCEPT ![t] = [asked |-> text, seen |-> before, out |-> out]]
      /\ pc' = [pc EXCEPT ![t] = "idle"]
  BY DEF Leave
<1>2. DOMAIN sent' = Thread /\ sent'[t] = [asked |-> text, seen |-> before, out |-> out]
      /\ \A u \in Thread \ {t} : sent'[u] = sent[u]
  BY <1>1 DEF TypeOK
<1>3. out \in {text, handle_replacements(text)}
  OBVIOUS
<1> HIDE DEF out
<1>4. sent'[t].asked = text /\ sent'[t].seen = before /\ sent'[t].out = out
  BY <1>2
<1>5. \A u \in Thread : /\ sent'[u].asked \in Known /\ sent'[u].seen \in BOOLEAN
                        /\ sent'[u].out \in {sent'[u].asked, handle_replacements(sent'[u].asked)}
  BY <1>2, <1>3, <1>4 DEF TypeOK, Known
<1>6. pc' \in [Thread -> Where]
  BY <1>1 DEF TypeOK, Where
<1> QED
  BY <1>1, <1>2, <1>5, <1>6

(* The types of the sessions' variables.                                   *)
SessionTypes ==
  /\ environment \in Environment
  /\ nasc_environment \in {0} \union {e + 1 : e \in Environment}
  /\ frd_handle \in 0..MaxHandles /\ issued \in 0..MaxHandles
  /\ open \subseteq 1..issued /\ versioned \subseteq open
  /\ pretendo \in BOOLEAN /\ crossed \in BOOLEAN

RequestTypes ==
  /\ pc \in [Thread -> Where]
  /\ url \in [Thread -> Known]
  /\ answer \in [Thread -> Environment] /\ seen \in [Thread -> BOOLEAN]
  /\ DOMAIN sent = Thread
  /\ \A t \in Thread : /\ sent[t].asked \in Known /\ sent[t].seen \in BOOLEAN
                       /\ sent[t].out \in {sent[t].asked, handle_replacements(sent[t].asked)}

LEMMA TypesParts == TypeOK <=> SessionTypes /\ RequestTypes
BY DEF TypeOK, SessionTypes, RequestTypes, Known, Where

LEMMA InitTypes == Init => TypeOK
<1> SUFFICES ASSUME Start PROVE TypeOK
  BY Starts
<1>1. SessionTypes
  <2>1. pretendo \in BOOLEAN /\ crossed \in BOOLEAN
    BY Zenon DEF Start
  <2>2. /\ environment \in Environment /\ nasc_environment = 0
        /\ frd_handle = NoHandle /\ open = {} /\ versioned = {} /\ issued = 0
    BY Zenon DEF Start
  <2> QED BY <2>1, <2>2, BoundAssumption DEF SessionTypes, NoHandle
<1>2. <<>> \in Known
  BY DEF Known
<1>3. RequestTypes
  <2>1. /\ pc = [t \in Thread |-> "idle"] /\ url = [t \in Thread |-> <<>>]
        /\ answer = [t \in Thread |-> 0] /\ seen = [t \in Thread |-> FALSE]
        /\ sent = [t \in Thread |-> [asked |-> <<>>, out |-> <<>>, seen |-> FALSE]]
    BY Zenon DEF Start
  <2>2. /\ pc \in [Thread -> Where] /\ url \in [Thread -> Known]
        /\ answer \in [Thread -> Environment] /\ seen \in [Thread -> BOOLEAN]
    BY <1>2, <2>1 DEF Where, Environment
  <2>3. /\ DOMAIN sent = Thread
        /\ \A t \in Thread : sent[t].asked = <<>> /\ sent[t].out = <<>> /\ sent[t].seen = FALSE
    BY <2>1
  <2>4. \A t \in Thread : /\ sent[t].asked \in Known /\ sent[t].seen \in BOOLEAN
                          /\ sent[t].out \in {sent[t].asked, handle_replacements(sent[t].asked)}
    BY <1>2, <2>3
  <2> QED BY <2>2, <2>3, <2>4 DEF RequestTypes
<1> QED
  BY <1>1, <1>3, TypesParts

LEMMA NextTypes == TypeOK /\ [Next]_vars => TypeOK'
<1> SUFFICES ASSUME TypeOK, [Next]_vars PROVE TypeOK'
  OBVIOUS
<1>0. SessionTypes /\ RequestTypes
  BY TypesParts
<1>p. ASSUME SessionTypes', RequestTypes' PROVE TypeOK'
  BY <1>p DEF TypeOK, SessionTypes, RequestTypes, Known, Where
<1>1. CASE UNCHANGED vars
  BY <1>1 DEF vars, accounts, frd, TypeOK
<1>2. ASSUME NEW t \in Thread, Begin(t) PROVE TypeOK'
  <2>1. PICK text \in GameUrl \union AccountUrls :
          /\ url' = [url EXCEPT ![t] = text]
          /\ LET before == Redirected \/ \E u \in Thread : seen[u]
             IN  /\ seen' = [seen EXCEPT ![t] = before]
                 /\ IF nasc_environment # 0
                    THEN Leave(t, text, nasc_environment, before)
                    ELSE pc' = [pc EXCEPT ![t] = "handle"] /\ UNCHANGED sent
    BY <1>2 DEF Begin
  <2> DEFINE before == Redirected \/ \E u \in Thread : seen[u]
  <2>2. before \in BOOLEAN /\ seen' = [seen EXCEPT ![t] = before]
    BY <2>1 DEF Redirected
  <2>3. text \in Known
    BY DEF Known, AccountUrls, get_account_url
  <2>4. UNCHANGED <<accounts, nasc_environment, frd, answer>>
    BY <1>2 DEF Begin
  <2>5. SessionTypes'
    BY <1>0, <2>4 DEF SessionTypes, accounts, frd
  <2>6. url' \in [Thread -> Known] /\ seen' \in [Thread -> BOOLEAN]
    BY <1>0, <2>1, <2>2, <2>3 DEF RequestTypes
  <2>7. CASE nasc_environment # 0
    <3>1. Leave(t, text, nasc_environment, before)
      BY <2>1, <2>7
    <3> HIDE DEF before
    <3> QED
      BY <1>0, <1>p, <2>2, <2>3, <2>4, <2>5, <2>6, <3>1, LeaveTypes DEF RequestTypes
  <2>8. CASE nasc_environment = 0
    <3>1. pc' = [pc EXCEPT ![t] = "handle"] /\ UNCHANGED sent
      BY <2>1, <2>8
    <3> QED
      BY <1>0, <1>p, <2>4, <2>5, <2>6, <3>1 DEF RequestTypes, Where
  <2> QED BY <2>7, <2>8
<1>3. ASSUME NEW t \in Thread, get_frd_u_handle(t) PROVE TypeOK'
  <2>1. RequestTypes'
    BY <1>0, <1>3 DEF get_frd_u_handle, RequestTypes, Where
  <2>2. SessionTypes'
    <3>1. CASE UNCHANGED <<issued, open, frd_handle>>
      BY <1>0, <1>3, <3>1 DEF get_frd_u_handle, SessionTypes, accounts
    <3>2. CASE /\ issued < MaxHandles /\ issued' = issued + 1
               /\ open' = open \union {issued'} /\ frd_handle' = issued'
      <4>1. issued' \in 1 .. MaxHandles /\ 1 .. issued \subseteq 1 .. issued'
        BY <1>0, <3>2, BoundAssumption DEF SessionTypes
      <4> QED
        BY <1>0, <1>3, <3>2, <4>1 DEF get_frd_u_handle, SessionTypes, accounts
    <3> QED
      BY <1>3, <3>1, <3>2 DEF get_frd_u_handle
  <2> QED BY <1>p, <2>1, <2>2
<1>4. ASSUME NEW t \in Thread, SetClientSdkVersion(t) PROVE TypeOK'
  <2>1. RequestTypes'
    BY <1>0, <1>4 DEF SetClientSdkVersion, RequestTypes, Where
  <2>2. SessionTypes'
    BY <1>0, <1>4 DEF SetClientSdkVersion, SessionTypes, accounts
  <2> QED BY <1>p, <2>1, <2>2
<1>5. ASSUME NEW t \in Thread, GetServerTypes(t) PROVE TypeOK'
  <2>1. RequestTypes'
    <3>1. environment \in Environment
      BY <1>0 DEF SessionTypes
    <3> QED BY <1>0, <1>5, <3>1 DEF GetServerTypes, RequestTypes, Where
  <2>2. SessionTypes'
    BY <1>0, <1>5 DEF GetServerTypes, SessionTypes, accounts, frd
  <2> QED BY <1>p, <2>1, <2>2
<1>6. ASSUME NEW t \in Thread, GetServerTypesFails(t) \/ Close(t) PROVE TypeOK'
  <2>1. \E known : Leave(t, url[t], known, seen[t])
    BY <1>6 DEF GetServerTypesFails, Close
  <2>2. url[t] \in Known /\ seen[t] \in BOOLEAN /\ UNCHANGED <<url, answer, seen>>
    BY <1>0, <1>6 DEF RequestTypes, GetServerTypesFails, Close
  <2>3. RequestTypes'
    BY <1>0, <2>1, <2>2, LeaveTypes DEF RequestTypes
  <2>4. SessionTypes'
    BY <1>0, <1>6 DEF GetServerTypesFails, Close, SessionTypes, accounts, frd
  <2> QED BY <1>p, <2>3, <2>4
<1>7. ASSUME NEW t \in Thread, Store(t) PROVE TypeOK'
  <2>1. RequestTypes'
    BY <1>0, <1>7 DEF Store, RequestTypes, Where
  <2>2. SessionTypes'
    <3>1. nasc_environment' \in {e + 1 : e \in Environment}
      BY <1>0, <1>7 DEF Store, Cached, RequestTypes
    <3> QED BY <1>0, <1>7, <3>1 DEF Store, SessionTypes, accounts, frd
  <2> QED BY <1>p, <2>1, <2>2
<1>8. CASE LoadLocalAccount
  <2>1. RequestTypes'
    BY <1>0, <1>8 DEF LoadLocalAccount, RequestTypes
  <2>2. pretendo' \in BOOLEAN /\ crossed' \in BOOLEAN
    BY <1>0, <1>8 DEF LoadLocalAccount, SessionTypes
  <2>3. SessionTypes'
    BY <1>0, <1>8, <2>2 DEF LoadLocalAccount, SessionTypes, frd
  <2> QED BY <1>p, <2>1, <2>3
<1> QED BY <1>1, <1>2, <1>3, <1>4, <1>5, <1>6, <1>7, <1>8 DEF Next

(* The variables of the two patches keep their types.                      *)
THEOREM TypeCorrect == Spec => []TypeOK
<1> QED BY InitTypes, NextTypes, PTL DEF Spec

(* Once a request was redirected, nothing that begins later reaches        *)
(* Nintendo's account server, also what act asks for after a failed call,  *)
(* unless another account was loaded while a thread asked.                 *)
THEOREM AccountStaysHere == Spec => []AccountNotAtNintendo
<1>1. IInv /\ TypeOK => AccountNotAtNintendo
  <2> SUFFICES ASSUME IInv, TypeOK, NEW t \in Thread, ~crossed, sent[t].seen
               PROVE  ~Contains(sent[t].out, "nintendo.net")
    BY DEF AccountNotAtNintendo
  <2>1. sent[t].out = handle_replacements(sent[t].asked)
    BY DEF IInv, Steady, Right
  <2>2. sent[t].asked \in Known
    BY DEF TypeOK, Known
  <2> QED BY <2>1, <2>2, NintendoReplaced
<1> QED BY InitIInv, NextIInv, InitTypes, NextTypes, <1>1, PTL DEF Spec
-----------------------------------------------------------------------------
(* Plugin.                                                                 *)

(* The patterns and the games.                                             *)
Name == {"send", "recv", "conn", "ident", "packet", "ids"}

LEMMA CommonIs ==
  /\ Common \in Seq(Name) /\ Len(Common) = 11
  /\ \A e \in 1 .. 11 : Common[e] = "send" => e \in 1 .. 4
  /\ \A e \in 1 .. 11 : Common[e] = "recv" => e \in 5 .. 9
  /\ \A e \in 1 .. 11 : Common[e] \notin {"packet", "ids"}
<1>1. Common \in Seq(Name) /\ Len(Common) = 11
  BY DEF Common, Name
<1>2. /\ Common[1] = "send" /\ Common[2] = "send" /\ Common[3] = "send" /\ Common[4] = "send"
      /\ Common[5] = "recv" /\ Common[6] = "recv" /\ Common[7] = "recv" /\ Common[8] = "recv"
      /\ Common[9] = "recv" /\ Common[10] = "conn" /\ Common[11] = "ident"
  BY DEF Common
<1>3. \A e \in 1 .. 11 : e \in 1 .. 4 \/ e \in 5 .. 9 \/ e = 10 \/ e = 11
  OBVIOUS
<1>4. \A e \in 1 .. 4 : Common[e] = "send"
  BY <1>2
<1>5. \A e \in 5 .. 9 : Common[e] = "recv"
  BY <1>2
<1> QED
  BY <1>1, <1>2, <1>3, <1>4, <1>5

LEMMA EntriesAre ==
  /\ Entries(FALSE) = Common /\ Len(Entries(TRUE)) = 13
  /\ Entries(TRUE)[12] = "packet" /\ Entries(TRUE)[13] = "ids"
  /\ \A e \in 1 .. 11 : Entries(TRUE)[e] = Common[e]
<1> DEFINE more == <<"packet", "ids">>
<1>1. more \in Seq(Name) /\ Len(more) = 2 /\ more[1] = "packet" /\ more[2] = "ids"
  BY DEF Name
<1>2. Common \in Seq(Name) /\ Len(Common) = 11
  BY CommonIs
<1>3. Entries(TRUE) = Common \o more /\ Entries(FALSE) = Common
  BY DEF Entries
<1> HIDE DEF more
<1>4. Common \o more \in Seq(Name) /\ Len(Common \o more) = Len(Common) + Len(more)
  BY <1>1, <1>2, ConcatProperties
<1>5. \A e \in 1 .. Len(Common) + Len(more) :
        (Common \o more)[e] = IF e <= Len(Common) THEN Common[e] ELSE more[e - Len(Common)]
  BY <1>1, <1>2, ConcatProperties
<1> DEFINE both == Common \o more
<1>6. /\ Len(both) = Len(Common) + Len(more)
      /\ \A e \in 1 .. Len(Common) + Len(more) :
           both[e] = IF e <= Len(Common) THEN Common[e] ELSE more[e - Len(Common)]
  BY <1>4, <1>5
<1> HIDE DEF both
<1>7. /\ Len(both) = 13 /\ both[12] = more[1] /\ both[13] = more[2]
      /\ \A e \in 1 .. 11 : both[e] = Common[e]
  BY <1>1, <1>2, <1>6
<1>8. Entries(TRUE) = both
  BY <1>3 DEF both
<1> QED
  BY <1>1, <1>3, <1>7, <1>8

(* Where the functions of a hook are. *)
Place(h) == IF h = "send" THEN {1, 2} ELSE IF h = "recv" THEN {3, 4} ELSE {5}

LEMMA GamesAre ==
  ASSUME NEW g \in Games
  PROVE  /\ Len(g) \in {11, 13}
         /\ \A e \in 1 .. 4 : \A i \in 1 .. Len(g[e]) : g[e][i] \in {Null} \cup Place("send")
         /\ \A e \in 5 .. 9 : \A i \in 1 .. Len(g[e]) : g[e][i] \in {Null} \cup Place("recv")
         /\ \A e \in 1 .. Len(g) : Len(g[e]) \in Nat
         /\ Len(g) = 13 => g[12] \in {<<>>, <<5>>} /\ g[13] \in {<<>>, <<"id1", "id2">>}
<1> DEFINE Hits(e, s1, s4, r5, r6, p12, i13) ==
             CASE e = 1 -> s1 [] e = 4 -> s4 [] e = 5 -> r5 [] e = 6 -> r6
               [] e = 12 -> p12 [] e = 13 -> i13 [] OTHER -> <<>>
<1>1. PICK acnl \in BOOLEAN, s1 \in {<<>>, <<1>>}, s4 \in {<<>>, <<Null, 2>>},
           r5 \in {<<>>, <<Null>>, <<Null, 3>>}, r6 \in {<<>>, <<4>>},
           p12 \in {<<>>, <<5>>}, i13 \in {<<>>, <<"id1", "id2">>} :
        g = [e \in 1 .. Len(Entries(acnl)) |-> Hits(e, s1, s4, r5, r6, p12, i13)]
  BY DEF Games
<1>2. Len(Entries(acnl)) = IF acnl THEN 13 ELSE 11
  BY <1>1, CommonIs, EntriesAre
<1>3. PICK m \in {11, 13} : g = [e \in 1 .. m |-> Hits(e, s1, s4, r5, r6, p12, i13)]
  BY <1>1, <1>2
<1>4. Len(g) = m
  <2>1. m \in Nat
    BY <1>3
  <2>2. g \in Seq({Hits(e, s1, s4, r5, r6, p12, i13) : e \in 1 .. m}) /\ DOMAIN g = 1 .. m
    <3> HIDE DEF Hits
    <3> QED
      BY <1>3, <2>1, SeqDef
  <2> QED
    BY <2>1, <2>2, LenProperties
<1>5. /\ g[1] = s1 /\ g[2] = <<>> /\ g[3] = <<>> /\ g[4] = s4 /\ g[5] = r5 /\ g[6] = r6
      /\ g[7] = <<>> /\ g[8] = <<>> /\ g[9] = <<>>
      /\ m = 13 => g[12] = p12 /\ g[13] = i13
  BY <1>3
<1>6. \A e \in 1 .. 4 : \A i \in 1 .. Len(g[e]) : g[e][i] \in {Null} \cup Place("send")
  <2>1. ASSUME NEW i \in 1 .. Len(s1) PROVE s1[i] \in {Null} \cup Place("send")
    BY <1>1, <2>1 DEF Place
  <2>2. ASSUME NEW i \in 1 .. Len(s4) PROVE s4[i] \in {Null} \cup Place("send")
    BY <1>1, <2>2 DEF Place
  <2>3. \A e \in 1 .. 4 : e = 1 \/ e = 2 \/ e = 3 \/ e = 4
    OBVIOUS
  <2>4. Len(<<>>) = 0
    OBVIOUS
  <2>5. ASSUME NEW e \in 1 .. 4, NEW i \in 1 .. Len(g[e])
        PROVE g[e][i] \in {Null} \cup Place("send")
    <3>1. CASE e = 1
      BY <1>5, <2>1, <2>5, <3>1
    <3>2. CASE e = 4
      BY <1>5, <2>2, <2>5, <3>2
    <3>3. CASE e = 2 \/ e = 3
      BY <1>5, <2>4, <2>5, <3>3
    <3> QED
      BY <2>3, <3>1, <3>2, <3>3
  <2> QED
    BY <2>5
<1>7. \A e \in 5 .. 9 : \A i \in 1 .. Len(g[e]) : g[e][i] \in {Null} \cup Place("recv")
  <2>1. ASSUME NEW i \in 1 .. Len(r5) PROVE r5[i] \in {Null} \cup Place("recv")
    BY <1>1, <2>1 DEF Place
  <2>2. ASSUME NEW i \in 1 .. Len(r6) PROVE r6[i] \in {Null} \cup Place("recv")
    BY <1>1, <2>2 DEF Place
  <2>3. \A e \in 5 .. 9 : e = 5 \/ e = 6 \/ e = 7 \/ e = 8 \/ e = 9
    OBVIOUS
  <2>4. Len(<<>>) = 0
    OBVIOUS
  <2>5. ASSUME NEW e \in 5 .. 9, NEW i \in 1 .. Len(g[e])
        PROVE g[e][i] \in {Null} \cup Place("recv")
    <3>1. CASE e = 5
      BY <1>5, <2>1, <2>5, <3>1
    <3>2. CASE e = 6
      BY <1>5, <2>2, <2>5, <3>2
    <3>3. CASE e = 7 \/ e = 8 \/ e = 9
      BY <1>5, <2>4, <2>5, <3>3
    <3> QED
      BY <2>3, <3>1, <3>2, <3>3
  <2> QED
    BY <2>5
<1>8. \A e \in 1 .. m : Len(g[e]) \in Nat
  <2>1. /\ Len(s1) \in Nat /\ Len(s4) \in Nat /\ Len(r5) \in Nat /\ Len(r6) \in Nat
        /\ Len(p12) \in Nat /\ Len(i13) \in Nat /\ Len(<<>>) \in Nat
    BY <1>1
  <2>2. ASSUME NEW e \in 1 .. m
        PROVE g[e] \in {s1, s4, r5, r6, p12, i13, <<>>}
    BY <1>3, <2>2
  <2> QED
    BY <2>1, <2>2
<1> QED
  BY <1>1, <1>3, <1>4, <1>5, <1>6, <1>7, <1>8

LEMMA PlacesAre ==
  ASSUME hits \in Games
  PROVE  /\ Len(hits) = 13 /\ hits[13] # <<>> => Places = Id
         /\ Len(hits) = 13 /\ hits[13] = <<>> => Places = {}
<1>1. Len(hits) = 13 => Places = {hits[13][i] : i \in DOMAIN hits[13]}
  BY CommonIs DEF Places
<1>2. CASE Len(hits) = 13 /\ hits[13] # <<>>
  <2>1. hits[13] = <<"id1", "id2">>
    BY <1>2, GamesAre
  <2>2. {<<"id1", "id2">>[i] : i \in DOMAIN <<"id1", "id2">>} = Id
    BY DEF Id
  <2> QED BY <1>1, <1>2, <2>1, <2>2
<1>3. CASE Len(hits) = 13 /\ hits[13] = <<>>
  BY <1>1, <1>3
<1> QED BY <1>2, <1>3

-----------------------------------------------------------------------------
(* The inductive invariant.  While a task is in the middle of setting a    *)
(* hook up, it holds the hook's mutex and nothing leads there yet; a place *)
(* the search has passed is in the list; the steps the menu or the end     *)
(* still has to take tell which hooks are on.                              *)
Loader ==
  ~disturbed => \/ params = {} /\ enabled = own /\ (phase = "app" \/ cleaned = "yes")
                \/ /\ params = {own} /\ (phase = "app" \/ cleaned # "yes")
                   /\ phase = "game" /\ cleaned = "state" => enabled = own

(* The loader's part needs nothing of the rest.                            *)
Cleaning ==
  /\ phase = "search" => cleaned = "no"
  /\ phase \in {"menu", "fini"} => cleaned = "yes"
  /\ params = {} => phase = "app" \/ cleaned = "yes"
Loading == Loader /\ Cleaning /\ own \in BOOLEAN /\ enabled \in BOOLEAN

SearchTypes ==
  /\ at \in [Task -> Nat \ {0}] /\ hit \in [Task -> Nat \ {0}]
  /\ doing \in [Task -> {"search", "copy"}] /\ lock \in [Hook -> Task \cup {Null}]
  /\ phase # "app" => hits \in Games

HookTypes ==
  /\ hook \in [Hook -> [func : Func \cup {Null},
                             call : Func \cup {Null}, on : BOOLEAN]]
  /\ addr \in [Hook -> Func \cup {Null}]
  /\ code \in [Func \cup {Null} -> Hook \cup {"game"}]
  /\ ids \subseteq Id /\ patchedIds \subseteq Id

Copies(k) ==
  /\ HasHit(k) /\ Kind(k) \in Hook
  /\ lock[Kind(k)] = k /\ addr[Kind(k)] = Null
  /\ Addr(k) # Null /\ hook[Kind(k)].func = Addr(k)

Copying == phase = "search" => \A k \in Task : doing[k] = "copy" => Copies(k)

Placed ==
  \A h \in Hook : addr[h] # Null =>
    addr[h] \in Place(h) /\ hook[h].func = addr[h] /\ hook[h].call = addr[h]

Jumps ==
  /\ \A h \in Hook : hook[h].on => addr[h] # Null /\ code[addr[h]] = h
  /\ \A f \in Func \cup {Null} : code[f] # "game" =>
       code[f] \in Hook /\ hook[code[f]].on /\ addr[code[f]] = f

Collected ==
  /\ (phase = "search" /\ Count = 13 /\ hits[13] = <<>>) => ids = {}
  /\ (phase = "search" /\ Count = 13 /\ hits[13] # <<>>) =>
       /\ at[2] >= 8 => ids = Id
       /\ at[2] = 7 /\ hit[2] = 2 => "id1" \in ids
       /\ at[2] = 7 /\ hit[2] >= 3 => ids = Id

Fixing ==
  /\ phase \in {"app", "search"} => patchedIds = {} /\ \A h \in Hook : ~hook[h].on
  /\ phase = "search" /\ addr["packet"] # Null => Count = 13
  /\ patchedIds = {} \/ patchedIds \subseteq ids
  /\ phase \in {"game", "menu"} => patchedIds = IF hook["packet"].on THEN Places ELSE {}

Steps(k) ==
  IF k = 1 THEN Fini
  ELSE IF k = 2 THEN <<"disable recv", "delete logger", "disable packet", "restore ids",
                        "clear ids">>
  ELSE IF k = 3 THEN <<"delete logger", "disable packet", "restore ids", "clear ids">>
  ELSE IF k = 4 THEN <<"disable packet", "restore ids", "clear ids">>
  ELSE IF k = 5 THEN <<"restore ids", "clear ids">>
  ELSE IF k = 6 THEN <<"clear ids">>
  ELSE <<>>

Going ==
  /\ phase \in {"app", "search", "game"} => todo = <<>>
  /\ phase = "game" /\ (hook["send"].on \/ hook["recv"].on) => logger
  /\ phase = "menu" =>
       \/ /\ todo \in {<<"enable send", "enable recv", "new logger">>,
                       <<"enable recv", "new logger">>, <<"new logger">>}
          /\ addr["send"] # Null /\ addr["recv"] # Null
       \/ /\ todo \in {<<"disable send", "disable recv">>, <<"disable recv">>, <<>>}
          /\ logger
  /\ phase = "fini" =>
       \E k \in 1 .. 7 :
         /\ todo = Steps(k)
         /\ k > 1 => ~hook["send"].on
         /\ k > 2 => ~hook["recv"].on
         /\ k > 4 => ~hook["packet"].on
         /\ k > 5 => patchedIds = {}

Phases == phase \in {"app", "search", "game", "menu", "fini"}

PlugInv ==
  /\ Phases /\ SearchTypes /\ HookTypes /\ Copying /\ Placed /\ Jumps
  /\ Collected /\ Fixing /\ Going

-----------------------------------------------------------------------------
(* The steps of the menu's entry and of the end.                           *)
LEMMA StepsAre ==
  /\ Steps(1) # <<>> /\ Head(Steps(1)) = "disable send" /\ Tail(Steps(1)) = Steps(2)
  /\ Steps(2) # <<>> /\ Head(Steps(2)) = "disable recv" /\ Tail(Steps(2)) = Steps(3)
  /\ Steps(3) # <<>> /\ Head(Steps(3)) = "delete logger" /\ Tail(Steps(3)) = Steps(4)
  /\ Steps(4) # <<>> /\ Head(Steps(4)) = "disable packet" /\ Tail(Steps(4)) = Steps(5)
  /\ Steps(5) # <<>> /\ Head(Steps(5)) = "restore ids" /\ Tail(Steps(5)) = Steps(6)
  /\ Steps(6) # <<>> /\ Head(Steps(6)) = "clear ids" /\ Tail(Steps(6)) = Steps(7)
  /\ Steps(7) = <<>>
<1> DEFINE a == "disable send"
           b == "disable recv"
           c == "delete logger"
           d == "disable packet"
           e == "restore ids"
           f == "clear ids"
<1>1. /\ Steps(1) = <<a, b, c, d, e, f>>
      /\ Steps(2) = <<b, c, d, e, f>>
      /\ Steps(3) = <<c, d, e, f>>
      /\ Steps(4) = <<d, e, f>>
      /\ Steps(5) = <<e, f>>
      /\ Steps(6) = <<f>>
      /\ Steps(7) = <<>>
  BY DEF Steps, Fini
<1> HIDE DEF a, b, c, d, e, f
<1>2. /\ <<a, b, c, d, e, f>> # <<>> /\ Head(<<a, b, c, d, e, f>>) = a /\ Tail(<<a, b, c, d, e, f>>) = <<b, c, d, e, f>>
      /\ <<b, c, d, e, f>> # <<>> /\ Head(<<b, c, d, e, f>>) = b /\ Tail(<<b, c, d, e, f>>) = <<c, d, e, f>>
      /\ <<c, d, e, f>> # <<>> /\ Head(<<c, d, e, f>>) = c /\ Tail(<<c, d, e, f>>) = <<d, e, f>>
      /\ <<d, e, f>> # <<>> /\ Head(<<d, e, f>>) = d /\ Tail(<<d, e, f>>) = <<e, f>>
      /\ <<e, f>> # <<>> /\ Head(<<e, f>>) = e /\ Tail(<<e, f>>) = <<f>>
      /\ <<f>> # <<>> /\ Head(<<f>>) = f /\ Tail(<<f>>) = <<>>
  OBVIOUS
<1>3. /\ Steps(1) # <<>> /\ Head(Steps(1)) = a /\ Tail(Steps(1)) = Steps(2)
      /\ Steps(2) # <<>> /\ Head(Steps(2)) = b /\ Tail(Steps(2)) = Steps(3)
      /\ Steps(3) # <<>> /\ Head(Steps(3)) = c /\ Tail(Steps(3)) = Steps(4)
      /\ Steps(4) # <<>> /\ Head(Steps(4)) = d /\ Tail(Steps(4)) = Steps(5)
      /\ Steps(5) # <<>> /\ Head(Steps(5)) = e /\ Tail(Steps(5)) = Steps(6)
      /\ Steps(6) # <<>> /\ Head(Steps(6)) = f /\ Tail(Steps(6)) = Steps(7)
      /\ Steps(7) = <<>>
  BY <1>1, <1>2
<1> QED
  BY <1>3 DEF a, b, c, d, e, f

-----------------------------------------------------------------------------
(* What a task finds.                                                      *)
LEMMA TasksAre ==
  /\ Task = {1, 2} /\ Hook = {"send", "recv", "packet"}
  /\ \A h \in Hook : Place(h) \subseteq Func /\ Null \notin Place(h)
  /\ \A h1, h2 \in Hook : Place(h1) \cap Place(h2) # {} => h1 = h2
BY DEF Task, Hook, Place, Func, Null

LEMMA Finds ==
  ASSUME PlugInv, NEW k \in Task, HasHit(k)
  PROVE  /\ Count \in {11, 13} /\ hit[k] \in 1 .. Len(hits[EntryOf(k)])
         /\ Kind(k) \in Hook => Addr(k) \in {Null} \cup Place(Kind(k))
         /\ Kind(k) = "packet" => Count = 13
         /\ Kind(k) = "ids" => /\ k = 2 /\ Count = 13 /\ at[2] = 7 /\ hit[2] \in {1, 2}
                               /\ Addr(k) = IF hit[2] = 1 THEN "id1" ELSE "id2"
                               /\ hits[13] # <<>>
<1> DEFINE e == EntryOf(k)
<1>1. hits \in Games /\ phase = "search" /\ e <= LastOf(k) /\ hit[k] <= Len(hits[e])
  BY DEF HasHit, Busy, PlugInv, SearchTypes
<1>2. Count \in {11, 13}
  BY <1>1, GamesAre DEF Count
<1>3. at[k] \in Nat \ {0} /\ hit[k] \in Nat \ {0}
  BY DEF PlugInv, SearchTypes
<1>4. e \in 1 .. Count /\ (e = at[k] + (IF k = 1 THEN 0 ELSE Count \div 2))
  BY <1>1, <1>2, <1>3, TasksAre DEF EntryOf, LastOf
<1>5. 13 \div 2 = 6
  OBVIOUS
<1> HIDE DEF e
<1>6. \/ e \in 1 .. 4 /\ Kind(k) \notin {"recv", "packet", "ids"}
      \/ e \in 5 .. 9 /\ Kind(k) \notin {"send", "packet", "ids"}
      \/ e \in 10 .. 11 /\ Kind(k) \notin {"send", "recv", "packet", "ids"}
      \/ e = 12 /\ Count = 13 /\ Kind(k) = "packet"
      \/ e = 13 /\ Count = 13 /\ Kind(k) = "ids"
  <2>1. CASE e \in 1 .. 11
    <3>1. Kind(k) = Common[e]
      <4>1. Kind(k) = IF Count > 11 THEN Entries(TRUE)[e] ELSE Entries(FALSE)[e]
        BY CommonIs DEF Kind, Entries, e
      <4>2. Entries(TRUE)[e] = Common[e] /\ Entries(FALSE)[e] = Common[e]
        BY <2>1, EntriesAre
      <4> QED
        BY <4>1, <4>2
    <3>2. e \in 1 .. 4 \/ e \in 5 .. 9 \/ e \in 10 .. 11
      BY <2>1
    <3>3. CASE e \in 1 .. 4
      BY <2>1, <3>1, <3>3, CommonIs
    <3>4. CASE e \in 5 .. 9
      BY <2>1, <3>1, <3>4, CommonIs
    <3>5. CASE e \in 10 .. 11
      <4>1. e \notin 1 .. 4 /\ e \notin 5 .. 9
        BY <3>5
      <4>2. Common[e] \notin {"send", "recv", "packet", "ids"}
        BY <2>1, <4>1, CommonIs
      <4>3. Kind(k) \notin {"send", "recv", "packet", "ids"}
        BY <3>1, <4>2
      <4> QED
        BY <3>5, <4>3
    <3> QED
      BY <3>2, <3>3, <3>4, <3>5
  <2>2. CASE e \in 12 .. 13
    <3>1. Count = 13
      BY <1>2, <1>4, <2>2
    <3>2. Kind(k) = Entries(TRUE)[e]
      <4>1. Count > Len(Common)
        BY <3>1, CommonIs
      <4> QED
        BY <4>1 DEF Kind, Entries, e
    <3>3. CASE e = 12
      BY <3>1, <3>2, <3>3, EntriesAre
    <3>4. CASE e = 13
      BY <3>1, <3>2, <3>4, EntriesAre
    <3> QED
      BY <2>2, <3>3, <3>4
  <2> QED
    BY <1>2, <1>4, <2>1, <2>2
<1>7. hit[k] \in 1 .. Len(hits[e]) /\ Addr(k) = hits[e][hit[k]]
  <2>1. Len(hits[e]) \in Nat
    BY <1>1, <1>4, GamesAre DEF Count
  <2> QED
    BY <1>1, <1>3, <2>1 DEF Addr, e
<1>8. Kind(k) \in Hook => Addr(k) \in {Null} \cup Place(Kind(k))
  <2>1. CASE e \in 1 .. 4
    <3>1. Addr(k) \in {Null} \cup Place("send")
      BY <1>1, <1>7, <2>1, GamesAre
    <3> QED
      BY <1>4, <1>6, <2>1, <3>1, TasksAre
  <2>2. CASE e \in 5 .. 9
    <3>1. Addr(k) \in {Null} \cup Place("recv")
      BY <1>1, <1>7, <2>2, GamesAre
    <3> QED
      BY <1>4, <1>6, <2>2, <3>1, TasksAre
  <2>3. CASE e = 12 /\ Count = 13 /\ Kind(k) = "packet"
    <3>1. hits[12] \in {<<>>, <<5>>} /\ Len(<<>>) = 0
      BY <1>1, <2>3, GamesAre DEF Count
    <3>2. hits[12] = <<5>>
      BY <1>7, <2>3, <3>1
    <3> QED
      BY <1>7, <2>3, <3>2 DEF Place
  <2>4. CASE Kind(k) \notin {"send", "recv", "packet"}
    BY <2>4, TasksAre
  <2> QED
    BY <1>6, <2>1, <2>2, <2>3, <2>4
<1>9. Kind(k) = "ids" => /\ k = 2 /\ Count = 13 /\ at[2] = 7 /\ hit[2] \in {1, 2}
                         /\ Addr(k) = IF hit[2] = 1 THEN "id1" ELSE "id2"
                         /\ hits[13] # <<>>
  <2> SUFFICES ASSUME Kind(k) = "ids"
               PROVE  /\ k = 2 /\ Count = 13 /\ at[2] = 7 /\ hit[2] \in {1, 2}
                      /\ Addr(k) = IF hit[2] = 1 THEN "id1" ELSE "id2"
                      /\ hits[13] # <<>>
    OBVIOUS
  <2>1. e = 13 /\ Count = 13
    BY <1>6
  <2>0. hits[13] \in {<<>>, <<"id1", "id2">>} /\ Len(<<>>) = 0
    BY <1>1, <2>1, GamesAre DEF Count
  <2>2. hits[13] = <<"id1", "id2">> /\ hits[13] # <<>>
    BY <1>7, <2>0, <2>1
  <2>3. k # 1
    BY <1>1, <1>5, <2>1 DEF LastOf
  <2>4. k = 2 /\ at[2] = 7
    BY <1>3, <1>4, <1>5, <2>1, <2>3, TasksAre
  <2> QED
    BY <1>7, <2>1, <2>2, <2>4
<1> QED
  BY <1>2, <1>6, <1>7, <1>8, <1>9 DEF e

-----------------------------------------------------------------------------
(* Each step keeps the invariant.                                          *)
LEMMA Initial ==
  ASSUME PluginInit
  PROVE  PlugInv /\ Loader
<1>1. SearchTypes
  BY DEF PluginInit, SearchTypes, Each
<1>2. HookTypes
  BY DEF PluginInit, HookTypes, Each, NoHook
<1>3. \A h \in Hook : addr[h] = Null /\ hook[h].on = FALSE
  BY DEF PluginInit, Each, NoHook
<1>4. Placed /\ Jumps
  BY <1>3 DEF PluginInit, Each, Placed, Jumps
<1>5. Copying /\ Collected /\ Going /\ Phases /\ Loader
  BY DEF PluginInit, Copying, Collected, Going, Phases, Loader
<1>6. Fixing
  BY <1>3 DEF PluginInit, Fixing
<1> QED
  BY <1>1, <1>2, <1>4, <1>5, <1>6 DEF PlugInv

(* The loader's part: only the app, the start of a game and main() count.  *)
LEMMA LoaderKept ==
  ASSUME Loading, UNCHANGED <<loader, cleaned>>,
         \/ phase' = "app" \/ phase' = phase
         \/ phase = "game" /\ cleaned = "yes" /\ phase' \in {"menu", "fini"}
         \/ phase \in {"search", "menu"} /\ phase' = "game"
  PROVE  Loading'
<1>1. UNCHANGED <<enabled, params, own, disturbed, cleaned>>
  BY DEF loader
<1>2. Cleaning'
  BY <1>1 DEF Loading, Cleaning
<1>3. Loader'
  BY <1>1 DEF Loading, Cleaning, Loader
<1> QED BY <1>1, <1>2, <1>3 DEF Loading

LEMMA LoaderSteps ==
  ASSUME Loading,
         PressY \/ LoaderToggled \/ StartGame \/ RestoreState \/ ClearParameters
  PROVE  Loading'
<1>0. Loader /\ Cleaning /\ own \in BOOLEAN /\ enabled \in BOOLEAN
  BY DEF Loading
<1>1. CASE PressY
  <2>1. PICK failed \in {"enable", "parameters", "none"} :
          /\ launchPlugin(failed)
          /\ disturbed' = (disturbed \/ enabled # own \/ failed # "none")
    BY <1>1 DEF PressY
  <2>2. enabled' \in BOOLEAN /\ UNCHANGED own /\ UNCHANGED phase /\ phase = "app"
    BY <1>0, <1>1, <2>1 DEF PressY, launchPlugin
  <2>3. ASSUME ~disturbed' PROVE params' = {own}
    <3>1. enabled = own /\ failed = "none"
      BY <2>1, <2>3
    <3> QED
      BY <2>1, <3>1 DEF launchPlugin
  <2>4. Loader'
    BY <2>2, <2>3 DEF Loader
  <2>5. Cleaning'
    BY <2>2 DEF Cleaning
  <2> QED
    BY <1>0, <2>2, <2>4, <2>5 DEF Loading
<1>2. CASE LoaderToggled
  <2>1. enabled' \in BOOLEAN /\ enabled' = ~enabled /\ UNCHANGED <<params, phase, cleaned>>
    BY <1>0, <1>2 DEF LoaderToggled
  <2>2. CASE params = {}
    <3>1. own' = enabled' /\ disturbed' = FALSE
      BY <1>2, <2>2 DEF LoaderToggled
    <3>2. phase = "app" \/ cleaned = "yes"
      BY <1>0, <2>2 DEF Cleaning
    <3> QED
      BY <1>0, <2>1, <2>2, <3>1, <3>2 DEF Loader, Cleaning, Loading
  <2>3. CASE params # {}
    <3>1. UNCHANGED own /\ disturbed' = (disturbed \/ (phase = "game" /\ cleaned = "state"))
      BY <1>2, <2>3 DEF LoaderToggled
    <3>2. Loader'
      BY <1>0, <2>1, <2>3, <3>1 DEF Loader
    <3> QED
      BY <1>0, <2>1, <3>1, <3>2 DEF Cleaning, Loading
  <2> QED BY <2>2, <2>3
<1>3. CASE StartGame
  BY <1>0, <1>3 DEF StartGame, Loader, Cleaning, loader, Loading
<1>4. CASE RestoreState
  <2>1. /\ UNCHANGED <<own, params, phase>> /\ phase = "game" /\ cleaned = "no"
        /\ \/ cleaned' = "state" /\ enabled' = (TRUE \in params) /\ UNCHANGED disturbed
           \/ cleaned' \in {"state", "yes"} /\ disturbed' = TRUE /\ UNCHANGED enabled
    BY <1>4 DEF RestoreState
  <2>2. CASE disturbed' = TRUE /\ UNCHANGED enabled
    BY <1>0, <2>1, <2>2 DEF Loader, Cleaning, Loading
  <2>3. CASE cleaned' = "state" /\ enabled' = (TRUE \in params) /\ UNCHANGED disturbed
    <3>1. enabled' \in BOOLEAN
      <4>1. (TRUE \in params) \in BOOLEAN
        OBVIOUS
      <4> QED BY <2>3, <4>1, Zenon
    <3>2. ASSUME ~disturbed PROVE params = {own} /\ enabled' = own
      <4>1. params = {own}
        BY <1>0, <2>1, <3>2 DEF Loader
      <4>2. CASE own = TRUE
        <5>1. (TRUE \in params) = TRUE
          BY <4>1, <4>2
        <5> QED BY <2>3, <4>1, <4>2, <5>1, Zenon
      <4>3. CASE own = FALSE
        <5>1. TRUE \notin params
          BY <4>1, <4>3
        <5>2. ~enabled' /\ enabled' \in BOOLEAN
          BY <2>3, <3>1, <5>1
        <5>3. enabled' = FALSE
          BY <5>2
        <5> QED BY <4>1, <4>3, <5>3
      <4> QED BY <1>0, <4>2, <4>3
    <3>3. cleaned' # "yes" /\ UNCHANGED <<own, params, disturbed>>
      BY <2>1, <2>3
    <3>4. Loader'
      BY <3>2, <3>3 DEF Loader
    <3> QED
      BY <1>0, <2>1, <3>1, <3>3, <3>4 DEF Cleaning, Loading
  <2> QED BY <2>1, <2>2, <2>3
<1>5. CASE ClearParameters
  <2>1. /\ UNCHANGED <<own, enabled, phase>> /\ phase = "game" /\ cleaned = "state"
        /\ cleaned' = "yes"
        /\ \/ params' = {} /\ UNCHANGED disturbed
           \/ disturbed' = TRUE
    BY <1>5 DEF ClearParameters
  <2>2. ~disturbed => enabled = own
    BY <1>0, <2>1 DEF Loader
  <2>3. Loader'
    BY <2>1, <2>2 DEF Loader
  <2> QED
    BY <1>0, <2>1, <2>3 DEF Cleaning, Loading
<1> QED
  BY <1>1, <1>2, <1>3, <1>4, <1>5

(* What a task sees depends on its position alone.                         *)
LEMMA SameView ==
  ASSUME NEW k \in Task, UNCHANGED <<phase, hits>>, at'[k] = at[k], hit'[k] = hit[k]
  PROVE  /\ Busy(k)' = Busy(k) /\ HasHit(k)' = HasHit(k)
         /\ Kind(k)' = Kind(k) /\ Addr(k)' = Addr(k) /\ EntryOf(k)' = EntryOf(k)
BY DEF Busy, HasHit, Kind, Addr, EntryOf, LastOf, Count

LEMMA Unmoved ==
  ASSUME PlugInv,
         UNCHANGED <<phase, hits, at, hit, doing, lock, hook, addr, ids, code, patchedIds,
                     todo, logger>>
  PROVE  PlugInv'
<1>1. SearchTypes' /\ Phases'
  BY DEF PlugInv, SearchTypes, Phases
<1>2. HookTypes'
  BY DEF PlugInv, HookTypes
<1>3. Copying'
  BY SameView DEF PlugInv, Copying, Copies
<1>4. Placed' /\ Jumps'
  BY DEF PlugInv, Placed, Jumps
<1>5. Collected' /\ Fixing'
  BY DEF PlugInv, Collected, Fixing, Places, Count
<1>6. Going'
  BY DEF PlugInv, Going
<1> QED
  BY <1>1, <1>2, <1>3, <1>4, <1>5, <1>6 DEF PlugInv

(* Steps that touch neither the search nor the hooks.                      *)
LEMMA Aside ==
  ASSUME PlugInv, PressY \/ LoaderToggled \/ RestoreState \/ ClearParameters
  PROVE  PlugInv'
<1>1. UNCHANGED <<phase, search, hooks, code, patchedIds, todo, logger>>
  BY DEF PressY, LoaderToggled, RestoreState, ClearParameters
<1> QED
  BY <1>1, Unmoved DEF search, hooks

LEMMA Fresh ==
  ASSUME hook' = Each(Hook, NoHook), addr' = Each(Hook,
  Null), ids' = {},
         code' = Each(Func \cup {Null}, "game"), patchedIds' = {}
  PROVE  HookTypes' /\ Placed' /\ Jumps' /\ \A h \in Hook : ~hook'[h].on /\ addr'[h] = Null
<1>1. HookTypes'
  BY DEF HookTypes, Each, NoHook
<1>2. \A h \in Hook : hook'[h].on = FALSE /\ addr'[h] = Null
  BY DEF Each, NoHook
<1>3. Placed' /\ Jumps'
  BY <1>2 DEF Placed, Jumps, Each
<1> QED
  BY <1>1, <1>2, <1>3

LEMMA Starting ==
  ASSUME PlugInv, StartGame
  PROVE  PlugInv'
<1>1. SearchTypes'
  BY DEF StartGame, SearchTypes, Each
<1>2. HookTypes' /\ Placed' /\ Jumps' /\ \A h \in Hook : ~hook'[h].on /\ addr'[h] = Null
  BY Fresh DEF StartGame
<1>3. Copying'
  BY DEF StartGame, Copying, Each
<1>4. Collected'
  <2>1. at'[2] = 1 /\ ids' = {}
    BY TasksAre DEF StartGame, Each
  <2> QED
    BY <2>1 DEF Collected
<1>5. Fixing'
  BY <1>2, TasksAre DEF StartGame, Fixing, Places
<1>6. Going' /\ Phases'
  BY DEF PlugInv, StartGame, Going, Phases
<1> QED
  BY <1>1, <1>2, <1>3, <1>4, <1>5, <1>6 DEF PlugInv

LEMMA Killing ==
  ASSUME PlugInv, Killed
  PROVE  PlugInv'
<1>1. SearchTypes'
  BY DEF PlugInv, Killed, SearchTypes, search
<1>2. HookTypes' /\ Placed' /\ Jumps' /\ \A h \in Hook : ~hook'[h].on /\ addr'[h] = Null
  BY Fresh DEF Killed
<1>3. Copying' /\ Collected' /\ Going' /\ Phases'
  BY DEF Killed, Copying, Collected, Going, Phases
<1>4. Fixing'
  BY <1>2, TasksAre DEF Killed, Fixing, Places
<1> QED
  BY <1>1, <1>2, <1>3, <1>4 DEF PlugInv

(* A task moves on: the other one sees what it saw.                        *)
LEMMA TaskMoves ==
  ASSUME PlugInv, NEW k \in Task, UNCHANGED <<phase,
                                                   hits>>,
                                                   NextHit(k) \/ NextEntry(k)
  PROVE  /\ at' \in [Task -> Nat \ {0}] /\ hit' \in [Task -> Nat \ {0}]
         /\ at'[k] = at[k] \/ at'[k] = at[k] + 1
         /\ \A j \in Task : j # k => at'[j] = at[j] /\ hit'[j] = hit[j]
<1>1. at \in [Task -> Nat \ {0}] /\ hit \in [Task -> Nat \ {0}]
  BY DEF PlugInv, SearchTypes
<1>2. CASE NextHit(k)
  BY <1>1, <1>2 DEF NextHit
<1>3. CASE NextEntry(k)
  BY <1>1, <1>3 DEF NextEntry
<1> QED
  BY <1>2, <1>3

(* An entry that is left without a hit that was to be kept.                *)
LEMMA Leaving ==
  ASSUME PlugInv, NEW k \in Task, Busy(k), NextEntry(k), UNCHANGED <<phase, hits>>,
         ids' = ids,
         HasHit(k) => Kind(k) # "ids"
  PROVE  Collected'
<1> SUFFICES ASSUME phase = "search", Count = 13
             PROVE  Collected'
  BY DEF Collected, Count
<1>1. at \in [Task -> Nat \ {0}] /\ hit \in [Task -> Nat \ {0}] /\ Count' = 13
  BY DEF PlugInv, SearchTypes, Count
<1>2. CASE k = 1
  <2>1. at'[2] = at[2] /\ hit'[2] = hit[2]
    BY <1>1, <1>2, TasksAre DEF NextEntry
  <2> QED
    BY <2>1 DEF PlugInv, Collected
<1>3. CASE k = 2
  <2>1. at'[2] = at[2] + 1 /\ hit'[2] = 1
    BY <1>1, <1>3, TasksAre DEF NextEntry
  <2>2. CASE at[2] # 7
    <3>1. IF hits[13] = <<>> THEN ids = {} ELSE at[2] >= 8 => ids = Id
      BY DEF PlugInv, Collected
    <3>2. at'[2] >= 8 => at[2] >= 8
      <4>1. at[2] \in Nat
        BY <1>1, TasksAre
      <4> QED
        BY <2>1, <2>2, <4>1
    <3>3. IF hits[13] = <<>> THEN ids' = {} ELSE at'[2] >= 8 => ids' = Id
      BY <3>1, <3>2
    <3> QED
      BY <2>1, <3>3 DEF Collected
  <2>3. CASE at[2] = 7
    <3>1. EntryOf(2) = 13
      BY <2>3 DEF EntryOf
    <3>2. ~HasHit(2)
      <4>1. Kind(2) = "ids"
        <5>1. Count > Len(Common)
          BY CommonIs
        <5> QED
          BY <3>1, <5>1, EntriesAre DEF Kind, Entries
      <4> QED
        BY <1>3, <4>1
    <3>3. hits[13] \in {<<>>, <<"id1", "id2">>}
      BY GamesAre DEF PlugInv, SearchTypes, Count
    <3>e. CASE hits[13] = <<>>
      BY <3>e DEF PlugInv, Collected
    <3>f. CASE hits[13] # <<>>
      <4>0. hits[13] = <<"id1", "id2">> /\ Len(hits[13]) = 2
        BY <3>3, <3>f
      <4>1. ~(hit[2] <= Len(hits[13]))
        BY <1>3, <3>1, <3>2 DEF HasHit
      <4>2. hit[2] \in Nat
        BY <1>1, TasksAre
      <4>3. hit[2] >= 3
        BY <4>0, <4>1, <4>2
      <4>4. ids = Id
        BY <2>3, <3>f, <4>3 DEF PlugInv, Collected
      <4> QED
        BY <2>1, <3>f, <4>4 DEF Collected
    <3> QED
      BY <3>e, <3>f
  <2> QED
    BY <2>2, <2>3
<1> QED
  BY <1>2, <1>3, TasksAre

(* A task in search that moves leaves the others' copying as it is.        *)
LEMMA OthersCopy ==
  ASSUME PlugInv, NEW k \in Task, phase = "search", UNCHANGED <<phase, hits>>, NextHit(k) \/ NextEntry(k),
         doing'[k] # "copy", \A j \in Task : j # k => doing'[j] = doing[j],
         \A j \in Task : j # k /\ doing[j] = "copy" =>
           /\ lock'[Kind(j)] = lock[Kind(j)] /\ addr'[Kind(j)] = addr[Kind(j)]
           /\ hook'[Kind(j)].func = hook[Kind(j)].func
  PROVE  Copying'
<1> SUFFICES ASSUME NEW j \in Task, doing'[j] = "copy"
             PROVE  Copies(j)'
  BY DEF Copying
<1>1. j # k /\ doing[j] = "copy" /\ Copies(j)
  BY DEF PlugInv, Copying
<1>2. at'[j] = at[j] /\ hit'[j] = hit[j]
  BY <1>1, TaskMoves
<1>3. HasHit(j)' = HasHit(j) /\ Kind(j)' = Kind(j) /\ Addr(j)' = Addr(j)
  BY <1>2, SameView
<1> QED
  BY <1>1, <1>3 DEF Copies

LEMMA FindingNothing ==
  ASSUME PlugInv, NEW k \in Task, NotFound(k)
  PROVE  PlugInv'
<1>1. /\ Busy(k) /\ ~HasHit(k) /\ NextEntry(k) /\ phase = "search"
      /\ UNCHANGED <<phase, hits, doing, lock, hook, addr, ids, code, patchedIds, todo,
                     logger>>
  BY DEF NotFound, hooks, Busy
<1>2. at' \in [Task -> Nat \ {0}] /\ hit' \in [Task -> Nat \ {0}]
  BY <1>1, TaskMoves
<1>3. Copying'
  <2>1. doing[k] # "copy"
    BY <1>1 DEF PlugInv, Copying, Copies
  <2> QED
    BY <1>1, <2>1, OthersCopy
<1>4. Collected'
  <2>1. ids \subseteq Id
    BY DEF PlugInv, HookTypes
  <2> QED
    BY <1>1, <2>1, Leaving
<1>5. SearchTypes' /\ Phases'
  BY <1>1, <1>2 DEF PlugInv, SearchTypes, Phases
<1>6. HookTypes' /\ Placed' /\ Jumps'
  BY <1>1 DEF PlugInv, HookTypes, Placed, Jumps
<1>7. Fixing' /\ Going'
  BY <1>1 DEF PlugInv, Fixing, Places, Going, Count
<1> QED
  BY <1>3, <1>4, <1>5, <1>6, <1>7 DEF PlugInv

(* The first half of an installation, or an entry that is already served.  *)
LEMMA InstallBegins ==
  ASSUME PlugInv, NEW k \in Task, Install(k)
  PROVE  PlugInv'
<1> DEFINE h == Kind(k)
<1>1. /\ HasHit(k) /\ h \in Hook /\ doing[k] = "search" /\ lock[h] = Null
      /\ IF addr[h] # Null \/ Addr(k) = Null
         THEN Returned(k, addr[h] # Null) /\ UNCHANGED <<doing, lock, hook>>
         ELSE /\ doing' = [doing EXCEPT ![k] = "copy"]
              /\ lock' = [lock EXCEPT ![h] = k]
              /\ hook' = [hook EXCEPT ![h].func = Addr(k), ![h].on = FALSE]
              /\ UNCHANGED <<at, hit>>
      /\ UNCHANGED <<phase, hits, addr, ids, code, patchedIds, todo, logger>>
  BY DEF Install
<1>2. phase = "search" /\ Busy(k)
  BY <1>1 DEF HasHit, Busy
<1> HIDE DEF h
<1>3. CASE addr[h] # Null \/ Addr(k) = Null
  <2>1. UNCHANGED <<doing, lock,
                    hook>> /\ (NextHit(k) \/ (NextEntry(k) /\ addr[h] # Null))
    BY <1>1, <1>3 DEF Returned
  <2>2. /\ at' \in [Task -> Nat \ {0}] /\ hit' \in [Task -> Nat \ {0}]
        /\ \A j \in Task : j # k => at'[j] = at[j] /\ hit'[j] = hit[j]
    BY <1>1, <2>1, TaskMoves
  <2>3. Copying'
    BY <1>1, <1>2, <2>1, OthersCopy
  <2>4. Collected'
    <3>1. h # "ids"
      BY <1>1, TasksAre
    <3>2. CASE NextEntry(k)
      BY <1>1, <1>2, <3>1, <3>2, Leaving DEF h, PlugInv, HookTypes
    <3>3. CASE NextHit(k)
      <4>1. CASE at[2] = 7 /\ Count = 13 /\ k = 2
        <5>1. Kind(2) = "ids"
          <6>1. EntryOf(2) = 13
            <7>1. 13 \div 2 = 6
              OBVIOUS
            <7> QED
              BY <4>1, <7>1 DEF EntryOf
          <6>2. Count > Len(Common)
            BY <4>1, CommonIs
          <6> QED
            BY <6>1, <6>2, EntriesAre DEF Kind, Entries
        <5> QED
          BY <3>1, <4>1, <5>1 DEF h
      <4>2. CASE k = 2 /\ Count = 13 /\ at[2] # 7
        BY <1>1, <3>3, <4>2 DEF NextHit, PlugInv, Collected, Count
      <4>3. CASE k = 1
        BY <1>1, <2>2, <4>3, TasksAre DEF PlugInv, Collected, Count
      <4>4. CASE Count # 13
        BY <1>1, <4>4 DEF Collected, Count
      <4> QED
        BY <4>1, <4>2, <4>3, <4>4, TasksAre
    <3> QED
      BY <2>1, <3>2, <3>3
  <2>5. SearchTypes' /\ Phases'
    BY <1>1, <2>1, <2>2 DEF PlugInv, SearchTypes, Phases
  <2>6. HookTypes' /\ Placed' /\ Jumps'
    BY <1>1, <2>1 DEF PlugInv, HookTypes, Placed, Jumps
  <2>7. Fixing' /\ Going'
    BY <1>1, <2>1 DEF PlugInv, Fixing, Places, Going, Count
  <2> QED
    BY <2>3, <2>4, <2>5, <2>6, <2>7 DEF PlugInv
<1>4. CASE addr[h] = Null /\ Addr(k) # Null
  <2>1. /\ doing' = [doing EXCEPT ![k] = "copy"] /\ lock' = [lock EXCEPT ![h] = k]
        /\ hook' = [hook EXCEPT ![h].func = Addr(k), ![h].on = FALSE]
        /\ UNCHANGED <<at, hit>>
    BY <1>1, <1>4
  <2>2. /\ doing \in [Task -> {"search", "copy"}] /\ lock \in [Hook -> Task \cup {Null}]
        /\ hook \in [Hook -> [func : Func \cup {Null},
                                   call : Func \cup {Null}, on : BOOLEAN]]
    BY DEF PlugInv, SearchTypes, HookTypes
  <2>3. Addr(k) \in Func
    BY <1>1, <1>4, Finds, TasksAre DEF h
  <2>4. /\ hook' \in [Hook -> [func : Func \cup {Null},
                                    call : Func \cup {Null}, on : BOOLEAN]]
        /\ hook'[h].func = Addr(k) /\ hook'[h].on = FALSE
        /\ \A g \in Hook : g # h => hook'[g] = hook[g]
    BY <1>1, <2>1, <2>2, <2>3
  <2>5. ~hook[h].on
    BY <1>1, <1>2 DEF PlugInv, Fixing, Places
  <2>6. SearchTypes' /\ Phases'
    BY <1>1, <2>1, <2>2 DEF PlugInv, SearchTypes, Phases
  <2>7. HookTypes'
    BY <1>1, <2>4 DEF PlugInv, HookTypes
  <2>8. Placed'
    BY <1>1, <1>4, <2>4 DEF PlugInv, Placed
  <2>9. Jumps'
    BY <1>1, <2>4, <2>5 DEF PlugInv, Jumps
  <2>10. Copying'
    <3> SUFFICES ASSUME NEW j \in Task, doing'[j] = "copy"
                 PROVE  Copies(j)'
      BY DEF Copying
    <3>1. HasHit(j)' = HasHit(j) /\ Kind(j)' = Kind(j) /\ Addr(j)' = Addr(j)
      BY <1>1, <2>1, SameView
    <3>2. CASE j = k
      BY <1>1, <1>4, <2>1, <2>2, <2>4, <3>1, <3>2 DEF Copies, h
    <3>3. CASE j # k
      <4>1. doing[j] = "copy" /\ Copies(j)
        BY <1>2, <2>1, <2>2, <3>3 DEF PlugInv, Copying
      <4>2. Kind(j) # h /\ Kind(j) \in Hook
        BY <1>1, <4>1, TasksAre DEF Copies, Null
      <4> QED
        BY <1>1, <2>1, <2>2, <2>4, <3>1, <4>1, <4>2 DEF Copies
    <3> QED
      BY <3>2, <3>3
  <2>11. Collected' /\ Going'
    BY <1>1, <1>2, <2>1 DEF PlugInv, Collected, Going, Count
  <2>12. Fixing'
    BY <1>1, <1>2, <2>4 DEF PlugInv, Fixing, Places, Count
  <2> QED
    BY <2>6, <2>7, <2>8, <2>9, <2>10, <2>11, <2>12 DEF PlugInv
<1> QED
  BY <1>3, <1>4

(* The second half: callCode, the address and the mutex.                   *)
LEMMA InstallEnds ==
  ASSUME PlugInv, NEW k \in Task, Installed(k)
  PROVE  PlugInv'
<1> DEFINE h == Kind(k)
           a == Addr(k)
<1>1. /\ phase = "search" /\ doing[k] = "copy" /\ NextEntry(k)
      /\ hook' = [hook EXCEPT ![h].call = a]
      /\ addr' = [addr EXCEPT ![h] = a]
      /\ lock' = [lock EXCEPT ![h] = Null]
      /\ doing' = [doing EXCEPT ![k] = "search"]
      /\ UNCHANGED <<phase, hits, ids, code, patchedIds, todo, logger>>
  BY DEF Installed, Returned
<1>2. /\ HasHit(k) /\ Busy(k) /\ h \in Hook /\ lock[h] = k /\ addr[h] = Null
      /\ a # Null /\ hook[h].func = a
  BY <1>1 DEF PlugInv, Copying, Copies, HasHit
<1>3. a \in Place(h) /\ a \in Func /\ (h = "packet" => Count = 13)
  BY <1>2, Finds, TasksAre
<1> HIDE DEF h, a
<1>4. /\ doing \in [Task -> {"search", "copy"}] /\ lock \in [Hook -> Task \cup {Null}]
      /\ hook \in [Hook -> [func : Func \cup {Null},
                                 call : Func \cup {Null}, on : BOOLEAN]]
      /\ addr \in [Hook -> Func \cup {Null}]
  BY DEF PlugInv, SearchTypes, HookTypes
<1>5. /\ hook' \in [Hook -> [func : Func \cup {Null},
                                  call : Func \cup {Null}, on : BOOLEAN]]
      /\ hook'[h].func = a /\ hook'[h].call = a /\ hook'[h].on = hook[h].on
      /\ \A g \in Hook : g # h => hook'[g] = hook[g]
  BY <1>1, <1>2, <1>3, <1>4
<1>6. /\ addr' \in [Hook -> Func \cup {Null}] /\ addr'[h] = a
      /\ \A g \in Hook : g # h => addr'[g] = addr[g]
  BY <1>1, <1>2, <1>3, <1>4
<1>7. ~hook[h].on
  BY <1>1, <1>2 DEF PlugInv, Fixing, Places
<1>8. SearchTypes' /\ Phases'
  <2>1. at' \in [Task -> Nat \ {0}] /\ hit' \in [Task -> Nat \ {0}]
    BY <1>1, TaskMoves
  <2>2. doing' \in [Task -> {"search", "copy"}] /\ lock' \in [Hook -> Task \cup {Null}]
    BY <1>1, <1>4
  <2> QED
    BY <1>1, <2>1, <2>2 DEF PlugInv, SearchTypes, Phases
<1>9. HookTypes'
  BY <1>1, <1>5, <1>6 DEF PlugInv, HookTypes
<1>10. Placed'
  BY <1>3, <1>5, <1>6 DEF PlugInv, Placed
<1>11. Jumps'
  <2>1. ASSUME NEW g \in Hook, hook'[g].on PROVE addr'[g] # Null /\ code'[addr'[g]] = g
    <3>1. g # h /\ hook[g].on
      BY <1>5, <1>7, <2>1
    <3> QED
      BY <1>1, <1>6, <2>1, <3>1 DEF PlugInv, Jumps
  <2>2. ASSUME NEW f \in Func \cup {Null}, code'[f] # "game"
        PROVE code'[f] \in Hook /\ hook'[code'[f]].on /\ addr'[code'[f]] = f
    <3>1. code[f] \in Hook /\ hook[code[f]].on /\ addr[code[f]] = f /\ code'[f] = code[f]
      BY <1>1, <2>2 DEF PlugInv, Jumps
    <3>2. code[f] # h
      BY <1>7, <3>1
    <3> QED
      BY <1>5, <1>6, <3>1, <3>2
  <2> QED
    BY <2>1, <2>2 DEF Jumps
<1>12. Copying'
  <2> SUFFICES ASSUME NEW j \in Task, doing'[j] = "copy"
               PROVE  Copies(j)'
    BY DEF Copying
  <2>1. j # k /\ doing[j] = "copy" /\ Copies(j)
    BY <1>1, <1>4 DEF PlugInv, Copying
  <2>2. at'[j] = at[j] /\ hit'[j] = hit[j]
    BY <1>1, <2>1, TaskMoves
  <2>3. HasHit(j)' = HasHit(j) /\ Kind(j)' = Kind(j) /\ Addr(j)' = Addr(j)
    BY <1>1, <2>2, SameView
  <2>4. Kind(j) # h /\ Kind(j) \in Hook
    BY <1>2, <2>1 DEF Copies
  <2> QED
    BY <1>1, <1>4, <1>5, <1>6, <2>1, <2>3, <2>4 DEF Copies
<1>13. Collected'
  <2>1. Kind(k) # "ids" /\ ids \subseteq Id
    BY <1>2, TasksAre DEF h, PlugInv, HookTypes
  <2> QED
    BY <1>1, <1>2, <2>1, Leaving
<1>14. Fixing'
  <2>1. \A g \in Hook : ~hook'[g].on
    BY <1>1, <1>5, <1>7 DEF PlugInv, Fixing, Places
  <2>2. addr'["packet"] # Null => Count' = 13
    <3>1. CASE h = "packet"
      BY <1>1, <1>3, <3>1 DEF Count
    <3>2. CASE h # "packet"
      BY <1>1, <1>6, <3>2, TasksAre DEF PlugInv, Fixing, Places, Count
    <3> QED
      BY <3>1, <3>2
  <2> QED
    BY <1>1, <2>1, <2>2 DEF PlugInv, Fixing, Places
<1>15. Going'
  BY <1>1 DEF PlugInv, Going
<1> QED
  BY <1>8, <1>9, <1>10, <1>11, <1>12, <1>13, <1>14, <1>15 DEF PlugInv

LEMMA Collecting ==
  ASSUME PlugInv, NEW k \in Task, CollectId(k)
  PROVE  PlugInv'
<1>1. /\ HasHit(k) /\ Kind(k) = "ids" /\ ids' = ids \cup {Addr(k)} /\ NextHit(k)
      /\ phase = "search"
      /\ UNCHANGED <<phase, hits, doing, lock, hook, addr, code, patchedIds, todo, logger>>
  BY DEF CollectId, Returned, HasHit, Busy
<1>2. /\ k = 2 /\ Count = 13 /\ at[2] = 7 /\ hit[2] \in {1, 2}
      /\ Addr(k) = IF hit[2] = 1 THEN "id1" ELSE "id2"
  BY <1>1, Finds
<1>3. at' \in [Task -> Nat \ {0}] /\ hit' \in [Task -> Nat \ {0}]
  BY <1>1, TaskMoves
<1>4. at'[2] = at[2] /\ hit'[2] = hit[2] + 1
  BY <1>1, <1>2, TasksAre DEF NextHit, PlugInv, SearchTypes
<1>5. ids' \subseteq Id /\ ids \subseteq ids'
  BY <1>1, <1>2 DEF PlugInv, HookTypes, Id
<1>6. SearchTypes' /\ Phases'
  BY <1>1, <1>3 DEF PlugInv, SearchTypes, Phases
<1>7. HookTypes' /\ Placed' /\ Jumps'
  BY <1>1, <1>5 DEF PlugInv, HookTypes, Placed, Jumps
<1>8. Copying'
  <2>1. doing[k] # "copy"
    <3>1. "ids" \notin Hook
      BY TasksAre
    <3> QED
      BY <1>1, <3>1 DEF PlugInv, Copying, Copies
  <2> QED
    BY <1>1, <2>1, OthersCopy
<1>9. Collected'
  <2>0. hits'[13] # <<>>
    BY <1>1, Finds
  <2>1. CASE hit[2] = 1
    BY <1>1, <1>2, <1>4, <2>0, <2>1 DEF Collected
  <2>2. CASE hit[2] = 2
    <3>1. "id1" \in ids /\ Addr(k) = "id2"
      BY <1>1, <1>2, <2>0, <2>2 DEF PlugInv, Collected
    <3>2. ids' = Id
      BY <1>1, <1>5, <3>1 DEF Id
    <3> QED
      BY <2>0, <3>2 DEF Collected, Id
  <2> QED
    BY <1>2, <2>1, <2>2
<1>10. Fixing' /\ Going'
  BY <1>1, <1>5 DEF PlugInv, Fixing, Places, Going, Count
<1> QED
  BY <1>6, <1>7, <1>8, <1>9, <1>10 DEF PlugInv

-----------------------------------------------------------------------------
(* Hooks are switched on and off.                                          *)
LEMMA Enabling ==
  ASSUME PlugInv, NEW h \in Hook, addr[h] # Null, rtEnableHook(h),
  UNCHANGED addr
  PROVE  /\ Placed' /\ Jumps' /\ hook'[h].on
         /\ hook' \in [Hook -> [func : Func \cup {Null},
                                     call : Func \cup {Null}, on : BOOLEAN]]
         /\ code' \in [Func \cup {Null} -> Hook \cup {"game"}]
         /\ \A g \in Hook : g # h => hook'[g] = hook[g]
<1>1. CASE hook[h].on
  BY <1>1 DEF rtEnableHook, PlugInv, HookTypes, Placed, Jumps
<1>2. CASE ~hook[h].on
  <2>1. /\ code' = [code EXCEPT ![hook[h].func] = h]
        /\ hook' = [hook EXCEPT ![h].on = TRUE]
    BY <1>2 DEF rtEnableHook
  <2>2. /\ hook \in [Hook -> [func : Func \cup {Null},
                                   call : Func \cup {Null}, on : BOOLEAN]]
        /\ addr \in [Hook -> Func \cup {Null}]
        /\ code \in [Func \cup {Null} -> Hook \cup {"game"}]
    BY DEF PlugInv, HookTypes
  <2>3. addr[h] \in Place(h) /\ addr[h] \in Func /\ hook[h].func = addr[h]
    BY TasksAre DEF PlugInv, Placed
  <2>4. /\ hook' \in [Hook -> [func : Func \cup {Null},
                                    call : Func \cup {Null}, on : BOOLEAN]]
        /\ hook'[h].func = hook[h].func /\ hook'[h].call = hook[h].call /\ hook'[h].on = TRUE
        /\ \A g \in Hook : g # h => hook'[g] = hook[g]
    BY <2>1, <2>2
  <2>5. /\ code' \in [Func \cup {Null} -> Hook \cup {"game"}] /\ code'[addr[h]] = h
        /\ \A f \in Func \cup {Null} : f # addr[h] => code'[f] = code[f]
    BY <2>1, <2>2, <2>3
  <2>6. Placed'
    BY <2>4 DEF PlugInv, Placed
  <2>7. \A g \in Hook : g # h /\ addr[g] # Null => addr[g] # addr[h]
    BY <2>3, TasksAre DEF PlugInv, Placed
  <2>8. Jumps'
    <3>1. ASSUME NEW g \in Hook, hook'[g].on PROVE addr'[g] # Null /\ code'[addr'[g]] = g
      <4>1. CASE g = h
        BY <2>5, <4>1
      <4>2. CASE g # h
        <5>1. addr[g] # Null /\ code[addr[g]] = g
          BY <2>4, <3>1, <4>2 DEF PlugInv, Jumps
        <5>2. addr[g] # addr[h] /\ addr[g] \in Func \cup {Null}
          BY <2>2, <2>7, <4>2, <5>1
        <5> QED
          BY <2>5, <5>1, <5>2
      <4> QED
        BY <4>1, <4>2
    <3>2. ASSUME NEW f \in Func \cup {Null}, code'[f] # "game"
          PROVE code'[f] \in Hook /\ hook'[code'[f]].on /\ addr'[code'[f]] = f
      <4>1. CASE f = addr[h]
        BY <2>4, <2>5, <4>1
      <4>2. CASE f # addr[h]
        <5>1. code'[f] = code[f]
          BY <2>5, <4>2
        <5>2. code[f] \in Hook /\ hook[code[f]].on /\ addr[code[f]] = f
          BY <3>2, <5>1 DEF PlugInv, Jumps
        <5>3. hook'[code[f]] = hook[code[f]]
          BY <1>2, <2>4, <5>2
        <5> QED
          BY <5>1, <5>2, <5>3
      <4> QED
        BY <4>1, <4>2
    <3> QED
      BY <3>1, <3>2 DEF Jumps
  <2> QED
    BY <2>4, <2>5, <2>6, <2>8
<1> QED
  BY <1>1, <1>2

LEMMA Disabling ==
  ASSUME PlugInv, NEW h \in Hook, rtDisableHook(h), UNCHANGED addr
  PROVE  /\ Placed' /\ Jumps' /\ ~hook'[h].on
         /\ hook' \in [Hook -> [func : Func \cup {Null},
                                     call : Func \cup {Null}, on : BOOLEAN]]
         /\ code' \in [Func \cup {Null} -> Hook \cup {"game"}]
         /\ \A g \in Hook : g # h => hook'[g] = hook[g]
<1>1. CASE ~hook[h].on
  BY <1>1 DEF rtDisableHook, PlugInv, HookTypes, Placed, Jumps
<1>2. CASE hook[h].on
  <2>1. /\ code' = [code EXCEPT ![hook[h].func] = "game"]
        /\ hook' = [hook EXCEPT ![h].on = FALSE]
    BY <1>2 DEF rtDisableHook
  <2>2. /\ hook \in [Hook -> [func : Func \cup {Null},
                                   call : Func \cup {Null}, on : BOOLEAN]]
        /\ addr \in [Hook -> Func \cup {Null}]
        /\ code \in [Func \cup {Null} -> Hook \cup {"game"}]
    BY DEF PlugInv, HookTypes
  <2>3. addr[h] # Null /\ code[addr[h]] = h
    BY <1>2 DEF PlugInv, Jumps
  <2>4. addr[h] \in Place(h) /\ addr[h] \in Func /\ hook[h].func = addr[h]
    BY <2>3, TasksAre DEF PlugInv, Placed
  <2>5. /\ hook' \in [Hook -> [func : Func \cup {Null},
                                    call : Func \cup {Null}, on : BOOLEAN]]
        /\ hook'[h].func = hook[h].func /\ hook'[h].call = hook[h].call /\ hook'[h].on = FALSE
        /\ \A g \in Hook : g # h => hook'[g] = hook[g]
    BY <2>1, <2>2
  <2>6. /\ code' \in [Func \cup {Null} -> Hook \cup {"game"}] /\ code'[addr[h]] = "game"
        /\ \A f \in Func \cup {Null} : f # addr[h] => code'[f] = code[f]
    BY <2>1, <2>2, <2>4
  <2>7. Placed'
    BY <2>5 DEF PlugInv, Placed
  <2>8. Jumps'
    <3>1. ASSUME NEW g \in Hook, hook'[g].on PROVE addr'[g] # Null /\ code'[addr'[g]] = g
      <4>1. g # h
        BY <2>5, <3>1
      <4>2. addr[g] # Null /\ code[addr[g]] = g
        BY <2>5, <3>1, <4>1 DEF PlugInv, Jumps
      <4>3. addr[g] # addr[h] /\ addr[g] \in Func \cup {Null}
        BY <2>2, <2>3, <4>1, <4>2
      <4> QED
        BY <2>6, <4>2, <4>3
    <3>2. ASSUME NEW f \in Func \cup {Null}, code'[f] # "game"
          PROVE code'[f] \in Hook /\ hook'[code'[f]].on /\ addr'[code'[f]] = f
      <4>1. f # addr[h] /\ code'[f] = code[f]
        BY <2>6, <3>2
      <4>2. code[f] \in Hook /\ hook[code[f]].on /\ addr[code[f]] = f
        BY <3>2, <4>1 DEF PlugInv, Jumps
      <4>3. code[f] # h
        BY <4>1, <4>2
      <4> QED
        BY <2>5, <4>1, <4>2, <4>3
    <3> QED
      BY <3>1, <3>2 DEF Jumps
  <2> QED
    BY <2>5, <2>6, <2>7, <2>8
<1> QED
  BY <1>1, <1>2

(* The game's own code, but where a hook that is on is.                    *)
LEMMA EnablingPatches ==
  ASSUME PlugInv, enablePatches
  PROVE  PlugInv'
<1>1. /\ phase = "search" /\ phase' = "game" /\ (\A k \in Task : ~Busy(k))
      /\ UNCHANGED <<hits, at, hit, doing, lock, addr, ids, todo, logger>>
      /\ IF addr["packet"] # Null
         THEN rtEnableHook("packet") /\ patchedIds' = ids
         ELSE UNCHANGED <<hook, code, patchedIds>>
  BY DEF enablePatches, search
<1>2. SearchTypes' /\ Phases' /\ Copying' /\ Collected'
  BY <1>1 DEF PlugInv, SearchTypes, Phases, Copying, Collected
<1>3. "packet" \in Hook /\ "send" \in Hook /\ "recv" \in Hook
  BY TasksAre
<1>4. todo' = <<>>
  BY <1>1 DEF PlugInv, Going
<1>5. (\A h \in Hook : ~hook[h].on) /\ patchedIds = {}
  BY <1>1 DEF PlugInv, Fixing, Places
<1>6. CASE addr["packet"] # Null
  <2>1. /\ Placed' /\ Jumps' /\ hook'["packet"].on
        /\ hook' \in [Hook -> [func : Func \cup {Null},
                                    call : Func \cup {Null}, on : BOOLEAN]]
        /\ code' \in [Func \cup {Null} -> Hook \cup {"game"}]
        /\ \A g \in Hook : g # "packet" => hook'[g] = hook[g]
    BY <1>1, <1>3, <1>6, Enabling
  <2>2. ids = Places
    <3>1. Count = 13 /\ hits \in Games
      BY <1>1, <1>6 DEF PlugInv, Fixing, Places, SearchTypes
    <3>2. at[2] \in Nat
      BY TasksAre DEF PlugInv, SearchTypes
    <3>3. ~(at[2] + 6 <= 13)
      <4>1. 13 \div 2 = 6
        OBVIOUS
      <4>2. ~Busy(2)
        BY <1>1, TasksAre
      <4> QED
        BY <1>1, <3>1, <4>1, <4>2 DEF Busy, EntryOf, LastOf
    <3>4. at[2] >= 8
      BY <3>2, <3>3
    <3>5. ids = IF hits[13] = <<>> THEN {} ELSE Id
      BY <1>1, <3>1, <3>4 DEF PlugInv, Collected
    <3> QED
      BY <3>1, <3>5, PlacesAre DEF Count
  <2>3. HookTypes'
    BY <1>1, <1>6, <2>1 DEF PlugInv, HookTypes
  <2>4. Fixing'
    BY <1>1, <1>6, <2>1, <2>2 DEF Fixing, Places
  <2>5. Going'
    BY <1>1, <1>3, <1>4, <1>5, <2>1 DEF Going
  <2> QED
    BY <1>2, <2>1, <2>3, <2>4, <2>5 DEF PlugInv
<1>7. CASE addr["packet"] = Null
  <2>1. UNCHANGED <<hook, code, patchedIds>>
    BY <1>1, <1>7
  <2>2. HookTypes' /\ Placed' /\ Jumps'
    BY <1>1, <2>1 DEF PlugInv, HookTypes, Placed, Jumps
  <2>3. Fixing' /\ Going'
    BY <1>1, <1>3, <1>4, <1>5, <2>1 DEF Fixing, Places, Going
  <2> QED
    BY <1>2, <2>2, <2>3 DEF PlugInv
<1> QED
  BY <1>6, <1>7

LEMMA MenuOpens ==
  ASSUME PlugInv, Toggle \/ End \/ Resume
  PROVE  PlugInv'
<1>1. UNCHANGED <<hits, at, hit, doing, lock, hook, addr, ids, code, patchedIds, logger>>
  BY DEF Toggle, End, Resume, search, hooks
<1>2. HookTypes' /\ Placed' /\ Jumps'
  BY <1>1 DEF PlugInv, HookTypes, Placed, Jumps
<1>3. CASE Toggle
  <2>1. /\ phase = "game" /\ phase' = "menu" /\ addr["send"] # Null /\ addr["recv"] # Null
        /\ \/ todo' = <<"enable send", "enable recv", "new logger">>
           \/ /\ hook["send"].on
              /\ todo' = <<"disable send", "disable recv">>
    BY <1>3 DEF Toggle, getHokakuCTRStatus
  <2>2. SearchTypes' /\ Phases' /\ Copying' /\ Collected'
    BY <1>1, <2>1 DEF PlugInv, SearchTypes, Phases, Copying, Collected
  <2>3. Fixing'
    BY <1>1, <2>1 DEF PlugInv, Fixing, Places
  <2>4. Going'
    BY <1>1, <2>1 DEF PlugInv, Going
  <2> QED
    BY <1>2, <2>2, <2>3, <2>4 DEF PlugInv
<1>4. CASE End
  <2>1. phase = "game" /\ phase' = "fini" /\ todo' = Fini
    BY <1>4 DEF End
  <2>2. SearchTypes' /\ Phases' /\ Copying' /\ Collected'
    BY <1>1, <2>1 DEF PlugInv, SearchTypes, Phases, Copying, Collected
  <2>3. Fixing'
    BY <1>1, <2>1 DEF PlugInv, Fixing, Places
  <2>4. Going'
    <3>1. todo' = Steps(1) /\ 1 \in 1 .. 7
      BY <2>1 DEF Steps
    <3> QED
      BY <2>1, <3>1 DEF Going
  <2> QED
    BY <1>2, <2>2, <2>3, <2>4 DEF PlugInv
<1>5. CASE Resume
  <2>1. /\ phase \in {"menu", "fini"} /\ todo = <<>> /\ todo' = <<>>
        /\ phase' = IF phase = "menu" THEN "game" ELSE "app"
    BY <1>5 DEF Resume
  <2>2. SearchTypes' /\ Phases' /\ Copying' /\ Collected'
    BY <1>1, <2>1 DEF PlugInv, SearchTypes, Phases, Copying, Collected
  <2>3. CASE phase = "menu"
    <3>1. logger
      BY <2>1, <2>3 DEF PlugInv, Going
    <3> QED
      BY <1>1, <1>2, <2>1, <2>2, <2>3, <3>1 DEF PlugInv, Fixing, Places, Going
  <2>4. CASE phase = "fini"
    <3>1. PICK k \in 1 .. 7 :
            /\ todo = Steps(k)
            /\ k > 1 => ~hook["send"].on
            /\ k > 2 => ~hook["recv"].on
            /\ k > 4 => ~hook["packet"].on
            /\ k > 5 => patchedIds = {}
      BY <2>4 DEF PlugInv, Going
    <3>2. k = 7
      <4>1. k = 1 \/ k = 2 \/ k = 3 \/ k = 4 \/ k = 5 \/ k = 6 \/ k = 7
        BY <3>1
      <4> QED
        BY <2>1, <3>1, <4>1, StepsAre
    <3>3. (\A h \in Hook : ~hook[h].on) /\ patchedIds = {}
      BY <3>1, <3>2, TasksAre
    <3>4. Fixing' /\ Going'
      BY <1>1, <2>1, <2>4, <3>3 DEF Fixing, Places, Going
    <3> QED
      BY <1>2, <2>2, <3>4 DEF PlugInv
  <2> QED
    BY <2>1, <2>3, <2>4
<1> QED
  BY <1>3, <1>4, <1>5

LEMMA StepDoes ==
  ASSUME Step
  PROVE  /\ todo # <<>> /\ todo' = Tail(todo)
         /\ UNCHANGED <<loader, phase, hits, at, hit, doing, lock, addr, cleaned>>
         /\ Head(todo) = "enable send" =>
              rtEnableHook("send") /\ UNCHANGED <<logger, patchedIds, ids>>
         /\ Head(todo) = "enable recv" =>
              rtEnableHook("recv") /\ UNCHANGED <<logger, patchedIds, ids>>
         /\ Head(todo) = "new logger" =>
              logger' = TRUE /\ UNCHANGED <<hook, code, patchedIds, ids>>
         /\ Head(todo) = "disable send" =>
              rtDisableHook("send") /\ UNCHANGED <<logger, patchedIds, ids>>
         /\ Head(todo) = "disable recv" =>
              rtDisableHook("recv") /\ UNCHANGED <<logger, patchedIds, ids>>
         /\ Head(todo) = "delete logger" =>
              UNCHANGED <<hook, code, patchedIds, ids>>
         /\ Head(todo) = "disable packet" =>
              rtDisableHook("packet") /\ UNCHANGED <<logger, patchedIds, ids>>
         /\ Head(todo) = "restore ids" =>
              patchedIds' = patchedIds \ ids /\ UNCHANGED <<hook, code, ids>>
         /\ Head(todo) = "clear ids" =>
              ids' = {} /\ UNCHANGED <<hook, code, patchedIds>>
BY DEF Step, search

(* One hook of the two that the menu switches, and any that the end does.  *)
LEMMA Switched ==
  ASSUME PlugInv, NEW h \in Hook, UNCHANGED <<phase, hits, addr, ids, patchedIds>>,
         (phase = "menu" /\ h # "packet") \/ phase = "fini",
         (rtEnableHook(h) /\ addr[h] # Null) \/ rtDisableHook(h)
  PROVE  /\ HookTypes' /\ Placed' /\ Jumps' /\ Fixing'
         /\ \A g \in Hook : g # h => hook'[g] = hook[g]
         /\ rtDisableHook(h) => ~hook'[h].on
<1>1. /\ Placed' /\ Jumps'
      /\ hook' \in [Hook -> [func : Func \cup {Null},
                                  call : Func \cup {Null}, on : BOOLEAN]]
      /\ code' \in [Func \cup {Null} -> Hook \cup {"game"}]
      /\ \A g \in Hook : g # h => hook'[g] = hook[g]
  BY Enabling, Disabling
<1>2. rtDisableHook(h) => ~hook'[h].on
  BY Disabling
<1>3. HookTypes'
  BY <1>1 DEF PlugInv, HookTypes
<1>4. Fixing'
  <2>1. phase' \notin {"app", "search", "game"}
    OBVIOUS
  <2>2. phase' = "menu" => patchedIds' = IF hook'["packet"].on THEN Places' ELSE {}
    BY <1>1, TasksAre DEF PlugInv, Fixing, Places
  <2> QED
    BY <2>1, <2>2 DEF PlugInv, Fixing, Places
<1> QED
  BY <1>1, <1>2, <1>3, <1>4

LEMMA MenuSteps ==
  ASSUME PlugInv, Step, phase = "menu"
  PROVE  HookTypes' /\ Placed' /\ Jumps' /\ Fixing' /\ Going'
<1> DEFINE a == "enable send"
           b == "enable recv"
           c == "new logger"
           d == "disable send"
           e == "disable recv"
<1>1. \/ /\ todo \in {<<a, b, c>>, <<b, c>>, <<c>>}
         /\ addr["send"] # Null /\ addr["recv"] # Null
      \/ /\ todo \in {<<d, e>>, <<e>>}
         /\ logger
  BY StepDoes DEF PlugInv, Going
<1> HIDE DEF a, b, c, d, e
<1>2. /\ Head(<<a, b, c>>) = a /\ Tail(<<a, b, c>>) = <<b, c>>
      /\ Head(<<b, c>>) = b /\ Tail(<<b, c>>) = <<c>>
      /\ Head(<<c>>) = c /\ Tail(<<c>>) = <<>>
      /\ Head(<<d, e>>) = d /\ Tail(<<d, e>>) = <<e>>
      /\ Head(<<e>>) = e /\ Tail(<<e>>) = <<>>
  OBVIOUS
<1>3. UNCHANGED <<phase, hits, addr>> /\ todo' = Tail(todo)
  BY StepDoes
<1>4. /\ Head(todo) = a => rtEnableHook("send") /\ UNCHANGED <<logger, patchedIds, ids>>
      /\ Head(todo) = b => rtEnableHook("recv") /\ UNCHANGED <<logger, patchedIds, ids>>
      /\ Head(todo) = c => logger' = TRUE /\ UNCHANGED <<hook, code, patchedIds, ids>>
      /\ Head(todo) = d => rtDisableHook("send") /\ UNCHANGED <<logger, patchedIds, ids>>
      /\ Head(todo) = e => rtDisableHook("recv") /\ UNCHANGED <<logger, patchedIds, ids>>
  BY StepDoes DEF a, b, c, d, e
<1>5. /\ \/ /\ todo' \in {<<b, c>>, <<c>>}
            /\ addr'["send"] # Null /\ addr'["recv"] # Null
         \/ /\ todo' \in {<<e>>, <<>>}
            /\ logger'
      /\ \/ /\ rtEnableHook("send") /\ addr["send"] # Null
            /\ UNCHANGED <<patchedIds, ids>>
         \/ /\ rtEnableHook("recv") /\ addr["recv"] # Null
            /\ UNCHANGED <<patchedIds, ids>>
         \/ /\ rtDisableHook("send") \/ rtDisableHook("recv")
            /\ UNCHANGED <<patchedIds, ids>>
         \/ UNCHANGED <<hook, code, patchedIds, ids>>
  <2>1. CASE todo = <<a, b, c>>
    BY <1>1, <1>2, <1>3, <1>4, <2>1
  <2>2. CASE todo = <<b, c>>
    BY <1>1, <1>2, <1>3, <1>4, <2>2
  <2>3. CASE todo = <<c>>
    BY <1>1, <1>2, <1>3, <1>4, <2>3
  <2>4. CASE todo = <<d, e>>
    BY <1>1, <1>2, <1>3, <1>4, <2>4
  <2>5. CASE todo = <<e>>
    BY <1>1, <1>2, <1>3, <1>4, <2>5
  <2> QED
    BY <1>1, <2>1, <2>2, <2>3, <2>4, <2>5
<1>6. Going'
  BY <1>3, <1>5 DEF Going, a, b, c, d, e
<1>7. HookTypes' /\ Placed' /\ Jumps' /\ Fixing'
  <2>1. "send" \in Hook /\ "recv" \in Hook
    BY TasksAre
  <2>2. CASE UNCHANGED <<hook, code, patchedIds, ids>>
    BY <1>3, <2>2 DEF PlugInv, HookTypes, Placed, Jumps, Fixing, Places
  <2>3. CASE UNCHANGED <<patchedIds, ids>> /\ ~UNCHANGED <<hook, code, patchedIds, ids>>
    BY <1>3, <1>5, <2>1, <2>3, Switched
  <2> QED
    BY <1>5, <2>2, <2>3
<1> QED
  BY <1>6, <1>7

LEMMA FiniSteps ==
  ASSUME PlugInv, Step, phase = "fini"
  PROVE  HookTypes' /\ Placed' /\ Jumps' /\ Fixing' /\ Going'
<1>1. PICK k \in 1 .. 7 :
        /\ todo = Steps(k)
        /\ k > 1 => ~hook["send"].on
        /\ k > 2 => ~hook["recv"].on
        /\ k > 4 => ~hook["packet"].on
        /\ k > 5 => patchedIds = {}
  BY DEF PlugInv, Going
<1>2. /\ todo # <<>> /\ todo' = Tail(todo) /\ UNCHANGED <<phase, hits, addr>>
      /\ k \in 1 .. 6 /\ k + 1 \in 1 .. 7 /\ todo' = Steps(k + 1)
  <2>1. todo # <<>> /\ todo' = Tail(todo) /\ UNCHANGED <<phase, hits, addr>>
    BY StepDoes
  <2>2. k = 1 \/ k = 2 \/ k = 3 \/ k = 4 \/ k = 5 \/ k = 6 \/ k = 7
    BY <1>1
  <2>3. k # 7
    BY <1>1, <2>1, StepsAre
  <2>4. Tail(Steps(k)) = Steps(k + 1)
    <3>1. 1 + 1 = 2 /\ 2 + 1 = 3 /\ 3 + 1 = 4 /\ 4 + 1 = 5 /\ 5 + 1 = 6 /\ 6 + 1 = 7
      OBVIOUS
    <3> QED
      BY <2>2, <2>3, <3>1, StepsAre, Zenon
  <2>5. k \in 1 .. 6 /\ k + 1 \in 1 .. 7
    BY <1>1, <2>3
  <2>6. todo' = Steps(k + 1)
    BY <1>1, <2>1, <2>4
  <2> QED
    BY <2>1, <2>5, <2>6
<1>3. "send" \in Hook /\ "recv" \in Hook /\ "packet" \in Hook
  BY TasksAre
<1>4. ASSUME k + 1 > 1 => ~hook'["send"].on,
             k + 1 > 2 => ~hook'["recv"].on,
             k + 1 > 4 => ~hook'["packet"].on,
             k + 1 > 5 => patchedIds' = {}
      PROVE  Going'
  BY <1>2, <1>4 DEF Going
<1>5. CASE k \in {1, 2, 4}
  <2> DEFINE h == IF k = 1 THEN "send" ELSE IF k = 2 THEN "recv" ELSE "packet"
  <2>1. rtDisableHook(h) /\ UNCHANGED <<patchedIds, ids>> /\ h \in Hook
    <3>1. k = 1 \/ k = 2 \/ k = 4
      BY <1>5
    <3>2. CASE k = 1
      BY <1>1, <1>3, <3>2, StepsAre, StepDoes
    <3>3. CASE k = 2
      BY <1>1, <1>3, <3>3, StepsAre, StepDoes
    <3>4. CASE k = 4
      BY <1>1, <1>3, <3>4, StepsAre, StepDoes
    <3> QED
      BY <3>1, <3>2, <3>3, <3>4
  <2> HIDE DEF h
  <2>2. /\ HookTypes' /\ Placed' /\ Jumps' /\ Fixing'
        /\ ~hook'[h].on /\ \A g \in Hook : g # h => hook'[g] = hook[g]
    BY <1>2, <2>1, Switched
  <2>3. Going'
    <3>1. ~hook'["send"].on
      BY <1>1, <1>3, <1>5, <2>2 DEF h
    <3>2. k + 1 > 2 => ~hook'["recv"].on
      BY <1>1, <1>3, <1>5, <2>2 DEF h
    <3>3. k + 1 > 4 => ~hook'["packet"].on
      BY <1>1, <1>3, <1>5, <2>2 DEF h
    <3> QED
      BY <1>4, <1>5, <3>1, <3>2, <3>3
  <2> QED
    BY <2>2, <2>3
<1>6. CASE k \in {3, 5, 6}
  <2>1. /\ UNCHANGED <<hook, code>>
        /\ k = 3 => UNCHANGED <<patchedIds, ids>>
        /\ k = 5 => patchedIds' = patchedIds \ ids /\ ids' = ids
        /\ k = 6 => patchedIds' = patchedIds /\ ids' = {}
    <3>1. k = 3 \/ k = 5 \/ k = 6
      BY <1>6
    <3>2. CASE k = 3
      BY <1>1, <3>2, StepsAre, StepDoes
    <3>3. CASE k = 5
      BY <1>1, <3>3, StepsAre, StepDoes
    <3>4. CASE k = 6
      BY <1>1, <3>4, StepsAre, StepDoes
    <3> QED
      BY <3>1, <3>2, <3>3, <3>4
  <2>2. patchedIds = {} \/ patchedIds \subseteq ids
    BY DEF PlugInv, Fixing, Places
  <2>3. /\ k = 5 => patchedIds' = {}
        /\ k = 6 => patchedIds' = {}
    BY <1>1, <2>1, <2>2
  <2>4. HookTypes' /\ Placed' /\ Jumps'
    BY <1>2, <1>6, <2>1, <2>3 DEF PlugInv, HookTypes, Placed, Jumps
  <2>5. Fixing'
    BY <1>2, <1>6, <2>1, <2>2, <2>3 DEF Fixing, Places
  <2>6. Going'
    BY <1>1, <1>4, <1>6, <2>1, <2>3
  <2> QED
    BY <2>4, <2>5, <2>6
<1> QED
  BY <1>2, <1>5, <1>6

LEMMA Stepping ==
  ASSUME PlugInv, Step
  PROVE  PlugInv'
<1>1. UNCHANGED <<phase, hits, at, hit, doing, lock, addr>> /\ todo # <<>>
  BY StepDoes
<1>2. phase = "menu" \/ phase = "fini"
  BY <1>1 DEF PlugInv, Phases, Going
<1>3. SearchTypes' /\ Phases' /\ Copying' /\ Collected'
  BY <1>1, <1>2 DEF PlugInv, SearchTypes, Phases, Copying, Collected
<1> QED
  BY <1>2, <1>3, MenuSteps, FiniSteps DEF PlugInv

LEMMA Invariance ==
  ASSUME PlugInv, [PluginNext]_pluginVars
  PROVE  PlugInv'
<1>1. CASE UNCHANGED pluginVars
  BY <1>1, Unmoved DEF pluginVars, search, hooks
<1>2. CASE PressY \/ LoaderToggled \/ RestoreState \/ ClearParameters
  BY <1>2, Aside
<1>3. CASE StartGame
  BY <1>3, Starting
<1>4. ASSUME NEW k \in Task, NotFound(k) \/ Install(k) \/ Installed(k) \/ CollectId(k)
      PROVE  PlugInv'
  BY <1>4, FindingNothing, InstallBegins, InstallEnds, Collecting
<1>5. CASE enablePatches
  BY <1>5, EnablingPatches
<1>6. CASE Toggle \/ End \/ Resume
  BY <1>6, MenuOpens
<1>7. CASE Step
  BY <1>7, Stepping
<1>8. CASE Killed
  BY <1>8, Killing
<1> QED
  BY <1>1, <1>2, <1>3, <1>4, <1>5, <1>6, <1>7, <1>8 DEF PluginNext

LEMMA LoaderInvariance ==
  ASSUME Loading, [PluginNext]_pluginVars
  PROVE  Loading'
<1>1. CASE PressY \/ LoaderToggled \/ StartGame \/ RestoreState \/ ClearParameters
  BY <1>1, LoaderSteps
<1>2. CASE Toggle \/ End \/ Step \/ Resume \/ Killed \/ enablePatches
  <2>1. /\ UNCHANGED <<loader, cleaned>>
        /\ \/ phase' = "app" \/ phase' = phase
           \/ phase = "game" /\ cleaned = "yes" /\ phase' \in {"menu", "fini"}
           \/ phase \in {"search", "menu"} /\ phase' = "game"
    BY <1>2 DEF Toggle, End, Step, Resume, Killed, enablePatches
  <2> QED
    BY <2>1, LoaderKept
<1>3. ASSUME NEW k \in Task, NotFound(k) \/ Install(k) \/ Installed(k) \/ CollectId(k)
      PROVE  Loading'
  <2>1. UNCHANGED <<loader, cleaned, phase>>
    BY <1>3 DEF NotFound, Install, Installed, CollectId
  <2> QED
    BY <2>1, LoaderKept
<1>4. CASE UNCHANGED pluginVars
  BY <1>4, LoaderKept DEF pluginVars
<1> QED
  BY <1>1, <1>2, <1>3, <1>4 DEF PluginNext

-----------------------------------------------------------------------------
(* Whatever the tasks' order, a handler in the game's code goes on to the  *)
(* function it replaced, and there is a logger while packets are hooked.   *)
THEOREM HandlersGoOn == PluginSpec => []HandlersReachTheGame
<1>1. PlugInv => HandlersReachTheGame
  <2> SUFFICES ASSUME PlugInv
               PROVE  HandlersReachTheGame
    OBVIOUS
  <2>1. \A h \in Hook : addr[h] # Null => hook[h].func = addr[h] /\ hook[h].call = addr[h]
    BY DEF PlugInv, Placed
  <2>2. ASSUME NEW f \in Func, code[f] \in Hook
        PROVE  hook[code[f]].call = f /\ hook[code[f]].on
    <3>1. code[f] # "game" /\ f \in Func \cup {Null} /\ f # Null
      BY <2>2 DEF Hook, Func, Null
    <3>2. hook[code[f]].on /\ addr[code[f]] = f
      BY <3>1 DEF PlugInv, Jumps
    <3> QED
      BY <2>1, <2>2, <3>1, <3>2
  <2>3. ASSUME phase = "game", NEW f \in Func, code[f] \in {"send", "recv"}
        PROVE  logger
    BY <2>2, <2>3, TasksAre DEF PlugInv, Going
  <2> QED
    BY <2>1, <2>2, <2>3 DEF HandlersReachTheGame
<1> QED
  BY Initial, Invariance, <1>1, PTL DEF PluginSpec

(* The code differs from the game's own only where a hook is on, and not   *)
(* at all once the plugin is gone.                                         *)
THEOREM CodeComesBack == PluginSpec => []CodeIsRestored
<1>1. PlugInv => CodeIsRestored
  <2> SUFFICES ASSUME PlugInv
               PROVE  CodeIsRestored
    OBVIOUS
  <2>1. Null \in Func \cup {Null}
    OBVIOUS
  <2>2. code[Null] = "game"
    BY <2>1 DEF PlugInv, Jumps
  <2>3. \A f \in Func : code[f] # "game" => code[f] \in Hook /\ hook[code[f]].on
    BY DEF PlugInv, Jumps
  <2>4. phase = "app" => patchedIds = {} /\ \A f \in Func : code[f] = "game"
    BY <2>3 DEF PlugInv, Fixing, Places
  <2> QED
    BY <2>2, <2>3, <2>4 DEF CodeIsRestored
<1> QED
  BY Initial, Invariance, <1>1, PTL DEF PluginSpec

(* All the places of ACNL's game server, or none.                          *)
THEOREM AllOrNone == PluginSpec => []FixedOrUntouched
<1>1. PlugInv => FixedOrUntouched
  BY DEF PlugInv, Fixing, Places, FixedOrUntouched
<1> QED
  BY Initial, Invariance, <1>1, PTL DEF PluginSpec

(* The plugin loader's setting survives the game with the plugin.          *)
THEOREM LoaderComesBack == PluginSpec => []LoaderAsBefore
<1>1. PluginInit => Loading
  BY Initial DEF PluginInit, Loading, Cleaning
<1>2. Loading => LoaderAsBefore
  BY DEF Loading, Loader, Cleaning, LoaderAsBefore
<1> QED
  BY <1>1, <1>2, LoaderInvariance, PTL DEF PluginSpec
===============================================================================
