------------------------------ MODULE Redirect ------------------------------
(***************************************************************************)
(* The patch of http:C (src/patches/http) that sends requests to our       *)
(* servers while a Pretendo account is in use, and the patch of act        *)
(* (src/patches/act) that chooses the account server of such a request.    *)
(*                                                                         *)
(* A request asks frd:u for the environment of the friends account unless  *)
(* an earlier one cached the answer.  The frd:u session is kept in one     *)
(* global word that requests of several threads share without a lock.      *)
(*                                                                         *)
(* External: frd:u, which answers or fails and wants SetClientSdkVersion   *)
(* on a session first (frdu.s:20); the app and the system settings, which  *)
(* load another friends account while http:C runs (MainUI.cpp:63); the     *)
(* threads of http:C.                                                      *)
(***************************************************************************)
EXTENDS Naturals, FiniteSets, SequencesExt

CONSTANTS Thread,      \* the threads of http:C that serve requests
          MaxHandles   \* bound: sessions opened between two restarts

ASSUME ThreadAssumption == IsFiniteSet(Thread) /\ Thread # {}
ASSUME BoundAssumption == MaxHandles \in Nat

Environment == 0..2      \* frd's nascEnvironment: Nintendo, Pretendo, development
Pretendo == 1
NoHandle == 0

VARIABLES environment,       \* of the friends account that is loaded
          nasc_environment,  \* the cache: 0, or the environment plus 1
          frd_handle,        \* the global session handle
          open, versioned,   \* the sessions frd has, those with an SDK version
          issued,            \* sessions opened so far
          pc, url,           \* where each thread is, and the URL it works on
          answer,            \* the reply in each thread's command buffer
          seen,              \* ghost: requests redirected before this one began?
          sent,              \* the last URL of each thread: asked for and sent
          pretendo,          \* ghost: was a Pretendo account loaded since the start?
          crossed            \* ghost: was an account loaded while a thread asked frd?

frd == <<frd_handle, open, versioned, issued>>
accounts == <<environment, pretendo, crossed>>
vars == <<accounts, nasc_environment, frd, pc, url, answer, seen, sent>>

(***************************************************************************)
(* Replacing a host name.  A URL is a sequence of pieces: the three names  *)
(* that are looked for, ours, and the text around them.                    *)
(***************************************************************************)
Targets == <<"nintendowifi.net", "nintendo.net", "pokemon-gl.com">>

(* Where a name begins first, 0 if it does not occur.                      *)
strstr(text, target) ==
  LET places == {i \in DOMAIN text : text[i] = target}
  IN  IF places = {} THEN 0 ELSE Min(places)

(* Replaces the first occurrence of a name, in place.                      *)
find_and_replace(text, target) ==
  IF strstr(text, target) = 0
  THEN text
  ELSE [text EXCEPT ![strstr(text, target)] = "nicoch.net"]

(* Mutant: one of the names is not looked for. *)
handle_replacements_Two(text) ==
  find_and_replace(find_and_replace(text, Targets[1]), Targets[3])
handle_replacements(text) ==
  find_and_replace(find_and_replace(find_and_replace(text, Targets[1]), Targets[2]), Targets[3])

(***************************************************************************)
(* The URLs of games and services, and those of act, which asks frd for    *)
(* the environment each time and takes what is on its stack for an answer  *)
(* when the call fails.                                                    *)
(***************************************************************************)
GameUrl == {<<"nasc.", "nintendowifi.net">>, <<"api.", "pokemon-gl.com", "/html">>,
            <<"www.", "other.com">>,
            <<"npns.", "nintendo.net", "/?to=", "nintendowifi.net">>}
Official == <<"https://account.", "nintendo.net", "/v1/api/">>
Unofficial == <<"https://act.", "nicochristmann.net", ":6666/v1/api/">>

get_account_url(byte) == IF byte = 0 THEN Official ELSE Unofficial
AccountUrls == {get_account_url(byte) : byte \in {environment} \union 0..1}

-----------------------------------------------------------------------------
TypeOK ==
  /\ environment \in Environment
  /\ nasc_environment \in {0} \union {e + 1 : e \in Environment}
  /\ frd_handle \in 0..MaxHandles /\ issued \in 0..MaxHandles
  /\ open \subseteq 1..issued /\ versioned \subseteq open
  /\ pretendo \in BOOLEAN /\ crossed \in BOOLEAN
  /\ pc \in [Thread -> {"idle", "handle", "version", "types", "store", "close"}]
  /\ url \in [Thread -> GameUrl \union {Official, Unofficial, <<>>}]
  /\ answer \in [Thread -> Environment] /\ seen \in [Thread -> BOOLEAN]
  /\ DOMAIN sent = Thread
  /\ \A t \in Thread : /\ sent[t].asked \in GameUrl \union {Official, Unofficial, <<>>}
                       /\ sent[t].seen \in BOOLEAN
                       /\ sent[t].out \in {sent[t].asked, handle_replacements(sent[t].asked)}

Init == /\ environment \in Environment
        /\ nasc_environment = 0
        /\ frd_handle = NoHandle /\ open = {} /\ versioned = {}
        /\ issued = 0
        /\ pretendo = (environment = Pretendo) /\ crossed = FALSE
        /\ pc = [t \in Thread |-> "idle"]
        /\ url = [t \in Thread |-> <<>>]
        /\ answer = [t \in Thread |-> 0]
        /\ seen = [t \in Thread |-> FALSE]
        /\ sent = [t \in Thread |-> [asked |-> <<>>, out |-> <<>>, seen |-> FALSE]]

Redirected == \E t \in Thread : sent[t].out # sent[t].asked

(* The request of t leaves, knowing the environment or with 0 for it.      *)
Leave(t, text, known, before) ==
  /\ sent' = [sent EXCEPT ![t] =
                [asked |-> text, seen |-> before,
                 out   |-> IF known = Pretendo + 1 THEN handle_replacements(text) ELSE text]]
  /\ pc' = [pc EXCEPT ![t] = "idle"]

Begin(t) ==
  /\ pc[t] = "idle"
  /\ \E text \in GameUrl \union AccountUrls :
       /\ url' = [url EXCEPT ![t] = text]
       /\ LET before == Redirected \/ \E u \in Thread : seen[u]
          IN  /\ seen' = [seen EXCEPT ![t] = before]
              /\ IF nasc_environment # 0
                 THEN Leave(t, text, nasc_environment, before)
                 ELSE pc' = [pc EXCEPT ![t] = "handle"] /\ UNCHANGED sent
  /\ UNCHANGED <<accounts, nasc_environment, frd, answer>>

(* The result of get_service_handle is not looked at.                      *)
get_frd_u_handle(t) ==
  /\ pc[t] = "handle"
  /\ pc' = [pc EXCEPT ![t] = "version"]
  /\ \/ /\ issued < MaxHandles
        /\ issued' = issued + 1
        /\ open' = open \union {issued'}
        /\ frd_handle' = issued'
     \/ UNCHANGED <<issued, open, frd_handle>>
  /\ UNCHANGED <<accounts, nasc_environment, versioned, url, answer, seen, sent>>

SetClientSdkVersion(t) ==
  /\ pc[t] = "version"
  /\ pc' = [pc EXCEPT ![t] = "types"]
  /\ versioned' \in {versioned, versioned \union ({frd_handle} \intersect open)}
  /\ UNCHANGED <<accounts, nasc_environment, frd_handle, open, issued, url, answer, seen, sent>>

GetServerTypes(t) ==
  /\ pc[t] = "types"
  /\ frd_handle \in open \intersect versioned
  /\ answer' = [answer EXCEPT ![t] = environment]
  /\ pc' = [pc EXCEPT ![t] = "store"]
  /\ UNCHANGED <<accounts, nasc_environment, frd, url, seen, sent>>

(* Mutant: the failure is cached like an answer. *)
GetServerTypesFails_Cached(t) ==
  /\ pc[t] = "types"
  /\ Leave(t, url[t], 0, seen[t])
  /\ nasc_environment' = 1
  /\ UNCHANGED <<accounts, frd, url, answer, seen>>

(* get_nasc_environment_clear: the session stays open, nothing is cached.  *)
GetServerTypesFails(t) ==
  /\ pc[t] = "types"
  /\ Leave(t, url[t], 0, seen[t])
  /\ UNCHANGED <<accounts, nasc_environment, frd, url, answer, seen>>

(* Mutant: the answer is stored as frd gave it. *)
Cached_AsIs(env) == env

(* 1 is added so that 0 means that nothing is cached.                      *)
Cached(env) == env + 1

Store(t) ==
  /\ pc[t] = "store"
  /\ nasc_environment' = Cached(answer[t])
  /\ pc' = [pc EXCEPT ![t] = "close"]
  /\ UNCHANGED <<accounts, frd, url, answer, seen, sent>>

(* Closes whatever session the global word names by now, and reads the     *)
(* cache again.                                                            *)
Close(t) ==
  /\ pc[t] = "close"
  /\ open' = open \ {frd_handle}
  /\ versioned' = versioned \ {frd_handle}
  /\ Leave(t, url[t], nasc_environment, seen[t])
  /\ UNCHANGED <<accounts, nasc_environment, frd_handle, issued, url, answer, seen>>

Asking(t) == pc[t] # "idle"

(* Another friends account is loaded.  Nothing tells http:C.               *)
LoadLocalAccount ==
  /\ environment' \in Environment
  /\ pretendo' = (pretendo \/ environment' = Pretendo)
  /\ crossed' = (crossed \/ \E t \in Thread : Asking(t))
  /\ UNCHANGED <<nasc_environment, frd, pc, url, answer, seen, sent>>

Next ==
  \/ \E t \in Thread : \/ Begin(t) \/ get_frd_u_handle(t) \/ SetClientSdkVersion(t)
                       \/ GetServerTypes(t) \/ GetServerTypesFails(t) \/ Store(t) \/ Close(t)
  \/ LoadLocalAccount

Spec == Init /\ [][Next]_vars

-----------------------------------------------------------------------------
(* Once one request was redirected, every request that begins later is:    *)
(* the cache is not undone by a thread that asked at the same time and got *)
(* no answer, nor by another account loaded since.  Only an account loaded *)
(* while threads are asking can undo it: the later answer takes the place  *)
(* of the earlier one.                                                     *)
StaysRedirected ==
  \A t \in Thread :
    ~crossed /\ sent[t].seen => sent[t].out = handle_replacements(sent[t].asked)

(* From then on nothing reaches Nintendo's account server either, also     *)
(* when act got no answer and fell back to the official URL: http:C        *)
(* replaces what act chose.                                                *)
AccountNotAtNintendo ==
  \A t \in Thread : ~crossed /\ sent[t].seen => ~Contains(sent[t].out, "nintendo.net")

(* Whatever accounts are loaded while threads ask, fail and share the      *)
(* session, no request is redirected unless a Pretendo account was loaded  *)
(* since the start: a failure, or an account of the development servers,   *)
(* is never taken for one.                                                 *)
OnlyForPretendo ==
  ~pretendo => \A t \in Thread : sent[t].out = sent[t].asked

(* As the patch's README.md:3 says it, "when a Pretendo account is being   *)
(* used": the account loaded when a request leaves.                        *)
OnlyWhileUsed ==
  [][\A t \in Thread : sent'[t] # sent[t] /\ sent'[t].out # sent'[t].asked
                         => environment = Pretendo]_vars

(* Of the session, frdu.s:48: "close frd_handle since we dont need it      *)
(* anymore".                                                               *)
NoSessionLeft == (\A t \in Thread : pc[t] = "idle") => open = {}
=============================================================================
