-------------------------------- MODULE RvtaMcu ------------------------------
(***************************************************************************)
(* The mcu::HWC session of RvtA (rvta/source/main.c: mcuOpen, mcuClose).   *)
(* The sampler, the uploader and the input thread use it for a moment at a *)
(* time, through one handle, one flag and libctru's use count, none of     *)
(* which is protected by a lock.  srv may find the port full at any open.  *)
(***************************************************************************)
EXTENDS Integers, FiniteSets

CONSTANTS Threads,   \* the threads that use the MCU
          MaxUses    \* bound: times it is used

None == 0

VARIABLES
  handle,       \* mcuHwcGetSessionHandle()
  refCount,     \* libctru's count of users
  mcuBorrowed,
  open,         \* sessions this process holds
  pc,           \* [Threads -> where the thread is]
  uses,
  borrowers,    \* ghost: threads srv refused, until they are out again
  crossed       \* ghost: did one of them meet another thread's use?

vars == <<handle, refCount, mcuBorrowed, open, pc, uses, borrowers, crossed>>

Session == 1 .. MaxUses
Fresh   == CHOOSE s \in Session : s \notin open /\ \A t \in Session \ open : s <= t

TypeOK ==
  /\ handle \in Session \cup {None}
  /\ refCount \in -MaxUses .. MaxUses
  /\ mcuBorrowed \in BOOLEAN
  /\ open \subseteq Session
  /\ pc \in [Threads -> {"out", "asked", "steal", "in", "drop", "exit"}]
  /\ uses \in 0 .. MaxUses
  /\ borrowers \subseteq Threads
  /\ crossed \in BOOLEAN

Init ==
  /\ handle = None /\ refCount = 0 /\ mcuBorrowed = FALSE
  /\ open = {}
  /\ pc = [t \in Threads |-> "out"]
  /\ uses = 0
  /\ borrowers = {} /\ crossed = FALSE

Goto(t, place) ==
  /\ pc' = [pc EXCEPT ![t] = place]
  /\ borrowers' = CASE place = "steal" -> borrowers \cup {t}
                    [] place = "out"   -> borrowers \ {t}
                    [] OTHER           -> borrowers
  /\ crossed' = (crossed \/ \E b \in borrowers', u \in Threads : b # u /\ pc'[u] # "out")

-------------------------------------------------------------------------------
(* mcuHwcInit: only the first user asks srv for a session. *)
HwcInit(t) ==
  /\ pc[t] = "out"
  /\ uses < MaxUses
  /\ uses' = uses + 1
  /\ refCount' = refCount + 1
  /\ IF refCount # 0
     THEN mcuBorrowed' = FALSE /\ Goto(t, "in")
     ELSE UNCHANGED mcuBorrowed /\ Goto(t, "asked")
  /\ UNCHANGED <<handle, open>>

HwcGranted(t) ==
  /\ pc[t] = "asked"
  /\ handle' = Fresh
  /\ open' = open \cup {handle'}
  /\ mcuBorrowed' = FALSE
  /\ Goto(t, "in")
  /\ UNCHANGED <<refCount, uses>>

(* srv does not wait for a full port. *)
HwcRefused(t) ==
  /\ pc[t] = "asked"
  /\ refCount' = refCount - 1
  /\ Goto(t, "steal")
  /\ UNCHANGED <<handle, mcuBorrowed, open, uses>>

(* stealSession: a copy of another process's session. *)
Steal(t) ==
  /\ pc[t] = "steal"
  /\ handle' = Fresh
  /\ open' = open \cup {handle'}
  /\ mcuBorrowed' = TRUE
  /\ Goto(t, "in")
  /\ UNCHANGED <<refCount, uses>>

StealFails(t) ==
  /\ pc[t] = "steal"
  /\ Goto(t, "out")
  /\ UNCHANGED <<handle, refCount, mcuBorrowed, open, uses>>

(* Mutant: the borrowed session is left open. *)
CloseBegins_KeepsBorrowed(t) ==
  /\ pc[t] = "in"
  /\ Goto(t, IF mcuBorrowed THEN "drop" ELSE "exit")
  /\ UNCHANGED <<handle, refCount, mcuBorrowed, open, uses>>

(* mcuClose, after the registers were read or the LED was set: close the   *)
(* borrowed session, or leave it to mcuHwcExit.                            *)
CloseBegins(t) ==
  /\ pc[t] = "in"
  /\ IF mcuBorrowed
     THEN open' = open \ {handle} /\ Goto(t, "drop")
     ELSE UNCHANGED open /\ Goto(t, "exit")
  /\ UNCHANGED <<handle, refCount, mcuBorrowed, uses>>

DropBorrowed(t) ==
  /\ pc[t] = "drop"
  /\ handle' = None
  /\ mcuBorrowed' = FALSE
  /\ Goto(t, "out")
  /\ UNCHANGED <<refCount, open, uses>>

(* mcuHwcExit: the last user closes the session. *)
HwcExit(t) ==
  /\ pc[t] = "exit"
  /\ refCount' = refCount - 1
  /\ open' = IF refCount' = 0 THEN open \ {handle} ELSE open
  /\ Goto(t, "out")
  /\ UNCHANGED <<handle, mcuBorrowed, uses>>

Next ==
  \E t \in Threads :
    \/ HwcInit(t) \/ HwcGranted(t) \/ HwcRefused(t) \/ Steal(t) \/ StealFails(t)
    \/ CloseBegins(t) \/ DropBorrowed(t) \/ HwcExit(t)

Spec == Init /\ [][Next]_vars

-------------------------------------------------------------------------------
(* Between two uses nothing is left over: no session of a port that has few *)
(* of them, and the count from which libctru knows that it must ask again.  *)
(* Threads may share one session in any interleaving; what is left over was *)
(* left by a use srv refused that met another one (OnlyHeldWhileReading).   *)
IdleIsFresh ==
  ~crossed /\ (\A t \in Threads : pc[t] = "out") => open = {} /\ refCount = 0

(* "mcu::HWC allows few sessions, so it is only held while reading"        *)
(* (main.c:504), in every interleaving.                                    *)
OnlyHeldWhileReading == (\A t \in Threads : pc[t] = "out") => open = {}
==============================================================================
