----------------------------- MODULE LogDelivery -----------------------------
(***************************************************************************)
(* What RvtA's log upload promises (rvta/source/main.c, lines 4-6): a row  *)
(* that became a line of a log on the SD card stays there until the server *)
(* has it, or until the card cannot read the log.  A log whose last append *)
(* was cut short spoils one more row, the next.  Rows may be delivered     *)
(* more than once; that is not visible here.                               *)
(***************************************************************************)
CONSTANTS Row, Log

VARIABLES pending,    \* rows held by the log files on the SD card
          delivered,  \* rows the server has stored
          unreadable, \* rows of logs that could once not be read
          damaged,    \* logs that end in a cut line
          spoilt      \* rows appended to a cut line

vars == <<pending, delivered, unreadable, damaged, spoilt>>

Init ==
  /\ pending = {} /\ delivered = {} /\ unreadable = {}
  /\ damaged = {} /\ spoilt = {}

(* The sampler appends a row, maybe to a log that was unreadable before.    *)
Record(r) ==
  /\ pending' = pending \cup {r}
  /\ unreadable' \in {unreadable, unreadable \cup {r}}
  /\ UNCHANGED <<delivered, damaged, spoilt>>

(* An append is cut short: its row is not promised anything. *)
Damage ==
  /\ \E l \in Log : damaged' = damaged \cup {l}
  /\ UNCHANGED <<pending, delivered, unreadable, spoilt>>

(* The next row of that log is no line of its own, the one after it is. *)
Spoil(r) ==
  /\ \E l \in damaged : damaged' = damaged \ {l}
  /\ spoilt' = spoilt \cup {r}
  /\ UNCHANGED <<pending, delivered, unreadable>>

(* The damaged log goes to the server and a new one is begun. *)
Renew ==
  /\ \E l \in damaged : damaged' = damaged \ {l}
  /\ UNCHANGED <<pending, delivered, unreadable, spoilt>>

(* Reading a log fails: nothing is promised for its rows any more.          *)
Misread ==
  /\ \E R \in SUBSET (pending \cup delivered) : unreadable' = unreadable \cup R
  /\ UNCHANGED <<pending, delivered, damaged, spoilt>>

(* The server stores some of the rows on the card. *)
Deliver ==
  /\ \E R \in SUBSET pending : delivered' = delivered \cup R
  /\ UNCHANGED <<pending, unreadable, damaged, spoilt>>

(* Rows leave the card, every one of them delivered before or unreadable. *)
Discard ==
  /\ \E R \in SUBSET (pending \cap (delivered \cup unreadable)) : pending' = pending \ R
  /\ UNCHANGED <<delivered, unreadable, damaged, spoilt>>

Next ==
  \/ \E r \in Row : Record(r) \/ Spoil(r)
  \/ Damage \/ Renew \/ Misread \/ Deliver \/ Discard

Spec == Init /\ [][Next]_vars
==============================================================================
