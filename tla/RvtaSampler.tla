----------------------------- MODULE RvtaSampler -----------------------------
(***************************************************************************)
(* RvtA's main thread (rvta/source/main.c: loadIdentity and main): the     *)
(* boot counter that row numbers are made from, and the poll every five    *)
(* seconds that decides which rows are written and under which friend      *)
(* code.  Each sample uses the MCU session the other threads use as well   *)
(* (RvtaMcu).  Where rows end up is RvtaLog.                               *)
(*                                                                         *)
(* Time is counted in polls and kept as ages, so a console may run for     *)
(* ever; the clock is never set back.  Power is lost between two polls or  *)
(* while boot.txt is written; the log has room and can be written to.      *)
(***************************************************************************)
EXTENDS Integers, Sequences, SequencesExt, FiniteSets

CONSTANTS Threads, MaxUses,  \* of RvtaMcu
          Sampler,                    \* the thread of this module
          FriendCode,                 \* without 0, which stands for none
          Delays,                     \* times between polls, 1 for no delay
          MaxBoots, MaxFaults         \* bounds

POLL == 1
SLOW == 3       \* SLOW_SECONDS / POLL_SECONDS
SAMPLE == 12    \* SAMPLE_SECONDS / POLL_SECONDS
SLEEP == POLL + 6   \* a longer gap means that the console slept

ASSUME SamplerAssumption ==
  /\ IsFiniteSet(Threads) /\ MaxUses \in Nat
  /\ Sampler \in Threads /\ 0 \notin FriendCode
  /\ Delays \subseteq Nat \ {0} /\ MaxBoots \in Nat /\ MaxFaults \in Nat

VARIABLES handle, refCount, mcuBorrowed, open, pc, uses, borrowers, crossed

Mcu == INSTANCE RvtaMcu
mcu == <<handle, refCount, mcuBorrowed, open, pc, uses, borrowers, crossed>>

VARIABLES
  stage,          \* "off", "sleeping", "sampling" (before and in the MCU) or "rows"
  bootFile,       \* SD card: the number in boot.txt, 0 without one
  bootCount,      \* of this boot
  used,           \* ghost: boot counts that rows on the card or server have
  repeated,       \* ghost: was one of them given twice?
  damaged,        \* ghost: did boot.txt fail to be read or written?
  code,           \* external: the friend code of the console's account
  known, logFc,   \* slow.friendCode, the code of the log in use
  polled,         \* the last poll's shellOpen, charging and adapter
  gap,            \* polls since the last one
  slowAge, sampleAge,  \* time since lastSlow, lastSample
  newest,         \* ghost: what the last row tells, its age, its log
  ordered,        \* ghost: were rows written in the order of their times?
  faults

identity == <<bootFile, bootCount, used, repeated, damaged>>
fields   == <<known, logFc, polled>>
rows     == <<newest, ordered>>
ages     == <<gap, slowAge, sampleAge>>
vars     == <<mcu, stage, identity, code, fields, ages, rows, faults>>

(* What is polled, as far as a change of it makes a row: the shell and the *)
(* charger.                                                                *)
Polled == {"shut", "open", "charging"}

Row(about, age, fc) == [about |-> about, age |-> age, fc |-> fc]

TypeOK ==
  /\ Mcu!TypeOK
  /\ stage \in {"off", "sleeping", "sampling", "rows"}
  /\ bootFile \in 0 .. MaxBoots + MaxFaults + 1 /\ bootCount \in 0 .. MaxBoots + MaxFaults + 1
  /\ used \subseteq 1 .. MaxBoots + MaxFaults + 1 /\ repeated \in BOOLEAN /\ damaged \in BOOLEAN
  /\ {code, known, logFc} \subseteq FriendCode \union {0} /\ polled \in Polled
  /\ {gap, slowAge, sampleAge, newest.age} \subseteq Nat
  /\ newest.about \in Polled /\ newest.fc \in FriendCode \union {0} /\ ordered \in BOOLEAN
  /\ faults \in 0 .. MaxFaults

Init ==
  /\ Mcu!Init
  /\ stage = "off"
  /\ bootFile = 0 /\ bootCount = 0 /\ used = {} /\ repeated = FALSE /\ damaged = FALSE
  /\ code \in FriendCode \union {0}
  /\ known = 0 /\ logFc = 0 /\ polled = "open"
  /\ gap = 0 /\ slowAge = 0 /\ sampleAge = 0
  /\ newest = Row("open", 0, 0) /\ ordered = TRUE
  /\ faults = 0

Fault == faults < MaxFaults /\ faults' = faults + 1

-------------------------------------------------------------------------------
(* Mutant: the number read is written again. *)
Counted_Late(n) == n

(* The number written for the next boot.                                   *)
Counted(n) == n + 1

(* loadIdentity, then the row of the boot.  A read that fails gives 0.     *)
(* boot.txt is emptied and written again; it keeps its old number if it    *)
(* cannot be opened, and has a part of its digits or none if the write     *)
(* fails or power is lost in it.                                           *)
Boot ==
  /\ stage = "off"
  /\ Cardinality(used) < MaxBoots
  /\ \E n \in {bootFile, 0} :
       /\ bootCount' = n + 1
       /\ \/ /\ n = bootFile
             /\ bootFile' = Counted(n)
             /\ UNCHANGED <<damaged, faults>>
          \/ /\ Fault
             /\ damaged' = TRUE
             /\ \/ n # bootFile /\ bootFile' = Counted(n)
                \/ n = bootFile /\ bootFile' \in {bootFile} \union 0 .. n
  /\ \/ /\ stage' = "sleeping"
        /\ repeated' = (repeated \/ bootCount' \in used)
        /\ used' = used \union {bootCount'}
        /\ polled' \in Polled
        /\ known' \in {code, 0}
        /\ logFc' = known'
        /\ newest' = Row(polled', 0, logFc')
     \/ /\ faults' # faults      \* power is lost before any row
        /\ UNCHANGED <<stage, repeated, used, fields, newest>>
  /\ UNCHANGED <<mcu, code, ages, ordered>>

(* Another account, or none, is loaded by the friends module.              *)
CodeChanges ==
  /\ code' \in (FriendCode \union {0}) \ {code}
  /\ UNCHANGED <<mcu, stage, identity, fields, ages, rows, faults>>

(* Sleeping takes at least one poll; longer when other threads and the SD  *)
(* card delay it, much longer when the console sleeps.                     *)
WakeUp ==
  /\ stage = "sleeping"
  /\ gap' \in Delays
  /\ stage' = "sampling"
  /\ UNCHANGED <<mcu, identity, code, fields, slowAge, sampleAge, rows, faults>>

(* The MCU steps of readSample and of the other threads.                   *)
McuStep(t) == \/ Mcu!HwcGranted(t) \/ Mcu!HwcRefused(t) \/ Mcu!Steal(t) \/ Mcu!StealFails(t)
              \/ Mcu!CloseBegins(t) \/ Mcu!DropBorrowed(t) \/ Mcu!HwcExit(t)

UseMcu ==
  /\ \E t \in Threads :
       \/ (t = Sampler => stage = "sampling") /\ Mcu!HwcInit(t)
       \/ McuStep(t)
  /\ stage' = IF pc[Sampler] # "out" /\ pc'[Sampler] = "out" THEN "rows" ELSE stage
  /\ UNCHANGED <<identity, code, fields, ages, rows, faults>>

-------------------------------------------------------------------------------
(* Mutant: the row of the wake-up comes first. *)
SleepRows_Swapped(now) ==
  IF gap > SLEEP THEN <<Row(now, 0, logFc), Row(polled, gap, logFc)>> ELSE <<>>

(* A gap becomes two rows, the first with the state before it.             *)
SleepRows(now) ==
  IF gap > SLEEP THEN <<Row(polled, gap, logFc), Row(now, 0, logFc)>> ELSE <<>>

(* readSlow: a session of frd that is refused looks like no account.       *)
selectLog(fc) == fc

(* The loop's body after readSample.  A title or an error code that        *)
(* changed makes a row of its own, which does not count as a sample.       *)
Poll ==
  /\ stage = "rows"
  /\ LET age  == IF gap > SLEEP THEN 0 ELSE sampleAge + gap
         slow == slowAge + gap >= SLOW
     IN  \E now \in Polled, fc \in {code, 0}, changed \in BOOLEAN :
           /\ IF slow THEN known' = fc /\ logFc' = selectLog(fc)
                      ELSE ~changed /\ UNCHANGED <<known, logFc>>
           /\ slowAge' = IF slow THEN 0 ELSE slowAge + gap
           /\ LET sampled == now # polled \/ age >= SAMPLE
                  written == SleepRows(now)
                             \o (IF changed THEN <<Row(now, 0, logFc')>> ELSE <<>>)
                             \o (IF sampled THEN <<Row(now, 0, logFc')>> ELSE <<>>)
                  before  == [newest EXCEPT !.age = @ + gap]
              IN  /\ newest' = IF written = <<>> THEN before ELSE Last(written)
                  /\ ordered' = \A i, j \in DOMAIN written : j < i =>
                                  written[j].age >= written[i].age
                  /\ sampleAge' = IF sampled THEN 0 ELSE age
           /\ polled' = now
  /\ gap' = 0
  /\ stage' = "sleeping"
  /\ uses' = IF (\A t \in Threads : pc[t] = "out") /\ open = {} /\ refCount = 0
              THEN 0 ELSE uses
  /\ UNCHANGED <<handle, refCount, mcuBorrowed, open, pc, borrowers, crossed>>
  /\ UNCHANGED <<identity, code, faults>>

PowerLoss ==
  /\ stage # "off"
  /\ stage' = "off"
  /\ handle' = 0 /\ refCount' = 0 /\ mcuBorrowed' = FALSE /\ open' = {}
  /\ pc' = [t \in Threads |-> "out"] /\ uses' = 0 /\ borrowers' = {} /\ crossed' = FALSE
  /\ known' = 0 /\ logFc' = 0 /\ polled' = "open" /\ newest' = Row("open", 0, 0)
  /\ gap' = 0 /\ slowAge' = 0 /\ sampleAge' = 0
  /\ UNCHANGED <<identity, code, ordered, faults>>

Next == Boot \/ CodeChanges \/ WakeUp \/ UseMcu \/ Poll \/ PowerLoss

Spec == Init /\ [][Next]_vars

-------------------------------------------------------------------------------
(* "makes row sequence numbers unique across reboots" (main.c:428): no two *)
(* boots number their rows alike, unless boot.txt could not be read or     *)
(* written or power was lost while it was.                                 *)
RowsAreUnique == repeated => damaged

(* After every poll the newest row tells what was polled and is less than  *)
(* a sampling interval old, and the rows of the poll are in the order of   *)
(* their times, a long sleep between two of them: the log has no hole in   *)
(* which the console's state is unknown.                                   *)
RowsTellTheState ==
  stage # "off" => newest.about = polled /\ newest.age < SAMPLE /\ ordered

(* RvtaMcu's property, with the sampler's uses among the others'.          *)
IdleIsFresh == Mcu!IdleIsFresh
===============================================================================
