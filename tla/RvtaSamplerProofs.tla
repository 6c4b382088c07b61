-------------------------- MODULE RvtaSamplerProofs ---------------------------
(***************************************************************************)
(* Proofs about RvtaSampler, for any threads, friend codes, delays between *)
(* polls, boots and faults, and, at the end, about RvtaHook, by which RvtA *)
(* is started, for any kind and number of faults and of changes made to    *)
(* the card between syncs: other tools' overrides stay as they are, a hook *)
(* is found when there is room for one, and only the recorded one is left. *)
(***************************************************************************)
EXTENDS RvtaSampler, RvtaHook, FiniteSetTheorems, SequenceTheorems, TLAPS

-------------------------------------------------------------------------------
(* Boot numbers.  No row has a higher number than boot.txt, as long as     *)
(* boot.txt was always read and written.                                   *)
BInv == /\ bootFile \in Nat /\ damaged \in BOOLEAN /\ repeated \in BOOLEAN
        /\ ~damaged => ~repeated /\ \A n \in used : n \in Nat /\ n <= bootFile

LEMMA BInitial == Init => BInv
<1> SUFFICES ASSUME Init PROVE BInv
  OBVIOUS
<1>1. bootFile = 0 /\ used = {} /\ repeated = FALSE /\ damaged = FALSE
  BY DEF Init
<1> QED
  BY <1>1 DEF BInv

LEMMA BOther == BInv /\ UNCHANGED identity => BInv'
BY DEF BInv, identity

LEMMA BBoot ==
  ASSUME BInv, Boot
  PROVE  BInv'
<1>1. PICK n \in {bootFile, 0} :
        /\ bootCount' = n + 1
        /\ \/ /\ n = bootFile
              /\ bootFile' = Counted(n)
              /\ UNCHANGED <<damaged, faults>>
           \/ /\ Fault
              /\ damaged' = TRUE
              /\ \/ n # bootFile /\ bootFile' = Counted(n)
                 \/ n = bootFile /\ bootFile' \in {bootFile} \union 0 .. n
  BY DEF Boot
<1>2. \/ repeated' = (repeated \/ bootCount' \in used) /\ used' = used \union {bootCount'}
      \/ faults' # faults /\ UNCHANGED <<repeated, used>>
  BY DEF Boot
<1>3. bootFile \in Nat /\ n \in Nat /\ damaged \in BOOLEAN /\ repeated \in BOOLEAN
  BY <1>1 DEF BInv
<1>4. repeated' \in BOOLEAN
  BY <1>2, <1>3
<1>5. CASE n = bootFile /\ bootFile' = Counted(n) /\ UNCHANGED <<damaged, faults>>
  <2>1. bootFile' = bootFile + 1 /\ bootCount' = bootFile + 1 /\ damaged' = damaged
    BY <1>1, <1>5 DEF Counted
  <2>2. used' = used \union {bootFile + 1} /\ repeated' = (repeated \/ bootFile + 1 \in used)
    BY <1>2, <1>5, <2>1
  <2>3. ASSUME ~damaged PROVE ~repeated' /\ \A m \in used' : m \in Nat /\ m <= bootFile'
    <3>1. ~repeated /\ \A m \in used : m \in Nat /\ m <= bootFile
      BY <2>3 DEF BInv
    <3>2. bootFile + 1 \notin used
      BY <1>3, <3>1
    <3>3. \A m \in used' : m \in Nat /\ m <= bootFile'
      BY <1>3, <2>1, <2>2, <3>1
    <3> QED
      BY <2>2, <3>1, <3>2, <3>3
  <2>4. bootFile' \in Nat
    BY <1>3, <2>1
  <2> QED
    BY <1>3, <1>4, <2>1, <2>3, <2>4 DEF BInv
<1>6. CASE damaged' = TRUE /\ (bootFile' = Counted(n) \/ bootFile' \in {bootFile} \union 0 .. n)
  <2>1. bootFile' \in Nat
    BY <1>3, <1>6 DEF Counted
  <2> QED
    BY <1>4, <1>6, <2>1 DEF BInv
<1> QED
  BY <1>1, <1>5, <1>6

LEMMA BInvariance == BInv /\ [Next]_vars => BInv'
<1> SUFFICES ASSUME BInv, [Next]_vars PROVE BInv'
  OBVIOUS
<1>1. Boot \/ UNCHANGED identity
  BY DEF Next, vars, CodeChanges, WakeUp, UseMcu, Poll, PowerLoss
<1> QED
  BY <1>1, BBoot, BOther

(* No two boots number their rows alike, unless boot.txt could not be read *)
(* or written, or power was lost while it was (loadIdentity).              *)
THEOREM NumbersUnique == Spec => []RowsAreUnique
<1>1. BInv => RowsAreUnique
  BY DEF BInv, RowsAreUnique
<1> QED
  BY BInitial, BInvariance, <1>1, PTL DEF Spec

-------------------------------------------------------------------------------
(* Rows.  The newest row is never older than the last sample, which is     *)
(* made when it is due.                                                    *)
Telling == /\ newest = Row(newest.about, newest.age, newest.fc)
           /\ newest.about = polled /\ polled \in Polled
           /\ newest.age \in Nat /\ sampleAge \in Nat /\ gap \in Nat
           /\ newest.age <= sampleAge /\ sampleAge < SAMPLE
           /\ stage = "off" => sampleAge = 0
TInv == Telling /\ ordered = TRUE

LEMMA TInitial == Init => TInv
BY DEF Init, TInv, Telling, Row, Polled, SAMPLE

(* The rows of one poll: none, or in the order of their times and the last *)
(* of them tells what was polled.                                          *)
InOrder(written) == \A i, j \in DOMAIN written : j < i => written[j].age >= written[i].age
Tells(written, now) ==
  \/ written = <<>>
  \/ Last(written).age = 0 /\ Last(written).about = now
     /\ Last(written) = Row(now, 0, Last(written).fc)

LEMMA RowIs ==
  ASSUME NEW about, NEW age, NEW fc
  PROVE  /\ Row(about, age, fc).about = about
         /\ Row(about, age, fc).age = age
         /\ Row(about, age, fc).fc = fc
BY DEF Row

(* Another row of now keeps this.                                          *)
LEMMA OneMore ==
  ASSUME NEW S, \A r \in S : r.age \in Nat,
         NEW now, NEW s \in Seq(S), InOrder(s), Tells(s, now),
         NEW fc, Row(now, 0, fc) \in S,
         NEW more, more = <<>> \/ more = <<Row(now, 0, fc)>>
  PROVE  /\ s \o more \in Seq(S) /\ InOrder(s \o more) /\ Tells(s \o more, now)
         /\ s \o more = <<>> <=> s = <<>> /\ more = <<>>
<1>1. CASE more = <<>>
  <2>1. s \o more = s
    BY <1>1, ConcatEmptySeq
  <2> QED
    BY <1>1, <2>1
<1>2. CASE more = <<Row(now, 0, fc)>>
  <2> DEFINE r == Row(now, 0, fc)
             t == Append(s, r)
  <2>1. r.age = 0 /\ r.about = now /\ r = Row(now, 0, r.fc)
    BY RowIs
  <2>2. r \in S
    OBVIOUS
  <2>3. s \o more = t
    BY <1>2, AppendIsConcat
  <2> HIDE DEF r
  <2>4. /\ t \in Seq(S) /\ t # <<>> /\ Len(t) = Len(s) + 1
        /\ \A i \in 1 .. Len(s) : t[i] = s[i]
        /\ t[Len(s) + 1] = r
    BY <2>2, AppendProperties
  <2> HIDE DEF t
  <2>5. Len(s) \in Nat /\ DOMAIN s = 1 .. Len(s) /\ DOMAIN t = 1 .. Len(t)
    BY <2>4
  <2>6. \A i \in 1 .. Len(s) : s[i].age \in Nat
    BY <2>5
  <2>7. InOrder(t)
    <3> SUFFICES ASSUME NEW i \in DOMAIN t, NEW j \in DOMAIN t, j < i
                 PROVE  t[j].age >= t[i].age
      BY DEF InOrder
    <3>1. j \in 1 .. Len(s) /\ t[j] = s[j]
      BY <2>4, <2>5
    <3>2. CASE i = Len(s) + 1
      BY <2>1, <2>4, <2>6, <3>1, <3>2
    <3>3. CASE i \in 1 .. Len(s)
      BY <2>4, <2>5, <3>1, <3>3 DEF InOrder
    <3> QED
      BY <2>4, <2>5, <3>2, <3>3
  <2>8. Last(t) = r
    BY <2>4 DEF Last
  <2>9. Tells(t, now)
    BY <2>1, <2>8 DEF Tells
  <2>10. more # <<>>
    BY <1>2
  <2> QED
    BY <2>3, <2>4, <2>7, <2>9, <2>10
<1> QED
  BY <1>1, <1>2

(* The two rows of a sleep, or none, and a row of now or none.             *)
SleepPart(written, now) ==
  \/ written = <<>>
  \/ \E about, fc : \E age \in Nat : written = <<Row(about, age, fc), Row(now, 0, fc)>>
NowPart(written, now, fc) == written = <<>> \/ written = <<Row(now, 0, fc)>>

LEMMA PollRows ==
  ASSUME NEW now, NEW fc2,
         NEW A, SleepPart(A, now),
         NEW B, NowPart(B, now, fc2), NEW C, NowPart(C, now, fc2)
  PROVE  /\ InOrder(A \o B \o C) /\ Tells(A \o B \o C, now)
         /\ A \o B \o C = <<>> <=> A = <<>> /\ B = <<>> /\ C = <<>>
<1> PICK before, fc1 : \E g \in Nat :
           A = <<>> \/ A = <<Row(before, g, fc1), Row(now, 0, fc1)>>
  BY DEF SleepPart
<1> PICK g \in Nat : A = <<>> \/ A = <<Row(before, g, fc1), Row(now, 0, fc1)>>
  OBVIOUS
<1> DEFINE a == Row(before, g, fc1)
           b == Row(now, 0, fc1)
           c == Row(now, 0, fc2)
           S == {a, b, c}
<1>1. a.age = g /\ b.age = 0 /\ c.age = 0 /\ b.about = now /\ b = Row(now, 0, b.fc)
  BY RowIs
<1>2. A = <<>> \/ A = <<a, b>>
  OBVIOUS
<1>3. c = Row(now, 0, fc2)
  OBVIOUS
<1> HIDE DEF a, b, c
<1>4. A \in Seq(S) /\ InOrder(A) /\ Tells(A, now)
  <2>1. CASE A = <<>>
    BY <2>1 DEF InOrder, Tells
  <2>2. CASE A = <<a, b>>
    <3>1. A \in Seq(S) /\ DOMAIN A = 1 .. 2 /\ A[1] = a /\ A[2] = b /\ Last(A) = b
      BY <2>2 DEF Last
    <3>2. Tells(A, now)
      BY <1>1, <3>1 DEF Tells
    <3>3. \A i, j \in 1 .. 2 : j < i => i = 2 /\ j = 1
      OBVIOUS
    <3>4. InOrder(A)
      BY <1>1, <3>1, <3>3 DEF InOrder
    <3> QED
      BY <3>1, <3>2, <3>4
  <2> QED
    BY <1>2, <2>1, <2>2
<1>5. \A r \in S : r.age \in Nat
  BY <1>1
<1>6. c \in S
  OBVIOUS
<1> HIDE DEF S
<1> USE DEF NowPart
<1>7. /\ A \o B \in Seq(S) /\ InOrder(A \o B) /\ Tells(A \o B, now)
      /\ A \o B = <<>> <=> A = <<>> /\ B = <<>>
  BY <1>3, <1>4, <1>5, <1>6, OneMore
<1> DEFINE AB == A \o B
<1>8. A \o B \o C = AB \o C
  OBVIOUS
<1>9. AB \in Seq(S) /\ InOrder(AB) /\ Tells(AB, now) /\ (AB = <<>> <=> A = <<>> /\ B = <<>>)
  BY <1>7
<1> HIDE DEF AB
<1>10. Row(now, 0, fc2) \in S
  BY <1>3, <1>6
<1>11. /\ InOrder(AB \o C) /\ Tells(AB \o C, now)
       /\ AB \o C = <<>> <=> AB = <<>> /\ C = <<>>
  BY <1>5, <1>9, <1>10, OneMore
<1> QED
  BY <1>8, <1>9, <1>11

LEMMA TPoll ==
  ASSUME TInv, Poll
  PROVE  TInv'
<1> DEFINE age  == IF gap > SLEEP THEN 0 ELSE sampleAge + gap
           slow == slowAge + gap >= SLOW
<1>1. PICK now \in Polled, fc \in {code, 0}, changed \in BOOLEAN :
        /\ IF slow THEN known' = fc /\ logFc' = selectLog(fc)
                   ELSE ~changed /\ UNCHANGED <<known, logFc>>
        /\ slowAge' = IF slow THEN 0 ELSE slowAge + gap
        /\ LET sampled == now # polled \/ age >= SAMPLE
               written == SleepRows(now)
                          \o (IF changed THEN <<Row(now, 0, logFc')>> ELSE <<>>)
                          \o (IF sampled THEN <<Row(now, 0, logFc')>> ELSE <<>>)
               before  == [newest EXCEPT !.age = @ + gap]
           IN  /\ newest' = IF written = <<>> THEN before ELSE Last(written)
               /\ ordered' = \A i, j \in DOMAIN written : j < i =>
                               written[j].age >= written[i].age
               /\ sampleAge' = IF sampled THEN 0 ELSE age
        /\ polled' = now
  BY DEF Poll
<1>2. gap' = 0 /\ stage' = "sleeping"
  BY DEF Poll
<1> DEFINE sampled == now # polled \/ age >= SAMPLE
           A == SleepRows(now)
           B == IF changed THEN <<Row(now, 0, logFc')>> ELSE <<>>
           C == IF sampled THEN <<Row(now, 0, logFc')>> ELSE <<>>
           written == A \o B \o C
<1>3. newest' = (IF written = <<>> THEN [newest EXCEPT !.age = @ + gap] ELSE Last(written))
      /\ ordered' = InOrder(written)
      /\ sampleAge' = (IF sampled THEN 0 ELSE age) /\ polled' = now
  BY <1>1 DEF InOrder
<1>4. SleepPart(A, now) /\ (A = <<>> => ~(gap > SLEEP))
  BY DEF SleepRows, SleepPart, TInv, Telling
<1>5. NowPart(B, now, logFc') /\ NowPart(C, now, logFc') /\ (C = <<>> => ~sampled)
  BY DEF NowPart
<1>6. /\ gap \in Nat /\ sampleAge \in Nat /\ sampleAge < SAMPLE
      /\ newest.age \in Nat /\ newest.age <= sampleAge /\ newest.about = polled
  BY DEF TInv, Telling
<1>7. age \in Nat /\ (~(gap > SLEEP) => age = sampleAge + gap)
  BY <1>6
<1>8. ~sampled => now = polled /\ age < SAMPLE
  BY <1>7 DEF SAMPLE
<1> HIDE DEF A, B, C, sampled, age
<1>9. /\ InOrder(written) /\ Tells(written, now)
      /\ written = <<>> <=> A = <<>> /\ B = <<>> /\ C = <<>>
  <2>1. /\ InOrder(A \o B \o C) /\ Tells(A \o B \o C, now)
        /\ A \o B \o C = <<>> <=> A = <<>> /\ B = <<>> /\ C = <<>>
    BY <1>4, <1>5, PollRows
  <2> QED
    BY <2>1
<1> HIDE DEF written
<1>10. ordered' = TRUE
  BY <1>3, <1>9 DEF InOrder
<1>11. sampleAge' \in Nat /\ sampleAge' < SAMPLE
  BY <1>3, <1>7, <1>8 DEF SAMPLE
<1>12. /\ newest' = Row(newest'.about, newest'.age, newest'.fc) /\ newest'.about = now
       /\ newest'.age \in Nat /\ newest'.age <= sampleAge'
  <2>1. CASE written # <<>>
    <3>1. newest' = Row(now, 0, newest'.fc) /\ newest'.age = 0 /\ newest'.about = now
      BY <1>3, <1>9, <2>1 DEF Tells
    <3> QED
      BY <1>11, <3>1
  <2>2. CASE written = <<>>
    <3>1. newest' = [newest EXCEPT !.age = @ + gap] /\ now = polled /\ sampleAge' = sampleAge + gap
      BY <1>3, <1>4, <1>5, <1>7, <1>8, <1>9, <2>2
    <3>2. newest' = Row(newest.about, newest.age + gap, newest.fc)
      BY <3>1 DEF TInv, Telling, Row
    <3>3. newest'.about = newest.about /\ newest'.age = newest.age + gap /\ newest'.fc = newest.fc
      BY <3>2, RowIs
    <3>4. newest'.age \in Nat /\ newest'.age <= sampleAge'
      BY <1>6, <3>1, <3>3
    <3> QED
      BY <1>6, <3>1, <3>2, <3>3, <3>4
  <2> QED
    BY <2>1, <2>2
<1> QED
  BY <1>2, <1>3, <1>10, <1>11, <1>12 DEF TInv, Telling

LEMMA TBoot ==
  ASSUME TInv, Boot
  PROVE  TInv'
<1>1. stage = "off" /\ UNCHANGED <<gap, sampleAge, ordered>>
  BY DEF Boot, ages
<1>2. \/ /\ stage' = "sleeping" /\ polled' \in Polled /\ newest' = Row(polled', 0, logFc')
      \/ UNCHANGED <<stage, polled, newest>>
  BY DEF Boot, fields
<1> QED
  BY <1>1, <1>2 DEF TInv, Telling, Row

LEMMA TInvariance == TInv /\ [Next]_vars => TInv'
<1> SUFFICES ASSUME TInv, [Next]_vars PROVE TInv'
  OBVIOUS
<1>1. CASE CodeChanges \/ UNCHANGED vars
  BY <1>1 DEF CodeChanges, vars, fields, ages, rows, TInv, Telling, Row
<1>2. CASE WakeUp
  <2>1. gap' \in Nat /\ stage' = "sampling" /\ UNCHANGED <<polled, sampleAge, newest, ordered>>
    BY <1>2, SamplerAssumption DEF WakeUp, fields, rows
  <2> QED
    BY <2>1 DEF TInv, Telling, Row
<1>3. CASE UseMcu
  <2>1. UNCHANGED <<gap, polled, sampleAge, newest, ordered>>
    BY <1>3 DEF UseMcu, fields, ages, rows
  <2>2. stage' = "rows" \/ stage' = stage
    BY <1>3 DEF UseMcu
  <2> QED
    BY <2>1, <2>2 DEF TInv, Telling, Row
<1>4. CASE PowerLoss
  <2>1. /\ polled' = "open" /\ newest' = Row("open", 0, 0) /\ gap' = 0 /\ sampleAge' = 0
        /\ stage' = "off" /\ UNCHANGED ordered
    BY <1>4 DEF PowerLoss
  <2> QED
    BY <2>1 DEF TInv, Telling, Row, Polled, SAMPLE
<1> QED
  BY <1>1, <1>2, <1>3, <1>4, TPoll, TBoot DEF Next

(* Whatever the delays between polls and however long the console sleeps,  *)
(* the newest row tells what was polled last and is less than a sampling   *)
(* interval old, and rows are in the order of their times (main's loop).   *)
THEOREM LogTellsTheState == Spec => []RowsTellTheState
<1>1. TInv => RowsTellTheState
  BY DEF TInv, Telling, RowsTellTheState, SAMPLE
<1> QED
  BY TInitial, TInvariance, <1>1, PTL DEF Spec

-------------------------------------------------------------------------------
(* The MCU.  libctru counts the threads between mcuHwcInit and mcuHwcExit.  *)
Users == {t \in Threads : pc[t] # "out"}

(* No use that srv refused is under way: every user is counted, one of      *)
(* them at most is asking for the session all share, nothing is borrowed.   *)
Shared ==
  /\ ~mcuBorrowed /\ refCount = Cardinality(Users)
  /\ \A t \in Threads : pc[t] \in {"out", "asked", "in", "exit"}
  /\ \A t, u \in Threads : pc[t] = "asked" /\ pc[u] = "asked" => t = u
  /\ open = IF Users # {} /\ \A t \in Threads : pc[t] # "asked" THEN {handle} ELSE {}

(* srv refused b, and no other thread has come: b borrows a session of      *)
(* another process while it reads.                                          *)
Alone(b) ==
  /\ \A t \in Threads \ {b} : pc[t] = "out"
  /\ pc[b] \in {"steal", "in", "drop"}
  /\ refCount = 0
  /\ open = IF pc[b] = "in" THEN {handle} ELSE {}
  /\ mcuBorrowed <=> pc[b] # "steal"

MTypes == /\ mcuBorrowed \in BOOLEAN /\ crossed \in BOOLEAN /\ borrowers \subseteq Threads
          /\ pc \in [Threads -> {"out", "asked", "steal", "in", "drop", "exit"}]

MInv == /\ MTypes
        /\ ~crossed => \/ borrowers = {} /\ Shared
                       \/ \E b \in Threads : borrowers = {b} /\ Alone(b)

LEMMA MFresh ==
  (/\ handle = 0 /\ refCount = 0 /\ mcuBorrowed = FALSE /\ open = {}
   /\ pc = [t \in Threads |-> "out"] /\ borrowers = {} /\ crossed = FALSE) => MInv
<1> SUFFICES ASSUME refCount = 0, mcuBorrowed = FALSE, open = {}, borrowers = {},
                    pc = [t \in Threads |-> "out"], crossed = FALSE
             PROVE  MInv
  OBVIOUS
<1>1. Users = {} /\ \A t \in Threads : pc[t] = "out"
  BY DEF Users
<1>2. Cardinality(Users) = 0
  BY <1>1, FS_EmptySet
<1> QED
  BY <1>1, <1>2 DEF MInv, MTypes, Shared

(* A thread's step goes to one place, and is crossed if a refused use meets *)
(* another one there.                                                       *)
LEMMA ThreadMoves ==
  ASSUME MTypes, NEW t \in Threads, Mcu!HwcInit(t) \/ McuStep(t)
  PROVE  /\ MTypes' /\ (~crossed' => ~crossed)
         /\ ~crossed' => \A b \in borrowers', u \in Threads : b # u => pc'[u] = "out"
         /\ \E place \in {"out", "asked", "steal", "in", "drop", "exit"} : Mcu!Goto(t, place)
<1>1. PICK place \in {"out", "asked", "steal", "in", "drop", "exit"} : Mcu!Goto(t, place)
  BY DEF McuStep, Mcu!HwcInit, Mcu!HwcGranted, Mcu!HwcRefused, Mcu!Steal, Mcu!StealFails,
         Mcu!CloseBegins, Mcu!DropBorrowed, Mcu!HwcExit
<1>2. mcuBorrowed' \in BOOLEAN
  BY DEF MTypes, McuStep, Mcu!HwcInit, Mcu!HwcGranted, Mcu!HwcRefused, Mcu!Steal,
         Mcu!StealFails, Mcu!CloseBegins, Mcu!DropBorrowed, Mcu!HwcExit
<1>3. pc' \in [Threads -> {"out", "asked", "steal", "in", "drop", "exit"}]
  BY <1>1 DEF MTypes, Mcu!Goto
<1>4. borrowers' \subseteq Threads
  BY <1>1 DEF MTypes, Mcu!Goto
<1>5. /\ crossed' \in BOOLEAN /\ (~crossed' => ~crossed)
      /\ ~crossed' => \A b \in borrowers', u \in Threads : b # u => pc'[u] = "out"
  BY <1>1 DEF MTypes, Mcu!Goto
<1> QED
  BY <1>1, <1>2, <1>3, <1>4, <1>5 DEF MTypes

(* One thread moves. *)
LEMMA UsersMove ==
  ASSUME pc \in [Threads -> {"out", "asked", "steal", "in", "drop", "exit"}],
         NEW t \in Threads, NEW place, pc' = [pc EXCEPT ![t] = place]
  PROVE  /\ pc'[t] = place /\ \A u \in Threads \ {t} : pc'[u] = pc[u]
         /\ Users' = IF place = "out" THEN Users \ {t} ELSE Users \union {t}
         /\ IsFiniteSet(Users) /\ Cardinality(Users) \in Nat
         /\ t \in Users' => Users' # {}
         /\ pc[t] = "out" /\ place # "out" => Cardinality(Users') = Cardinality(Users) + 1
         /\ pc[t] # "out" /\ place = "out" => Cardinality(Users') = Cardinality(Users) - 1
         /\ pc[t] # "out" /\ place # "out" => Users' = Users
<1>1. pc'[t] = place /\ \A u \in Threads \ {t} : pc'[u] = pc[u]
  OBVIOUS
<1>2. Users' = IF place = "out" THEN Users \ {t} ELSE Users \union {t}
  BY <1>1 DEF Users
<1>3. Users \subseteq Threads /\ IsFiniteSet(Threads)
  BY SamplerAssumption DEF Users
<1>4. IsFiniteSet(Users) /\ Cardinality(Users) \in Nat
  BY <1>3, FS_Subset, FS_CardinalityType
<1>5. t \in Users <=> pc[t] # "out"
  BY DEF Users
<1>6. pc[t] = "out" /\ place # "out" => Cardinality(Users') = Cardinality(Users) + 1
  BY <1>2, <1>4, <1>5, FS_AddElement
<1>7. pc[t] # "out" /\ place = "out" => Cardinality(Users') = Cardinality(Users) - 1
  BY <1>2, <1>4, <1>5, FS_RemoveElement
<1>8. pc[t] # "out" /\ place # "out" => Users' = Users
  BY <1>2, <1>5
<1> QED
  BY <1>1, <1>2, <1>4, <1>6, <1>7, <1>8

(* A step of a thread while nothing is borrowed. *)
LEMMA SharedStep ==
  ASSUME MTypes, borrowers = {}, Shared, ~crossed', NEW t \in Threads,
         Mcu!HwcInit(t) \/ McuStep(t)
  PROVE  MInv'
<1> USE DEF Mcu!Goto
<1>0. MTypes' /\ \A b \in borrowers', u \in Threads : b # u => pc'[u] = "out"
  BY ThreadMoves
<1>1. /\ Shared /\ pc \in [Threads -> {"out", "asked", "steal", "in", "drop", "exit"}]
      /\ mcuBorrowed = FALSE /\ borrowers = {}
  BY DEF MTypes, Shared
<1>2. IsFiniteSet(Users) /\ (Cardinality(Users) = 0 <=> Users = {}) /\ Cardinality(Users) \in Nat
  <2>1. Users \subseteq Threads /\ IsFiniteSet(Threads)
    BY SamplerAssumption DEF Users
  <2> QED
    BY <2>1, FS_Subset, FS_CardinalityType, FS_EmptySet
<1>3. IsFiniteSet(Users)' /\ (Cardinality(Users) = 0 <=> Users = {})'
  <2>1. Users' \subseteq Threads /\ IsFiniteSet(Threads)
    BY SamplerAssumption DEF Users
  <2> QED
    BY <2>1, FS_Subset, FS_EmptySet
<1>4. \A u \in Threads : pc[u] # "out" <=> u \in Users
  BY DEF Users
<1>5. CASE Mcu!HwcInit(t)
  <2>1. pc[t] = "out" /\ refCount' = refCount + 1 /\ UNCHANGED <<handle, open>> /\ borrowers' = {}
        /\ (refCount # 0 => mcuBorrowed' = FALSE /\ pc' = [pc EXCEPT ![t] = "in"])
        /\ (refCount = 0 => UNCHANGED mcuBorrowed /\ pc' = [pc EXCEPT ![t] = "asked"])
    BY <1>1, <1>5 DEF Mcu!HwcInit
  <2>2. CASE refCount # 0
    <3>1. /\ pc'[t] = "in" /\ \A u \in Threads \ {t} : pc'[u] = pc[u]
          /\ Users' # {} /\ Cardinality(Users') = Cardinality(Users) + 1
      BY <1>1, <2>1, <2>2, UsersMove
    <3>2. Users # {}
      BY <1>1, <1>2, <2>2 DEF Shared
    <3>3. pc' \in [Threads -> {"out", "asked", "steal", "in", "drop", "exit"}] /\ mcuBorrowed' = FALSE
      BY <1>1, <2>1, <2>2
    <3>4. /\ \A u \in Threads : pc'[u] \in {"out", "asked", "in", "exit"}
          /\ \A u, v \in Threads : pc'[u] = "asked" /\ pc'[v] = "asked" => u = v
          /\ (\A u \in Threads : pc'[u] # "asked") <=> \A u \in Threads : pc[u] # "asked"
      BY <1>1, <2>1, <3>1 DEF Shared
    <3>5. open' = IF Users' # {} /\ \A u \in Threads : pc'[u] # "asked" THEN {handle'} ELSE {}
      BY <1>1, <2>1, <3>1, <3>2, <3>4 DEF Shared
    <3>6. refCount' = Cardinality(Users') /\ borrowers' = {}
      BY <1>1, <2>1, <3>1 DEF Shared
    <3> QED
      BY <1>0, <3>3, <3>4, <3>5, <3>6 DEF MInv, Shared
  <2>3. CASE refCount = 0
    <3>1. /\ pc'[t] = "asked" /\ \A u \in Threads \ {t} : pc'[u] = pc[u]
          /\ Users' # {} /\ Cardinality(Users') = Cardinality(Users) + 1
      BY <1>1, <2>1, <2>3, UsersMove
    <3>2. Users = {} /\ open = {} /\ \A u \in Threads : pc[u] = "out"
      BY <1>1, <1>2, <1>4, <2>3 DEF Shared
    <3>3. pc' \in [Threads -> {"out", "asked", "steal", "in", "drop", "exit"}] /\ mcuBorrowed' = FALSE
      BY <1>1, <2>1, <2>3
    <3>4. /\ \A u \in Threads : pc'[u] \in {"out", "asked", "in", "exit"}
          /\ \A u, v \in Threads : pc'[u] = "asked" /\ pc'[v] = "asked" => u = v
      BY <3>1, <3>2
    <3>5. open' = IF Users' # {} /\ \A u \in Threads : pc'[u] # "asked" THEN {handle'} ELSE {}
      BY <2>1, <3>1, <3>2
    <3>6. refCount' = Cardinality(Users') /\ borrowers' = {}
      BY <1>1, <2>1, <3>1 DEF Shared
    <3> QED
      BY <1>0, <3>3, <3>4, <3>5, <3>6 DEF MInv, Shared
  <2> QED
    BY <2>2, <2>3
<1>6. CASE Mcu!HwcGranted(t)
  <2>1. /\ pc[t] = "asked" /\ open' = open \union {handle'} /\ mcuBorrowed' = FALSE
        /\ pc' = [pc EXCEPT ![t] = "in"] /\ UNCHANGED refCount /\ borrowers' = {}
    BY <1>1, <1>6 DEF Mcu!HwcGranted
  <2>2. /\ pc'[t] = "in" /\ Users' = Users /\ \A u \in Threads \ {t} : pc'[u] = pc[u]
        /\ Users # {}
    BY <1>1, <1>4, <2>1, UsersMove
  <2>3. open = {} /\ \A u \in Threads : pc'[u] # "asked"
    BY <1>1, <2>1, <2>2 DEF Shared
  <2>4. pc' \in [Threads -> {"out", "asked", "steal", "in", "drop", "exit"}]
    BY <1>1, <2>1
  <2>5. /\ refCount' = Cardinality(Users') /\ mcuBorrowed' = FALSE /\ borrowers' = {}
        /\ open' = {handle'} /\ Users' # {}
        /\ \A u \in Threads : pc'[u] \in {"out", "in", "exit"}
    BY <1>1, <2>1, <2>2, <2>3 DEF Shared
  <2>6. Shared'
    BY <2>3, <2>5 DEF Shared
  <2> QED
    BY <1>0, <2>4, <2>5, <2>6 DEF MInv
<1>7. CASE Mcu!CloseBegins(t)
  <2>1. /\ pc[t] = "in" /\ pc' = [pc EXCEPT ![t] = "exit"]
        /\ UNCHANGED <<handle, refCount, mcuBorrowed, open>> /\ borrowers' = {}
    BY <1>1, <1>7 DEF Mcu!CloseBegins
  <2>2. /\ pc'[t] = "exit" /\ Users' = Users /\ \A u \in Threads \ {t} : pc'[u] = pc[u]
    BY <1>1, <2>1, UsersMove
  <2>3. pc' \in [Threads -> {"out", "asked", "steal", "in", "drop", "exit"}]
    BY <1>1, <2>1
  <2>4. /\ refCount' = Cardinality(Users') /\ mcuBorrowed' = FALSE /\ borrowers' = {}
        /\ \A u \in Threads : pc'[u] \in {"out", "asked", "in", "exit"}
    BY <1>1, <2>1, <2>2 DEF Shared
  <2>5. \A u \in Threads : pc'[u] = "asked" <=> pc[u] = "asked"
    BY <2>1, <2>2
  <2>6. open' = IF Users' # {} /\ \A u \in Threads : pc'[u] # "asked" THEN {handle'} ELSE {}
    BY <1>1, <2>1, <2>2, <2>5 DEF Shared
  <2>7. \A u, v \in Threads : pc'[u] = "asked" /\ pc'[v] = "asked" => u = v
    BY <1>1, <2>5 DEF Shared
  <2> QED
    BY <1>0, <2>3, <2>4, <2>6, <2>7 DEF MInv, Shared
<1>8. CASE Mcu!HwcExit(t)
  <2>1. /\ pc[t] = "exit" /\ pc' = [pc EXCEPT ![t] = "out"] /\ refCount' = refCount - 1
        /\ open' = (IF refCount' = 0 THEN open \ {handle} ELSE open)
        /\ UNCHANGED <<handle, mcuBorrowed>> /\ borrowers' = {}
    BY <1>1, <1>8 DEF Mcu!HwcExit
  <2>2. /\ pc'[t] = "out" /\ \A u \in Threads \ {t} : pc'[u] = pc[u]
        /\ Users' = Users \ {t} /\ Cardinality(Users') = Cardinality(Users) - 1
    BY <1>1, <2>1, UsersMove
  <2>3. refCount' = Cardinality(Users') /\ Users # {}
    BY <1>1, <1>2, <1>4, <2>1, <2>2 DEF Shared
  <2>4. open' = IF Users' # {} /\ \A u \in Threads : pc'[u] # "asked" THEN {handle'} ELSE {}
    <3>1. CASE Users' = {}
      <4>1. \A u \in Threads : pc[u] # "asked"
        BY <1>4, <2>1, <2>2, <3>1
      <4> QED
        BY <1>1, <1>3, <2>1, <2>3, <3>1, <4>1 DEF Shared
    <3>2. CASE Users' # {}
      <4>1. refCount' # 0 /\ open' = open
        BY <1>3, <2>1, <2>3, <3>2
      <4>2. (\A u \in Threads : pc'[u] # "asked") <=> \A u \in Threads : pc[u] # "asked"
        BY <2>1, <2>2
      <4> QED
        BY <1>1, <2>1, <2>3, <3>2, <4>1, <4>2 DEF Shared
    <3> QED
      BY <3>1, <3>2
  <2> QED
    BY <1>0, <1>1, <2>1, <2>2, <2>3, <2>4 DEF MInv, Shared
<1>9. CASE Mcu!HwcRefused(t)
  <2>1. /\ pc[t] = "asked" /\ pc' = [pc EXCEPT ![t] = "steal"] /\ refCount' = refCount - 1
        /\ UNCHANGED <<handle, mcuBorrowed, open>> /\ borrowers' = {t}
    BY <1>1, <1>9 DEF Mcu!HwcRefused
  <2>2. /\ pc'[t] = "steal" /\ Users' = Users /\ \A u \in Threads \ {t} : pc'[u] = pc[u]
    BY <1>1, <2>1, UsersMove
  <2>3. \A u \in Threads \ {t} : pc'[u] = "out"
    BY <1>0, <2>1
  <2>4. Users = {t}
    BY <2>1, <2>2, <2>3 DEF Users
  <2>5. refCount = 1
    BY <1>1, <2>4, FS_Singleton DEF Shared
  <2>6. open = {}
    BY <1>1, <2>1 DEF Shared
  <2>7. Alone(t)'
    BY <1>1, <2>1, <2>2, <2>3, <2>5, <2>6 DEF Alone
  <2> QED
    BY <1>0, <2>1, <2>7 DEF MInv
<1>10. ~Mcu!Steal(t) /\ ~Mcu!StealFails(t) /\ ~Mcu!DropBorrowed(t)
  BY <1>1 DEF Shared, Mcu!Steal, Mcu!StealFails, Mcu!DropBorrowed
<1> QED
  BY <1>5, <1>6, <1>7, <1>8, <1>9, <1>10 DEF McuStep

(* A step of a thread while b borrows. *)
LEMMA AloneStep ==
  ASSUME MTypes, NEW b \in Threads, borrowers = {b}, Alone(b), ~crossed', NEW t \in Threads,
         Mcu!HwcInit(t) \/ McuStep(t)
  PROVE  MInv'
<1> USE DEF Mcu!Goto
<1>0. MTypes' /\ \A d \in borrowers', u \in Threads : d # u => pc'[u] = "out"
  BY ThreadMoves
<1>1. /\ pc \in [Threads -> {"out", "asked", "steal", "in", "drop", "exit"}]
      /\ pc[b] \in {"steal", "in", "drop"} /\ refCount = 0
      /\ \A u \in Threads \ {b} : pc[u] = "out"
  BY DEF MTypes, Alone
<1>2. ASSUME pc[t] # "out"
      PROVE  t = b
  BY <1>1, <1>2
<1>3. ~Mcu!HwcInit(t)
  <2> SUFFICES ASSUME Mcu!HwcInit(t) PROVE FALSE
    OBVIOUS
  <2>1. t # b
    BY <1>1 DEF Mcu!HwcInit
  <2>2. \E place \in {"in", "asked"} : pc' = [pc EXCEPT ![t] = place] /\ borrowers' = borrowers
    BY DEF Mcu!HwcInit
  <2>3. b \in borrowers' /\ pc'[t] # "out"
    BY <1>1, <2>2
  <2> QED
    BY <1>0, <2>1, <2>3
<1>4. CASE Mcu!Steal(t)
  <2>1. t = b /\ pc[b] = "steal" /\ open' = open \union {handle'} /\ mcuBorrowed' = TRUE
        /\ pc' = [pc EXCEPT ![b] = "in"] /\ UNCHANGED refCount /\ borrowers' = {b}
    BY <1>2, <1>4 DEF Mcu!Steal
  <2>2. pc'[b] = "in" /\ \A u \in Threads \ {b} : pc'[u] = "out"
    BY <1>1, <2>1
  <2>3. open' = {handle'}
    BY <2>1 DEF Alone
  <2>4. Alone(b)'
    BY <1>1, <2>1, <2>2, <2>3 DEF Alone
  <2> QED
    BY <1>0, <2>1, <2>4 DEF MInv
<1>5. CASE Mcu!StealFails(t) \/ Mcu!DropBorrowed(t)
  <2>1. /\ t = b /\ pc[b] \in {"steal", "drop"} /\ pc' = [pc EXCEPT ![b] = "out"]
        /\ UNCHANGED <<refCount, open>> /\ borrowers' = {}
    BY <1>2, <1>5 DEF Mcu!StealFails, Mcu!DropBorrowed
  <2>2. mcuBorrowed' = FALSE
    BY <1>5, <2>1 DEF Mcu!StealFails, Mcu!DropBorrowed, Alone, MTypes
  <2>3. \A u \in Threads : pc'[u] = "out"
    BY <1>1, <2>1
  <2>4. Users' = {}
    BY <2>3 DEF Users
  <2>5. Cardinality(Users') = 0
    BY <2>4, FS_EmptySet
  <2>6. open' = {}
    BY <2>1 DEF Alone
  <2>7. Shared'
    BY <1>1, <2>1, <2>2, <2>3, <2>4, <2>5, <2>6 DEF Shared
  <2> QED
    BY <1>0, <2>1, <2>7 DEF MInv
<1>6. CASE Mcu!CloseBegins(t)
  <2>1. t = b /\ pc[b] = "in" /\ mcuBorrowed
    BY <1>2, <1>6 DEF Mcu!CloseBegins, Alone
  <2>2. /\ open' = open \ {handle} /\ pc' = [pc EXCEPT ![b] = "drop"] /\ borrowers' = {b}
        /\ UNCHANGED <<refCount, mcuBorrowed>>
    BY <1>6, <2>1 DEF Mcu!CloseBegins
  <2>3. pc'[b] = "drop" /\ \A u \in Threads \ {b} : pc'[u] = "out"
    BY <1>1, <2>2
  <2>4. open' = {}
    BY <2>1, <2>2 DEF Alone
  <2>5. Alone(b)'
    BY <1>1, <2>1, <2>2, <2>3, <2>4 DEF Alone
  <2> QED
    BY <1>0, <2>2, <2>5 DEF MInv
<1>7. ~Mcu!HwcGranted(t) /\ ~Mcu!HwcRefused(t) /\ ~Mcu!HwcExit(t)
  BY <1>1 DEF Mcu!HwcGranted, Mcu!HwcRefused, Mcu!HwcExit
<1> QED
  BY <1>3, <1>4, <1>5, <1>6, <1>7 DEF McuStep

LEMMA MInvariance == MInv /\ [Next]_vars => MInv'
<1> SUFFICES ASSUME MInv, [Next]_vars PROVE MInv'
  OBVIOUS
<1>1. CASE UseMcu
  <2>1. PICK t \in Threads : Mcu!HwcInit(t) \/ McuStep(t)
    BY <1>1 DEF UseMcu
  <2>2. MTypes
    BY DEF MInv
  <2>3. MTypes' /\ (~crossed' => ~crossed)
    BY <2>1, <2>2, ThreadMoves
  <2>4. CASE crossed'
    BY <2>3, <2>4 DEF MInv
  <2>5. CASE ~crossed' /\ borrowers = {} /\ Shared
    BY <2>1, <2>2, <2>5, SharedStep
  <2>6. CASE ~crossed' /\ \E b \in Threads : borrowers = {b} /\ Alone(b)
    BY <2>1, <2>2, <2>6, AloneStep
  <2> QED
    BY <2>3, <2>4, <2>5, <2>6 DEF MInv
<1>2. CASE PowerLoss
  <2>1. /\ refCount' = 0 /\ mcuBorrowed' = FALSE /\ open' = {} /\ borrowers' = {}
        /\ pc' = [t \in Threads |-> "out"] /\ crossed' = FALSE
    BY <1>2 DEF PowerLoss
  <2>2. Users' = {} /\ \A t \in Threads : pc'[t] = "out"
    BY <2>1 DEF Users
  <2>3. Cardinality(Users') = 0
    BY <2>2, FS_EmptySet
  <2> QED
    BY <2>1, <2>2, <2>3 DEF MInv, MTypes, Shared
<1>3. CASE UNCHANGED <<handle, refCount, mcuBorrowed, open, pc, borrowers, crossed>>
  BY <1>3 DEF MInv, MTypes, Alone, Shared, Users
<1> QED
  BY <1>1, <1>2, <1>3 DEF Next, vars, mcu, Boot, CodeChanges, WakeUp, Poll

(* Any number of threads that open, share and close the session in any     *)
(* interleaving, some of them refused by srv and borrowing, leave nothing  *)
(* of their uses, no session and no count, until one that srv refused      *)
(* meets another thread's use (mcuOpen, mcuClose).                         *)
THEOREM NothingLeftOpen == Spec => []IdleIsFresh
<1>1. Init => MInv
  BY MFresh DEF Init, Mcu!Init, Mcu!None
<1>2. MInv => IdleIsFresh
  <2> SUFFICES ASSUME MInv, ~crossed, \A t \in Threads : pc[t] = "out"
               PROVE  open = {} /\ refCount = 0
    BY DEF IdleIsFresh, Mcu!IdleIsFresh
  <2>1. Users = {}
    BY DEF Users
  <2>2. Cardinality(Users) = 0
    BY <2>1, FS_EmptySet
  <2>3. ~ \E b \in Threads : Alone(b)
    BY DEF Alone
  <2> QED
    BY <2>1, <2>2, <2>3 DEF MInv, Shared
<1> QED
  BY MInvariance, <1>1, <1>2, PTL DEF Spec

-------------------------------------------------------------------------------
(* RvtaHook.                                                               *)

(* The types, whatever the bounds are.                                     *)
Types ==
  /\ cxi \in BOOLEAN
  /\ override \in [Candidate -> {"none", "ours", "theirs", "torn"}]
  /\ hook \in Candidate \cup {"none"}
  /\ step \in {"idle", "scan", "replace", "record", "unhook", "forget"}
  /\ tried \in 1 .. Len(kCandidates) + 1
  /\ current \in Candidate \cup {"none"}
  /\ usable \subseteq Candidate /\ free \subseteq Candidate /\ taken \subseteq Candidate
  /\ clean \in BOOLEAN /\ changes \in Nat /\ failures \in Nat

(* Another tool overrides the recorded title only where it did so while    *)
(* the title was recorded; install holds a copy of the recorded title.     *)
Recorded ==
  /\ hook # "none" /\ override[hook] = "theirs" => hook \in taken
  /\ step \in {"scan", "replace", "record"} => current = hook /\ cxi
  /\ step \in {"replace", "record"} =>
       tried \in 1 .. Len(kCandidates) /\ override[kCandidates[tried]] = "ours"

(* While nothing has gone wrong, the overrides of ours are the recorded    *)
(* one and the one just written.                                           *)
Ours ==
  failures = 0 =>
    \A c \in Candidate : override[c] = "ours" =>
      CASE step \in {"idle", "scan", "unhook"} -> c = hook /\ (step = "idle" /\ clean => cxi)
        [] step = "replace" -> c \in {hook, kCandidates[tried]}
        [] step = "record"  -> c = kCandidates[tried]
        [] OTHER          -> FALSE

(* A search that still goes on has passed over no free candidate.          *)
Searched ==
  clean =>
    /\ step = "scan" =>
         /\ free = {c \in usable : override[c] = "none" \/ c = hook}
         /\ \A j \in 1 .. Len(kCandidates) : j < tried => kCandidates[j] \notin free
    /\ step \in {"replace", "record"} => kCandidates[tried] \in free
    /\ step \in {"unhook", "forget"} /\ cxi => free = {}

IInv == Types /\ Recorded /\ Ours /\ Searched /\ HookedIfPossible

-------------------------------------------------------------------------------
LEMMA Candidates ==
  /\ Len(kCandidates) = 3
  /\ \A j \in 1 .. 3 : kCandidates[j] \in Candidate
  /\ \A c \in Candidate : \E j \in 1 .. 3 : kCandidates[j] = c
  /\ "none" \notin Candidate
<1>1. Len(kCandidates) = 3 /\ kCandidates[1] = "news" /\ kCandidates[2] = "cecd"
      /\ kCandidates[3] = "boss"
  BY DEF kCandidates
<1>2. \A j \in 1 .. 3 : j = 1 \/ j = 2 \/ j = 3
  OBVIOUS
<1> QED
  BY <1>1, <1>2 DEF Candidate

LEMMA FaultStep ==
  ASSUME Types, NEW k, HookFault(k)
  PROVE  failures' \in Nat /\ failures' # 0
BY DEF Types, HookFault

(* What rvta-hook.txt may say after it was written. *)
LEMMA Written ==
  ASSUME Types, NEW t \in Candidate \cup {"none"}, WriteHookFile(t)
  PROVE  /\ hook' \in Candidate \cup {"none"} /\ clean' \in BOOLEAN /\ failures' \in Nat
         /\ hook' \in {t, hook, "none"}
         /\ clean' \/ failures' = 0 => hook' = t /\ clean' = clean /\ failures' = failures
<1>1. CASE hook' = t /\ UNCHANGED <<clean, failures>>
  BY <1>1 DEF Types
<1>2. CASE hook' \in {hook, "none"} /\ HookFault("write") /\ clean' = FALSE
  BY <1>2, FaultStep DEF Types
<1> QED
  BY <1>1, <1>2 DEF WriteHookFile

(* What is there after a removal. *)
LEMMA Removed ==
  ASSUME Types, NEW t \in Candidate \cup {"none"}, RemoveOverride(t)
  PROVE  /\ override' \in [Candidate -> {"none", "ours", "theirs", "torn"}]
         /\ clean' \in BOOLEAN /\ failures' \in Nat
         /\ \A c \in Candidate : override'[c] = override[c] \/ (c = t /\ override'[c] = "none")
         /\ clean' => clean
         /\ failures' = 0 => failures = 0 /\ (t # "none" => override'[t] = "none")
<1>1. CASE /\ override' = [c \in Candidate |-> IF c = t THEN "none" ELSE override[c]]
           /\ UNCHANGED <<clean, failures>>
  BY <1>1 DEF Types
<1>2. CASE UNCHANGED override /\ HookFault("write") /\ clean' = FALSE
  BY <1>2, FaultStep DEF Types
<1> QED
  BY <1>1, <1>2 DEF RemoveOverride

-------------------------------------------------------------------------------
(* Between syncs: only others' overrides come and go. *)
Between ==
  \/ RvtaChanges \/ PxiUnavailable \/ SyncBegins
  \/ \E c \in Candidate : OthersChange(c)

LEMMA BetweenStep == IInv /\ Between => IInv'
<1> SUFFICES ASSUME IInv, Between PROVE IInv'
  OBVIOUS
<1> USE DEF IInv
<1>1. CASE RvtaChanges
  <2>0. changes' \in Nat
    BY <1>1 DEF RvtaChanges, Types
  <2>1. cxi' \in BOOLEAN /\ clean' \in BOOLEAN
    BY <1>1 DEF RvtaChanges
  <2>2. Types'
    BY <1>1, <2>0, <2>1 DEF RvtaChanges, Types, proc
  <2> QED
    BY <1>1, <2>2 DEF RvtaChanges, proc, Recorded, Ours, Searched,
       HookedIfPossible
<1>2. CASE PxiUnavailable
  <2>1. Types' /\ failures' # 0
    BY <1>2, FaultStep DEF PxiUnavailable, Types, proc
  <2> QED
    BY <1>2, <2>1 DEF PxiUnavailable, proc, Recorded, Ours, Searched,
       HookedIfPossible
<1>3. CASE SyncBegins
  <2>1. Types'
    BY <1>3, Candidates DEF SyncBegins, Types, card
  <2>2. Recorded' /\ Ours'
    BY <1>3 DEF SyncBegins, card, Recorded, Ours
  <2>3. HookedIfPossible'
    BY <1>3 DEF SyncBegins, HookedIfPossible
  <2>4. Searched'
    <3>1. CASE cxi
      BY <1>3, <3>1, Candidates DEF SyncBegins, card, Searched
    <3>2. CASE ~cxi
      BY <1>3, <3>2 DEF SyncBegins, card, Searched
    <3> QED
      BY <3>1, <3>2
  <2> QED
    BY <2>1, <2>2, <2>3, <2>4
<1>4. ASSUME NEW c \in Candidate, OthersChange(c) PROVE IInv'
  <2>0. changes' \in Nat
    BY <1>4 DEF OthersChange, Types
  <2>1. Types'
    <3>1. override' \in [Candidate -> {"none", "ours", "theirs", "torn"}] /\ taken' \subseteq Candidate
      BY <1>4 DEF OthersChange, Types
    <3> QED
      BY <1>4, <2>0, <3>1 DEF OthersChange, Types, proc
  <2>2. /\ \A d \in Candidate : d # c => override'[d] = override[d]
        /\ override'[c] \in {"none", "theirs"}
        /\ taken' \subseteq Candidate /\ \A d \in Candidate : d # c /\ d \in taken => d \in taken'
        /\ c = hook => c \in taken'
    BY <1>4 DEF OthersChange, Types
  <2>3. step = "idle" /\ UNCHANGED <<cxi, hook, step, failures>> /\ clean' = FALSE
    BY <1>4 DEF OthersChange, proc
  <2> QED
    BY <2>1, <2>2, <2>3 DEF Types, Recorded, Ours, Searched, HookedIfPossible
<1> QED
  BY <1>1, <1>2, <1>3, <1>4 DEF Between

(* The search. *)
Search == Skip \/ WriteOverride \/ WriteFails \/ NoneLeft

LEMMA SearchStep == IInv /\ Search => IInv'
<1> SUFFICES ASSUME IInv, Search PROVE IInv'
  OBVIOUS
<1> USE DEF IInv
<1>0. step = "scan" /\ tried \in 1 .. 4 /\ current = hook /\ cxi
  BY Candidates DEF Search, Skip, WriteOverride, WriteFails,
     NoneLeft, Types, Recorded
<1>1. CASE Skip
  <2>1. Types'
    BY <1>0, <1>1, Candidates DEF Skip, Types, card
  <2>2. Recorded' /\ Ours' /\ HookedIfPossible'
    BY <1>0, <1>1 DEF Skip, card, Recorded, Ours, HookedIfPossible
  <2>3. Searched'
    BY <1>0, <1>1, Candidates DEF Skip, Skipped, card, Searched
  <2> QED
    BY <2>1, <2>2, <2>3
<1>2. CASE WriteOverride
  <2> DEFINE k == kCandidates[tried]
  <2>0. tried \in 1 .. 3 /\ k \in Candidate /\ k \in usable /\ (override[k] = "none" \/ k = hook)
    BY <1>0, <1>2, Candidates DEF WriteOverride, Skipped, Types
  <2>1. Types'
    BY <1>2 DEF WriteOverride, Types
  <2>2. override'[k] = "ours" /\ \A d \in Candidate : d # k => override'[d] = override[d]
    BY <1>2, <2>0 DEF WriteOverride, Types
  <2>3. step' = "replace" /\ UNCHANGED <<cxi, hook, tried, current, usable, free, taken, clean,
                                       failures>>
    BY <1>2 DEF WriteOverride
  <2>4. Recorded'
    BY <1>0, <2>0, <2>2, <2>3, Candidates DEF Recorded, Types
  <2>5. Ours'
    BY <1>0, <2>2, <2>3 DEF Ours
  <2>6. Searched' /\ HookedIfPossible'
    BY <1>0, <2>0, <2>3 DEF Searched, HookedIfPossible
  <2> QED
    BY <2>1, <2>4, <2>5, <2>6
<1>3. CASE WriteFails
  <2> DEFINE k == kCandidates[tried]
  <2>0. tried \in 1 .. 3 /\ k \in Candidate /\ (override[k] = "none" \/ k = hook)
    BY <1>0, <1>3, Candidates DEF WriteFails, Skipped, Types
  <2>1. /\ override' \in [Candidate -> {"none", "ours", "theirs", "torn"}]
        /\ override'[k] \in {override[k], "torn"}
        /\ \A d \in Candidate : d # k => override'[d] = override[d]
    BY <1>3, <2>0 DEF WriteFails, Types
  <2>2. failures' \in Nat /\ failures' # 0
    BY <1>3, FaultStep DEF WriteFails
  <2>3. /\ tried' \in 1 .. 4 /\ clean' = FALSE /\ step' = "scan"
        /\ UNCHANGED <<cxi, hook, current, usable, free, taken, changes>>
    BY <1>0, <1>3, <2>0 DEF WriteFails
  <2>4. Types'
    <3>0. Len(kCandidates) + 1 = 4
      BY Candidates
    <3>1. tried' \in 1 .. Len(kCandidates) + 1 /\ clean' \in BOOLEAN
      BY <2>3, <3>0
    <3>2. step' \in {"idle", "scan", "replace", "record", "unhook", "forget"}
      BY <2>3
    <3>3. /\ cxi' \in BOOLEAN /\ hook' \in Candidate \cup {"none"}
          /\ current' \in Candidate \cup {"none"}
          /\ usable' \subseteq Candidate /\ free' \subseteq Candidate
          /\ taken' \subseteq Candidate /\ changes' \in Nat
      BY <2>3 DEF Types
    <3> QED
      BY <2>1, <2>2, <3>1, <3>2, <3>3 DEF Types
  <2>5. Recorded'
    BY <1>0, <2>1, <2>3 DEF Recorded, Types
  <2> QED
    BY <2>2, <2>3, <2>4, <2>5 DEF Ours, Searched, HookedIfPossible
<1>4. CASE NoneLeft
  <2>1. Types' /\ Recorded' /\ Ours' /\ HookedIfPossible'
    BY <1>0, <1>4 DEF NoneLeft, card, Types, Recorded, Ours,
       HookedIfPossible
  <2>2. clean => free = {}
    <3>1. clean => \A j \in 1 .. 3 : kCandidates[j] \notin free
      BY <1>0, <1>4, Candidates DEF NoneLeft, Searched
    <3> QED
      BY <3>1, Candidates DEF Types
  <2> QED
    BY <1>4, <2>1, <2>2 DEF NoneLeft, Searched
<1> QED
  BY <1>1, <1>2, <1>3, <1>4 DEF Search

(* The replaced override goes, then the new one is recorded. *)
Replacing == RemoveReplaced \/ RecordHook

LEMMA ReplacingStep == IInv /\ Replacing => IInv'
<1> SUFFICES ASSUME IInv, Replacing PROVE IInv'
  OBVIOUS
<1> USE DEF IInv
<1> DEFINE k == kCandidates[tried]
<1>0. /\ step \in {"replace", "record"} /\ tried \in 1 .. 3 /\ k \in Candidate /\ override[k] = "ours"
      /\ current = hook /\ cxi
  BY Candidates DEF Replacing, RemoveReplaced, RecordHook, Recorded
<1>1. CASE RemoveReplaced
  <2>1. /\ override' \in [Candidate -> {"none", "ours", "theirs", "torn"}]
        /\ clean' \in BOOLEAN /\ failures' \in Nat /\ (clean' => clean)
        /\ \A c \in Candidate : override'[c] = override[c]
                               \/ (c = hook /\ c # k /\ override'[c] = "none")
        /\ failures' = 0 => failures = 0 /\ (hook \notin {"none", k} => override'[hook] = "none")
    <3>1. CASE hook = k
      BY <1>0, <1>1, <3>1 DEF RemoveReplaced, Types
    <3>2. CASE hook # k
      <4>1. RemoveOverride(hook)
        BY <1>0, <1>1, <3>2 DEF RemoveReplaced
      <4>2. hook \in Candidate \cup {"none"}
        BY DEF Types
      <4> QED
        BY <3>2, <4>1, <4>2, Removed
    <3> QED
      BY <3>1, <3>2
  <2>2. /\ step = "replace" /\ step' = "record"
        /\ UNCHANGED <<cxi, hook, tried, current, usable, free, taken, changes>>
    BY <1>1 DEF RemoveReplaced
  <2>3. Types'
    BY <2>1, <2>2 DEF Types
  <2>4. Recorded'
    <3>1. override'[k] = "ours"
      BY <1>0, <2>1
    <3>2. hook # "none" /\ override'[hook] = "theirs" => hook \in taken
      BY <2>1 DEF Recorded, Types
    <3> QED
      BY <1>0, <2>2, <3>1, <3>2, Candidates DEF Recorded
  <2>5. Ours'
    BY <2>1, <2>2, Candidates DEF Ours
  <2> QED
    BY <2>1, <2>2, <2>3, <2>4, <2>5 DEF Searched, HookedIfPossible
<1>2. CASE RecordHook
  <2>1. /\ hook' \in Candidate \cup {"none"} /\ clean' \in BOOLEAN /\ failures' \in Nat
        /\ hook' \in {k, hook, "none"}
        /\ clean' \/ failures' = 0 => hook' = k /\ clean' = clean /\ failures' = failures
    BY <1>0, <1>2, Written DEF RecordHook
  <2>2. /\ step = "record" /\ step' = "idle"
        /\ UNCHANGED <<cxi, override, tried, current, usable, free, taken, changes>>
    BY <1>2 DEF RecordHook
  <2>3. Types'
    BY <2>1, <2>2 DEF Types
  <2>4. Recorded'
    BY <1>0, <2>1, <2>2 DEF Recorded
  <2>5. Ours'
    BY <1>0, <2>1, <2>2 DEF Ours
  <2>6. Searched' /\ HookedIfPossible'
    BY <1>0, <2>1, <2>2 DEF Searched, HookedIfPossible
  <2> QED
    BY <2>3, <2>4, <2>5, <2>6
<1> QED
  BY <1>1, <1>2 DEF Replacing

(* removeHook, and what may stop any of these. *)
Unhooking == RemoveHook \/ ForgetHook \/ CutShort

LEMMA UnhookingStep == IInv /\ Unhooking => IInv'
<1> SUFFICES ASSUME IInv, Unhooking PROVE IInv'
  OBVIOUS
<1> USE DEF IInv
<1>1. CASE RemoveHook
  <2>1. /\ override' \in [Candidate -> {"none", "ours", "theirs", "torn"}]
        /\ clean' \in BOOLEAN /\ failures' \in Nat /\ (clean' => clean)
        /\ \A c \in Candidate : override'[c] = override[c] \/ (c = hook /\ override'[c] = "none")
        /\ failures' = 0 => failures = 0 /\ (hook # "none" => override'[hook] = "none")
    <3>1. hook \in Candidate \cup {"none"}
      BY DEF Types
    <3> QED
      BY <1>1, <3>1, Removed DEF RemoveHook
  <2>2. /\ step = "unhook" /\ step' = "forget"
        /\ UNCHANGED <<cxi, hook, tried, current, usable, free, taken, changes>>
    BY <1>1 DEF RemoveHook
  <2>3. Types'
    BY <2>1, <2>2 DEF Types
  <2>4. Ours'
    BY <2>1, <2>2, Candidates DEF Ours
  <2>5. Recorded'
    BY <2>1, <2>2 DEF Recorded, Types
  <2> QED
    BY <2>1, <2>2, <2>3, <2>4, <2>5 DEF Searched, HookedIfPossible
<1>2. CASE ForgetHook
  <2>1. /\ hook' \in Candidate \cup {"none"} /\ clean' \in BOOLEAN /\ failures' \in Nat
        /\ hook' \in {hook, "none"}
        /\ clean' \/ failures' = 0 => hook' = "none" /\ clean' = clean /\ failures' = failures
    BY <1>2, Written DEF ForgetHook
  <2>2. /\ step = "forget" /\ step' = "idle"
        /\ UNCHANGED <<cxi, override, tried, current, usable, free, taken, changes>>
    BY <1>2 DEF ForgetHook
  <2>3. Types'
    BY <2>1, <2>2 DEF Types
  <2> QED
    BY <2>1, <2>2, <2>3 DEF Recorded, Ours, Searched, HookedIfPossible
<1>3. CASE CutShort
  <2>1. failures' \in Nat /\ failures' # 0
    BY <1>3, FaultStep DEF CutShort
  <2> QED
    BY <1>3, <2>1 DEF CutShort, card, Types, Recorded, Ours, Searched,
       HookedIfPossible
<1> QED
  BY <1>1, <1>2, <1>3 DEF Unhooking

LEMMA Invariance == IInv /\ [HookNext]_hookVars => IInv'
<1> SUFFICES ASSUME IInv, [HookNext]_hookVars PROVE IInv'
  OBVIOUS
<1>1. CASE UNCHANGED hookVars
  BY <1>1 DEF hookVars, card, proc, IInv, Types, Recorded, Ours, Searched,
     HookedIfPossible
<1>2. CASE HookNext
  <2>1. Between \/ Search \/ Replacing \/ Unhooking
    BY <1>2 DEF HookNext, Between, Search, Replacing, Unhooking
  <2> QED
    BY <2>1, BetweenStep, SearchStep, ReplacingStep, UnhookingStep
<1> QED
  BY <1>1, <1>2

LEMMA Initial == HookInit => IInv
<1> SUFFICES ASSUME HookInit PROVE IInv
  OBVIOUS
<1>1. 0 \in Nat /\ 0 \in Nat /\ 1 \in 1 .. Len(kCandidates) + 1
  BY Candidates
<1>2. override \in [Candidate -> {"none", "ours", "theirs", "torn"}]
  BY DEF HookInit
<1>3. Types
  BY <1>1, <1>2 DEF HookInit, Types
<1>4. \A c \in Candidate : override[c] # "ours"
  BY DEF HookInit
<1> QED
  BY <1>3, <1>4 DEF HookInit, IInv, Recorded, Ours, Searched, HookedIfPossible

-------------------------------------------------------------------------------
(* sync writes where there was no file or the recorded one, and removes    *)
(* the recorded one only.                                                  *)
LEMMA LeavesOthers ==
  ASSUME IInv, [HookNext]_hookVars, step # "idle", NEW c \in Candidate
  PROVE  \/ override[c] = "theirs" <=> override'[c] = "theirs"
         \/ c = hook /\ c \in taken
<1> USE DEF IInv
<1>1. CASE WriteOverride \/ WriteFails
  <2>1. c = kCandidates[tried] => override[c] = "none" \/ c = hook
    BY <1>1 DEF WriteOverride, WriteFails, Skipped, Recorded
  <2>2. /\ c # kCandidates[tried] => override'[c] = override[c]
        /\ c = kCandidates[tried] => override'[c] \in {"ours", "torn", override[c]}
    BY <1>1 DEF WriteOverride, WriteFails, Types
  <2> QED
    BY <2>1, <2>2, Candidates DEF Recorded
<1>2. CASE RemoveReplaced \/ RemoveHook
  <2>1. \/ UNCHANGED override
        \/ RemoveOverride(hook)
    BY <1>2 DEF RemoveReplaced, RemoveHook, Recorded
  <2>2. override'[c] = override[c] \/ (c = hook /\ override'[c] = "none")
    BY <2>1, Removed DEF Types
  <2> QED
    BY <2>2, Candidates DEF Recorded
<1>3. CASE ~(WriteOverride \/ WriteFails \/ RemoveReplaced \/ RemoveHook)
  BY <1>3 DEF HookNext, RvtaChanges, OthersChange, SyncBegins,
     PxiUnavailable, Skip, RecordHook,
     NoneLeft, ForgetHook, CutShort, hookVars, card
<1> QED
  BY <1>1, <1>2, <1>3

(* No sync touches another tool's override, however earlier ones ended and *)
(* whatever the card looked like, but one put where rvta-hook.txt names a  *)
(* title (RvtaHook.cpp:97-100, 124, 140).                                  *)
THEOREM LeavesOthersAlone == HookSpec => OthersUntouched
<1>1. IInv /\ [HookNext]_hookVars =>
        [step # "idle" =>
           \A c \in Candidate : \/ override[c] = "theirs" <=> override'[c] = "theirs"
                                \/ c = hook /\ c \in taken]_hookVars
  BY LeavesOthers
<1> QED
  BY Initial, Invariance, <1>1, PTL DEF HookSpec, OthersUntouched

(* A sync in which nothing goes wrong hooks RvtA whenever a candidate is   *)
(* usable and not taken, also after any failures of earlier ones.          *)
THEOREM HooksWhenPossible == HookSpec => []HookedIfPossible
<1>1. IInv => HookedIfPossible
  BY DEF IInv
<1> QED
  BY Initial, Invariance, <1>1, PTL DEF HookSpec

(* Until something goes wrong only the recorded override of ours is there, *)
(* and only while RvtA is.                                                 *)
THEOREM OnlyTheRecorded == HookSpec => []NoHookLeftBehind
<1>1. IInv => NoHookLeftBehind
  BY DEF IInv, Ours, NoHookLeftBehind
<1> QED
  BY Initial, Invariance, <1>1, PTL DEF HookSpec
===============================================================================
