---------------------------- MODULE RvtaLogProofs ----------------------------
(***************************************************************************)
(* Theorems about RvtaLog for every set of friend codes and every bound,   *)
(* whether or not reads fail: type correctness, NoRowLost,                 *)
(* DeleteOnlyConfirmed, and that the upload implements LogDelivery.        *)
(***************************************************************************)
EXTENDS RvtaLog, SequenceTheorems, TLAPS

(* A path that does not exist holds nothing, so a rename overwrites nothing. *)
Absent == \A p \in Path : p \notin files => disk[p] = <<>>

(* The log being appended to exists and its row has a number. *)
Open == \A fc \in writing : Csv(fc) \in files /\ rows \in Row

(* Every row the uploader has walked past in the current file is stored. *)
Confirmed ==
  pc \in {"read", "post", "delete"} =>
    /\ off <= Len(disk[Up(cur)])
    /\ RowsOf(disk[Up(cur)], 1 .. off) \subseteq stored

(* A chunk lies within the file; a file is given up at its end or misread. *)
Inside ==
  /\ pc = "post" => off + len <= Len(disk[Up(cur)])
  /\ pc = "delete" => off = Len(disk[Up(cur)]) \/ cur \in misread

(* A row that is a line of its own is in one of the two files of its friend  *)
(* code, or stored.                                                          *)
Home ==
  \A fc \in FC \ misread :
    written[fc] \subseteq RowsIn(Csv(fc)) \cup RowsIn(Up(fc)) \cup stored

(* A row on the card is in a log of the friend code it was appended to. *)
Owned == \A fc \in FC : RowsIn(Csv(fc)) \cup RowsIn(Up(fc)) \subseteq written[fc]

IInv == TypeOK /\ Absent /\ Open /\ Confirmed /\ Inside /\ Home /\ Owned

-------------------------------------------------------------------------------
(* Appending one entry adds it to the rows of a file, unless it is a fragment. *)
LEMMA RowsAppend ==
  ASSUME NEW f \in Seq(0 .. MaxRows), NEW e \in 0 .. MaxRows
  PROVE  RowsOf(Append(f, e), 1 .. Len(Append(f, e)))
           = RowsOf(f, 1 .. Len(f)) \cup ({e} \ {Fragment})
<1>1. Len(Append(f, e)) = Len(f) + 1 /\ Len(f) \in Nat
  OBVIOUS
<1>2. \A i \in 1 .. Len(f) : Append(f, e)[i] = f[i]
  OBVIOUS
<1>3. Append(f, e)[Len(f) + 1] = e
  OBVIOUS
<1>4. 1 .. Len(Append(f, e)) = (1 .. Len(f)) \cup {Len(f) + 1}
  BY <1>1
<1>5. {Append(f, e)[i] : i \in 1 .. Len(Append(f, e))}
        = {f[i] : i \in 1 .. Len(f)} \cup {e}
  BY <1>2, <1>3, <1>4
<1> QED
  BY <1>5 DEF RowsOf

(* The rows of a file's first n + m entries, split after the first n. *)
LEMMA RowsSplit ==
  ASSUME NEW f, NEW n \in Nat, NEW m \in Nat
  PROVE  RowsOf(f, 1 .. n + m) = RowsOf(f, 1 .. n) \cup RowsOf(f, n + 1 .. n + m)
<1>1. 1 .. n + m = (1 .. n) \cup (n + 1 .. n + m)
  OBVIOUS
<1> QED
  BY <1>1 DEF RowsOf

(* An empty file holds no row. *)
LEMMA RowsEmpty == RowsOf(<<>>, 1 .. Len(<<>>)) = {}
BY DEF RowsOf

(* The rows of the entries of a file are rows. *)
LEMMA RowsAreRows ==
  ASSUME TypeOK, NEW p \in Path, NEW S, S \subseteq 1 .. Len(disk[p])
  PROVE  RowsOf(disk[p], S) \subseteq Row /\ RowsOf(disk[p], S) \subseteq RowsIn(p)
<1>1. disk[p] \in Seq(0 .. MaxRows)
  BY DEF TypeOK
<1>2. \A i \in S : disk[p][i] \in 0 .. MaxRows
  <2> SUFFICES ASSUME NEW i \in 1 .. Len(disk[p])
               PROVE  disk[p][i] \in 0 .. MaxRows
    OBVIOUS
  <2> QED
    BY <1>1, ElementOfSeq
<1>3. RowsOf(disk[p], S) \subseteq Row
  BY <1>2, LogAssumption DEF RowsOf, Row, Fragment
<1>4. RowsOf(disk[p], S) \subseteq RowsIn(p)
  BY DEF RowsOf, RowsIn
<1> QED
  BY <1>3, <1>4

(* The two paths of a friend code, and which paths can be equal. *)
LEMMA Paths ==
  /\ \A fc \in FC : Csv(fc) \in Path /\ Up(fc) \in Path
  /\ \A f, g \in FC : Csv(f) # Up(g)
  /\ \A f, g : Csv(f) = Csv(g) => f = g
  /\ \A f, g : Up(f) = Up(g) => f = g
BY DEF Csv, Up, Path

(* Adding a row to what is noted of a friend code. *)
LEMMA NoteStep ==
  ASSUME NEW f \in [FC -> SUBSET Row], NEW fc \in FC, NEW r \in Row
  PROVE  [f EXCEPT ![fc] = @ \cup {r}] \in [FC -> SUBSET Row]
OBVIOUS

LEMMA FaultStep == TypeOK /\ Fault => faults' \in 0 .. MaxFaults
BY LogAssumption DEF TypeOK, Fault

-------------------------------------------------------------------------------
(* What appending does to the rows of a path.  A row becomes a line ... *)
Line(fc) == FinishRow(fc) /\ fc \notin torn

(* ... or not: it is written onto a cut text, or its append fails. *)
NoLine(fc) == (FinishRow(fc) /\ fc \in torn) \/ FailRow(fc)

LEMMA CutStep ==
  ASSUME TypeOK, NEW fc \in FC, CutShort(fc)
  PROVE  /\ disk' \in [Path -> Seq(0 .. MaxRows)] /\ torn' \subseteq FC
         /\ \A p \in Path \ {Csv(fc)} : disk'[p] = disk[p]
         /\ \A p \in Path : RowsIn(p)' = RowsIn(p)
<1>1. Csv(fc) \in Path /\ disk[Csv(fc)] \in Seq(0 .. MaxRows) /\ Fragment \in 0 .. MaxRows
  BY Paths, LogAssumption DEF TypeOK, Fragment
<1>2. Append(disk[Csv(fc)], Fragment) \in Seq(0 .. MaxRows)
  BY <1>1, AppendProperties
<1>3. /\ disk'[Csv(fc)] \in {disk[Csv(fc)], Append(disk[Csv(fc)], Fragment)}
      /\ disk' = [disk EXCEPT ![Csv(fc)] = disk'[Csv(fc)]]
  BY <1>1 DEF CutShort, TypeOK
<1>4. disk' \in [Path -> Seq(0 .. MaxRows)] /\ \A p \in Path \ {Csv(fc)} : disk'[p] = disk[p]
  BY <1>1, <1>2, <1>3 DEF TypeOK
<1>5. RowsOf(disk'[Csv(fc)], 1 .. Len(disk'[Csv(fc)])) = RowsIn(Csv(fc))
  <2>1. CASE disk'[Csv(fc)] = disk[Csv(fc)]
    BY <2>1 DEF RowsIn
  <2>2. CASE disk'[Csv(fc)] = Append(disk[Csv(fc)], Fragment)
    BY <1>1, <2>2, RowsAppend DEF RowsIn
  <2> QED
    BY <1>3, <2>1, <2>2
<1>6. \A p \in Path : RowsIn(p)' = RowsIn(p)
  BY <1>4, <1>5 DEF RowsIn
<1> QED
  BY <1>4, <1>6 DEF CutShort, TypeOK

LEMMA LineStep ==
  ASSUME TypeOK, Open, NEW fc \in FC, Line(fc)
  PROVE  /\ disk' \in [Path -> Seq(0 .. MaxRows)] /\ rows \in Row
         /\ disk' = [disk EXCEPT ![Csv(fc)] = Append(@, rows)]
         /\ \A p \in Path \ {Csv(fc)} : disk'[p] = disk[p] /\ RowsIn(p)' = RowsIn(p)
         /\ RowsIn(Csv(fc))' = RowsIn(Csv(fc)) \cup {rows}
         /\ written' = [written EXCEPT ![fc] = @ \cup {rows}]
         /\ fc \in writing /\ writing' = {}
         /\ UNCHANGED <<torn, glued, cut, files, rows, uploader, stored, misread, faults>>
<1>0. disk[Csv(fc)] \in Seq(0 .. MaxRows) /\ Csv(fc) \in Path
  BY Paths DEF TypeOK
<1>1. rows \in Row /\ rows \in 0 .. MaxRows /\ rows # Fragment
  BY LogAssumption DEF Line, FinishRow, Open, Row, Fragment, TypeOK
<1>2. /\ disk' = [disk EXCEPT ![Csv(fc)] = Append(@, rows)]
      /\ written' = [written EXCEPT ![fc] = @ \cup {rows}]
      /\ fc \in writing /\ writing' = {}
      /\ UNCHANGED <<torn, glued, cut, files, rows, uploader, stored, misread, faults>>
  BY DEF Line, FinishRow, AppendLine, AppendToCut
<1>3. /\ disk'[Csv(fc)] = Append(disk[Csv(fc)], rows)
      /\ \A p \in Path \ {Csv(fc)} : disk'[p] = disk[p]
      /\ disk' \in [Path -> Seq(0 .. MaxRows)]
  BY <1>0, <1>1, <1>2, AppendProperties DEF TypeOK
<1>4. RowsIn(Csv(fc))' = RowsIn(Csv(fc)) \cup {rows}
  BY <1>0, <1>1, <1>3, RowsAppend DEF RowsIn
<1> QED
  BY <1>1, <1>2, <1>3, <1>4 DEF RowsIn

LEMMA NoLineStep ==
  ASSUME TypeOK, Open, NEW fc \in FC, NoLine(fc)
  PROVE  /\ disk' \in [Path -> Seq(0 .. MaxRows)] /\ torn' \subseteq FC
         /\ \A p \in Path \ {Csv(fc)} : disk'[p] = disk[p]
         /\ \A p \in Path : RowsIn(p)' = RowsIn(p)
         /\ fc \in writing /\ writing' = {} /\ rows \in Row
         /\ UNCHANGED <<written, files, rows, uploader, stored, misread>>
<1>1. /\ fc \in writing /\ writing' = {} /\ rows \in Row
      /\ UNCHANGED <<written, files, rows, uploader, stored, misread>>
  BY DEF NoLine, FinishRow, FailRow, AppendLine, AppendToCut, Open
<1>2. CutShort(fc) \/ (disk' = disk /\ torn' \subseteq torn)
  BY DEF NoLine, FinishRow, FailRow, AppendLine, AppendToCut
<1>3. CASE CutShort(fc)
  BY <1>1, <1>3, CutStep
<1>4. CASE disk' = disk /\ torn' \subseteq torn
  BY <1>1, <1>4 DEF RowsIn, TypeOK
<1> QED
  BY <1>2, <1>3, <1>4

(* A power loss only touches the log that is open, and no row in it. *)
LEMMA RebootStep ==
  ASSUME TypeOK, Open, Reboot
  PROVE  /\ disk' \in [Path -> Seq(0 .. MaxRows)] /\ torn' \subseteq FC
         /\ \A p \in Path : disk'[p] = disk[p] \/ \E fc \in writing : p = Csv(fc)
         /\ \A p \in Path : RowsIn(p)' = RowsIn(p)
<1>1. ASSUME NEW fc \in writing, CutShort(fc)
      PROVE  /\ disk' \in [Path -> Seq(0 .. MaxRows)] /\ torn' \subseteq FC
             /\ \A p \in Path \ {Csv(fc)} : disk'[p] = disk[p]
             /\ \A p \in Path : RowsIn(p)' = RowsIn(p)
  <2>1. fc \in FC
    BY <1>1 DEF TypeOK
  <2> QED
    BY <1>1, <2>1, CutStep
<1>2. CASE UNCHANGED <<disk, torn, cut>>
  BY <1>2 DEF RowsIn, TypeOK
<1> QED
  BY <1>1, <1>2 DEF Reboot

LEMMA FinishIsLine == \A fc \in FC : FinishRow(fc) => Line(fc) \/ NoLine(fc)
BY DEF Line, NoLine

-------------------------------------------------------------------------------
(* What a chunk is: a non-empty part of the file after the offset. *)
LEMMA ChunkFits ==
  ASSUME TypeOK, off <= Len(disk[Up(cur)]), ReadChunk
  PROVE  len' \in Nat /\ off + len' <= Len(disk[Up(cur)])
<1>1. Len(disk[Up(cur)]) \in Nat
  BY Paths DEF TypeOK
<1>2. Got \in Nat /\ off + Got <= Len(disk[Up(cur)]) /\ Got > 0
  BY <1>1, LogAssumption DEF Got, ReadChunk, TypeOK
<1> QED
  BY <1>1, <1>2 DEF ReadChunk, ChunkLens, TypeOK

-------------------------------------------------------------------------------
(* Type correctness: rows are numbered within bounds, every file holds only  *)
(* rows and fragments, the server stores only rows.                          *)
LEMMA TypeStep == TypeOK /\ Confirmed /\ Inside /\ Open /\ [Next]_vars => TypeOK'
<1> SUFFICES ASSUME TypeOK, Confirmed, Inside, Open, [Next]_vars
             PROVE  TypeOK'
  OBVIOUS
<1>0. /\ \A p \in Path : Len(disk[p]) \in Nat
      /\ Fault => faults' \in 0 .. MaxFaults
  BY FaultStep DEF TypeOK
<1>1. ASSUME NEW fc \in FC, StartRow(fc)
      PROVE  TypeOK'
  BY <1>1, Paths, LogAssumption DEF StartRow, TypeOK, uploader, ghosts
<1>2. ASSUME NEW fc \in FC, FinishRow(fc)
      PROVE  TypeOK'
  <2>1. /\ disk' \in [Path -> Seq(0 .. MaxRows)] /\ rows \in Row /\ torn' \subseteq FC
        /\ UNCHANGED <<files, rows, uploader, stored, cut, misread, faults>> /\ writing' = {}
    <3>1. UNCHANGED <<files, rows, uploader, stored, cut, misread, faults>> /\ writing' = {}
      BY <1>2 DEF FinishRow
    <3>2. CASE Line(fc)
      BY <3>1, <3>2, LineStep DEF TypeOK
    <3>3. CASE NoLine(fc)
      BY <3>1, <3>3, NoLineStep
    <3> QED
      BY <1>2, <3>2, <3>3, FinishIsLine
  <2>2. written' \in [FC -> SUBSET Row] /\ glued' \in [FC -> SUBSET Row]
    <3>1. written \in [FC -> SUBSET Row] /\ glued \in [FC -> SUBSET Row]
      BY DEF TypeOK
    <3>2. \/ written' = [written EXCEPT ![fc] = @ \cup {rows}] /\ glued' = glued
          \/ glued' = [glued EXCEPT ![fc] = @ \cup {rows}] /\ written' = written
      BY <1>2 DEF FinishRow, AppendLine, AppendToCut
    <3> QED
      BY <2>1, <3>1, <3>2, NoteStep
  <2> QED
    BY <2>1, <2>2 DEF TypeOK, uploader
<1>3. ASSUME NEW fc \in FC, FailRow(fc)
      PROVE  TypeOK'
  <2>1. NoLine(fc)
    BY <1>3 DEF NoLine
  <2>2. cut' \in [FC -> SUBSET Row] /\ glued' = glued /\ Fault
    <3>1. cut \in [FC -> SUBSET Row] /\ rows \in Row
      BY <2>1, NoLineStep DEF TypeOK
    <3>2. cut' = cut \/ cut' = [cut EXCEPT ![fc] = @ \cup {rows}]
      BY <1>3 DEF FailRow, CutShort
    <3> QED
      BY <1>3, <3>1, <3>2, NoteStep DEF FailRow
  <2> QED
    BY <1>0, <2>1, <2>2, NoLineStep DEF TypeOK, uploader
<1>4. CASE StartRound
  BY <1>4, <1>0 DEF StartRound, LogFiles, TypeOK, sd, sampler, ghosts
<1>5. CASE EndRound
  BY <1>5 DEF EndRound, TypeOK, sd, sampler, ghosts
<1>6. ASSUME NEW fc \in FC, TakeUp(fc)
      PROVE  TypeOK'
  BY <1>6 DEF TakeUp, Take, TypeOK, sd, sampler, ghosts
<1>7. ASSUME NEW fc \in FC, TakeCsv(fc)
      PROVE  TypeOK'
  <2>1. disk[Csv(fc)] \in Seq(0 .. MaxRows) /\ <<>> \in Seq(0 .. MaxRows)
    BY Paths DEF TypeOK
  <2>2. disk' \in [Path -> Seq(0 .. MaxRows)]
    BY <1>7, <2>1 DEF TakeCsv, TypeOK
  <2>3. files' \in SUBSET Path
    BY <1>7, Paths DEF TakeCsv, TypeOK
  <2> QED
    BY <1>7, <2>2, <2>3 DEF TakeCsv, Take, TypeOK, sampler, ghosts
<1>8. ASSUME NEW fc \in FC, SkipCsv(fc)
      PROVE  TypeOK'
  BY <1>8, <1>0 DEF SkipCsv, TypeOK, sd, sampler, ghosts
<1>9. CASE ReadChunk
  <2>1. len' \in Nat
    BY <1>9, ChunkFits DEF Confirmed, ReadChunk
  <2> QED
    BY <1>9, <2>1 DEF ReadChunk, TypeOK, sd, sampler, ghosts
<1>10. CASE ReadEnd
  BY <1>10 DEF ReadEnd, TypeOK, sd, sampler, ghosts
<1>11. CASE ReadFail
  BY <1>11, <1>0 DEF ReadFail, TypeOK, sd, sampler
<1>12. ASSUME pc = "post" PROVE Chunk \subseteq Row
  <2>1. off + 1 .. off + len \subseteq 1 .. Len(disk[Up(cur)])
    BY <1>12, <1>0, Paths DEF Inside, TypeOK
  <2> QED
    BY <2>1, RowsAreRows, Paths DEF Chunk, TypeOK
<1>13. CASE PostOk
  BY <1>13, <1>12 DEF PostOk, TypeOK, sd, sampler, ghosts
<1>14. CASE PostFail
  BY <1>14, <1>12, <1>0 DEF PostFail, TypeOK, sd, sampler, ghosts
<1>15. CASE DeleteUp
  <2>1. disk' \in [Path -> Seq(0 .. MaxRows)] /\ files' \in SUBSET Path
    BY <1>15, Paths DEF DeleteUp, TypeOK
  <2> QED
    BY <1>15, <2>1 DEF DeleteUp, TypeOK, sampler, ghosts
<1>16. CASE DeleteFail
  BY <1>16, <1>0 DEF DeleteFail, TypeOK, sd, sampler, ghosts
<1>17. CASE Reboot
  <2>1. cut' \in [FC -> SUBSET Row]
    <3>1. ASSUME NEW fc \in writing, CutShort(fc) PROVE cut' \in [FC -> SUBSET Row]
      BY <3>1 DEF CutShort, Open, TypeOK
    <3> QED
      BY <1>17, <3>1 DEF Reboot, TypeOK
  <2> QED
    BY <1>17, <1>0, <2>1, RebootStep DEF Reboot, TypeOK
<1>18. CASE UNCHANGED vars
  BY <1>18 DEF vars, sd, sampler, uploader, ghosts, TypeOK
<1> QED
  BY <1>1, <1>2, <1>3, <1>4, <1>5, <1>6, <1>7, <1>8, <1>9, <1>10, <1>11,
     <1>13, <1>14, <1>15, <1>16, <1>17, <1>18 DEF Next, Sampler, Uploader

-------------------------------------------------------------------------------
(* Nothing is kept under a path that does not exist. *)
LEMMA AbsentStep == TypeOK /\ Absent /\ Open /\ [Next]_vars => Absent'
<1> SUFFICES ASSUME TypeOK, Absent, Open, [Next]_vars
             PROVE  Absent'
  OBVIOUS
<1>1. ASSUME NEW fc \in FC, StartRow(fc)
      PROVE  Absent'
  BY <1>1 DEF StartRow, Absent
<1>2. ASSUME NEW fc \in FC, FinishRow(fc) \/ FailRow(fc)
      PROVE  Absent'
  <2>1. CASE Line(fc)
    BY <2>1, LineStep DEF Absent, Open
  <2>2. CASE NoLine(fc)
    BY <2>2, NoLineStep DEF Absent, Open
  <2> QED
    BY <1>2, <2>1, <2>2, FinishIsLine DEF NoLine
<1>3. ASSUME NEW fc \in FC, TakeCsv(fc)
      PROVE  Absent'
  BY <1>3, Paths DEF TakeCsv, Absent, TypeOK
<1>4. CASE DeleteUp
  BY <1>4, Paths DEF DeleteUp, Absent, TypeOK
<1>5. CASE UNCHANGED sd
  BY <1>5 DEF sd, Absent
<1>6. CASE Reboot
  BY <1>6, RebootStep DEF Reboot, Absent, Open, TypeOK
<1> QED
  BY <1>1, <1>2, <1>3, <1>4, <1>5, <1>6
  DEF Next, Sampler, Uploader, StartRound, EndRound, TakeUp, SkipCsv, ReadChunk,
      ReadEnd, ReadFail, PostOk, PostFail, DeleteFail, vars

(* The log being appended to is never renamed under the sampler's hands. *)
LEMMA OpenStep == TypeOK /\ Open /\ [Next]_vars => Open'
<1> SUFFICES ASSUME TypeOK, Open, [Next]_vars
             PROVE  Open'
  OBVIOUS
<1>1. ASSUME NEW fc \in FC, StartRow(fc)
      PROVE  Open'
  BY <1>1, LogAssumption DEF StartRow, Open, TypeOK, Row
<1>2. ASSUME NEW fc \in FC, FinishRow(fc) \/ FailRow(fc)
      PROVE  Open'
  BY <1>2 DEF FinishRow, FailRow, Open
<1>3. ASSUME NEW fc \in FC, TakeCsv(fc)
      PROVE  Open'
  BY <1>3, Paths DEF TakeCsv, MayRename, Open, TypeOK, sampler
<1>4. CASE DeleteUp
  BY <1>4, Paths DEF DeleteUp, Open, TypeOK, sampler
<1>5. CASE Reboot
  BY <1>5 DEF Reboot, Open
<1>6. CASE UNCHANGED <<sd, sampler>>
  BY <1>6 DEF sd, sampler, Open
<1> QED
  BY <1>1, <1>2, <1>3, <1>4, <1>5, <1>6
  DEF Next, Sampler, Uploader, StartRound, EndRound, TakeUp, SkipCsv, ReadChunk,
      ReadEnd, ReadFail, PostOk, PostFail, DeleteFail, vars

(* The offset never runs ahead of what the server confirmed. *)
LEMMA ConfirmedStep ==
  TypeOK /\ Open /\ Confirmed /\ Inside /\ [Next]_vars => Confirmed'
<1> SUFFICES ASSUME TypeOK, Open, Confirmed, Inside, [Next]_vars
             PROVE  Confirmed'
  OBVIOUS
<1>0. \A f : RowsOf(f, 1 .. 0) = {}
  BY DEF RowsOf
<1>1. ASSUME NEW fc \in FC, StartRow(fc) \/ FinishRow(fc) \/ FailRow(fc)
      PROVE  Confirmed'
  <2>1. UNCHANGED <<uploader, stored, misread>>
    BY <1>1 DEF StartRow, FinishRow, FailRow, ghosts
  <2>2. CASE StartRow(fc)
    BY <2>1, <2>2 DEF StartRow, Confirmed, uploader, Up
  <2>3. CASE Line(fc)
    BY <2>1, <2>3, LineStep, Paths DEF Confirmed, uploader, Up, TypeOK
  <2>4. CASE NoLine(fc)
    BY <2>1, <2>4, NoLineStep, Paths DEF Confirmed, uploader, Up, TypeOK
  <2> QED
    BY <1>1, <2>2, <2>3, <2>4, FinishIsLine DEF NoLine
<1>2. ASSUME NEW fc \in FC, TakeUp(fc)
      PROVE  Confirmed'
  BY <1>2, <1>0, Paths DEF TakeUp, Take, Confirmed, TypeOK, sd
<1>3. ASSUME NEW fc \in FC, TakeCsv(fc)
      PROVE  Confirmed'
  <2>1. disk'[Up(fc)] = disk[Csv(fc)] /\ Len(disk[Csv(fc)]) \in Nat
    BY <1>3, Paths DEF TakeCsv, TypeOK
  <2> QED
    BY <1>3, <1>0, <2>1 DEF TakeCsv, Take, Confirmed, Up
<1>4. CASE PostOk
  <2>1. off + len <= Len(disk[Up(cur)])
    BY <1>4 DEF PostOk, Inside
  <2>2. RowsOf(disk[Up(cur)], 1 .. off + len) = RowsOf(disk[Up(cur)], 1 .. off) \cup Chunk
    BY RowsSplit DEF Chunk, TypeOK
  <2> QED
    BY <1>4, <2>1, <2>2 DEF PostOk, Confirmed, sd, Up
<1>5. CASE ReadChunk \/ ReadEnd \/ ReadFail
  BY <1>5 DEF ReadChunk, ReadEnd, ReadFail, Confirmed, sd, Up
<1>6. ASSUME pc' \notin {"read", "post", "delete"}
      PROVE  Confirmed'
  BY <1>6 DEF Confirmed
<1>7. CASE UNCHANGED vars
  BY <1>7 DEF vars, sd, uploader, Confirmed, Up
<1>8. ASSUME StartRound \/ EndRound \/ PostFail \/ DeleteUp \/ DeleteFail \/ Reboot
      PROVE  pc' \notin {"read", "post", "delete"}
  BY <1>8 DEF StartRound, EndRound, PostFail, DeleteUp, DeleteFail, Reboot
<1>9. ASSUME NEW fc \in FC, SkipCsv(fc)
      PROVE  pc' \notin {"read", "post", "delete"}
  BY <1>9 DEF SkipCsv
<1> QED
  BY <1>1, <1>2, <1>3, <1>4, <1>5, <1>6, <1>7, <1>8, <1>9 DEF Next, Sampler, Uploader

-------------------------------------------------------------------------------
(* A chunk stays inside its file until it is posted, and a file is deleted   *)
(* at its end or after a failed read only.                                   *)
LEMMA InsideStep ==
  TypeOK /\ Open /\ Confirmed /\ Inside /\ [Next]_vars => Inside'
<1> SUFFICES ASSUME TypeOK, Open, Confirmed, Inside, [Next]_vars
             PROVE  Inside'
  OBVIOUS
<1>1. ASSUME NEW fc \in FC, StartRow(fc) \/ FinishRow(fc) \/ FailRow(fc)
      PROVE  Inside'
  <2>1. UNCHANGED <<uploader, stored, misread>>
    BY <1>1 DEF StartRow, FinishRow, FailRow, ghosts
  <2>2. CASE StartRow(fc)
    BY <2>1, <2>2 DEF StartRow, Inside, uploader, Up
  <2>3. CASE Line(fc)
    BY <2>1, <2>3, LineStep, Paths DEF Inside, uploader, Up, TypeOK
  <2>4. CASE NoLine(fc)
    BY <2>1, <2>4, NoLineStep, Paths DEF Inside, uploader, Up, TypeOK
  <2> QED
    BY <1>1, <2>2, <2>3, <2>4, FinishIsLine DEF NoLine
<1>2. CASE ReadChunk
  <2>1. off + len' <= Len(disk[Up(cur)])
    BY <1>2, ChunkFits DEF Confirmed, ReadChunk
  <2> QED
    BY <1>2, <2>1 DEF ReadChunk, Inside, sd, Up
<1>3. CASE ReadEnd
  <2>1. Len(disk[Up(cur)]) \in Nat /\ off <= Len(disk[Up(cur)])
    BY <1>3, Paths DEF ReadEnd, Confirmed, TypeOK
  <2>2. off = Len(disk[Up(cur)])
    BY <1>3, <2>1, LogAssumption DEF ReadEnd, Got, TypeOK
  <2> QED
    BY <1>3, <2>2 DEF ReadEnd, Inside, sd, Up
<1>4. CASE ReadFail
  BY <1>4 DEF ReadFail, Inside
<1>5. ASSUME pc' \notin {"post", "delete"}
      PROVE  Inside'
  BY <1>5 DEF Inside
<1>6. CASE UNCHANGED vars
  BY <1>6 DEF vars, sd, uploader, ghosts, Inside, Up
<1>7. ASSUME StartRound \/ EndRound \/ PostOk \/ PostFail \/ DeleteUp \/ DeleteFail \/ Reboot
      PROVE  pc' \notin {"post", "delete"}
  BY <1>7 DEF StartRound, EndRound, PostOk, PostFail, DeleteUp, DeleteFail, Reboot
<1>8. ASSUME NEW fc \in FC, TakeUp(fc) \/ TakeCsv(fc) \/ SkipCsv(fc)
      PROVE  pc' \notin {"post", "delete"}
  BY <1>8 DEF TakeUp, TakeCsv, SkipCsv, Take
<1> QED
  BY <1>1, <1>2, <1>3, <1>4, <1>5, <1>6, <1>7, <1>8 DEF Next, Sampler, Uploader

(* What renaming and deleting do to the rows of a path. *)
LEMMA RenameStep ==
  ASSUME TypeOK, Absent, NEW fc \in FC, TakeCsv(fc)
  PROVE  /\ \A p \in Path \ {Csv(fc), Up(fc)} : RowsIn(p)' = RowsIn(p)
         /\ RowsIn(Up(fc))' = RowsIn(Csv(fc))
         /\ RowsIn(Csv(fc))' = {}
         /\ RowsIn(Up(fc)) = {}
<1>1. /\ \A p \in Path \ {Csv(fc), Up(fc)} : disk'[p] = disk[p]
      /\ disk'[Up(fc)] = disk[Csv(fc)]
      /\ disk'[Csv(fc)] = <<>>
      /\ disk[Up(fc)] = <<>>
  BY Paths DEF TakeCsv, MayRename, Absent, TypeOK
<1> QED
  BY <1>1, RowsEmpty DEF RowsIn

LEMMA DeleteStep ==
  ASSUME TypeOK, DeleteUp
  PROVE  /\ \A p \in Path \ {Up(cur)} : RowsIn(p)' = RowsIn(p)
         /\ (RowsOf(disk'[Up(cur)], 1 .. Len(disk'[Up(cur)]))) = {}
<1>1. /\ \A p \in Path \ {Up(cur)} : disk'[p] = disk[p]
      /\ disk'[Up(cur)] = <<>>
  BY Paths DEF DeleteUp, TypeOK
<1> QED
  BY <1>1, RowsEmpty DEF RowsIn

(* No step moves a row anywhere but from .csv to .up to the server. *)
LEMMA HomeStep == IInv /\ [Next]_vars => Home'
<1> SUFFICES ASSUME IInv, [Next]_vars, NEW fc \in FC, fc \notin misread'
             PROVE  (written[fc] \subseteq RowsIn(Csv(fc)) \cup RowsIn(Up(fc)) \cup stored)'
  BY DEF Home
<1> USE DEF IInv
<1>0. /\ Csv(fc) \in Path /\ Up(fc) \in Path /\ Csv(fc) # Up(fc)
      /\ fc \notin misread =>
           written[fc] \subseteq RowsIn(Csv(fc)) \cup RowsIn(Up(fc)) \cup stored
  BY Paths DEF Home
<1>1. ASSUME NEW g \in FC, Line(g)
      PROVE  (written[fc] \subseteq RowsIn(Csv(fc)) \cup RowsIn(Up(fc)) \cup stored)'
  <2>1. misread' = misread /\ stored' = stored /\ RowsIn(Up(fc))' = RowsIn(Up(fc))
    BY <1>0, <1>1, LineStep, Paths
  <2>2. CASE g = fc
    <3>1. written'[fc] = written[fc] \cup {rows}
      BY <1>1, <2>2, LineStep DEF TypeOK
    <3> QED
      BY <1>0, <1>1, <2>1, <2>2, <3>1, LineStep
  <2>3. CASE g # fc
    <3>1. written'[fc] = written[fc] /\ RowsIn(Csv(fc))' = RowsIn(Csv(fc))
      BY <1>0, <1>1, <2>3, LineStep, Paths DEF TypeOK
    <3> QED
      BY <1>0, <2>1, <3>1
  <2> QED
    BY <2>2, <2>3
<1>2. ASSUME NEW g \in FC, NoLine(g)
      PROVE  (written[fc] \subseteq RowsIn(Csv(fc)) \cup RowsIn(Up(fc)) \cup stored)'
  BY <1>0, <1>2, NoLineStep
<1>3. ASSUME NEW g \in FC, TakeCsv(g)
      PROVE  (written[fc] \subseteq RowsIn(Csv(fc)) \cup RowsIn(Up(fc)) \cup stored)'
  <2>1. misread' = misread /\ stored' = stored /\ written' = written
    BY <1>3 DEF TakeCsv, ghosts
  <2>2. CASE g = fc
    BY <1>0, <1>3, <2>1, <2>2, RenameStep
  <2>3. CASE g # fc
    <3>1. RowsIn(Up(fc))' = RowsIn(Up(fc)) /\ RowsIn(Csv(fc))' = RowsIn(Csv(fc))
      BY <1>0, <1>3, <2>3, RenameStep, Paths
    <3> QED
      BY <1>0, <2>1, <3>1
  <2> QED
    BY <2>2, <2>3
<1>4. CASE DeleteUp
  <2>1. misread' = misread /\ stored' = stored /\ written' = written
    BY <1>4 DEF DeleteUp, ghosts
  <2>2. RowsIn(Csv(fc))' = RowsIn(Csv(fc))
    BY <1>0, <1>4, DeleteStep, Paths DEF TypeOK
  <2>3. CASE cur = fc
    <3>1. off = Len(disk[Up(fc)])
      BY <1>4, <2>1, <2>3 DEF DeleteUp, Inside
    <3>2. RowsIn(Up(fc)) \subseteq stored
      BY <1>4, <2>3, <3>1 DEF DeleteUp, Confirmed, RowsIn
    <3> QED
      BY <1>0, <2>1, <2>2, <3>2
  <2>4. CASE cur # fc
    <3>1. RowsIn(Up(fc))' = RowsIn(Up(fc))
      BY <1>0, <1>4, <2>4, DeleteStep, Paths DEF TypeOK
    <3> QED
      BY <1>0, <2>1, <2>2, <3>1
  <2> QED
    BY <2>3, <2>4
<1>5. ASSUME UNCHANGED <<disk, written>>, stored \subseteq stored', misread \subseteq misread'
      PROVE  (written[fc] \subseteq RowsIn(Csv(fc)) \cup RowsIn(Up(fc)) \cup stored)'
  BY <1>0, <1>5 DEF RowsIn
<1>6. ASSUME NEW g \in FC, StartRow(g) \/ TakeUp(g) \/ SkipCsv(g)
      PROVE  UNCHANGED <<disk, written>> /\ stored \subseteq stored' /\ misread \subseteq misread'
  BY <1>6 DEF StartRow, TakeUp, SkipCsv, sd, ghosts
<1>7. ASSUME \/ StartRound \/ EndRound \/ ReadChunk \/ ReadEnd \/ ReadFail \/ PostOk
             \/ PostFail \/ DeleteFail \/ UNCHANGED vars
      PROVE  UNCHANGED <<disk, written>> /\ stored \subseteq stored' /\ misread \subseteq misread'
  BY <1>7 DEF StartRound, EndRound, ReadChunk, ReadEnd, ReadFail, PostOk, PostFail,
              DeleteFail, vars, sd, ghosts
<1>8. CASE Reboot
  BY <1>0, <1>8, RebootStep DEF Reboot
<1> QED
  BY <1>1, <1>2, <1>3, <1>4, <1>5, <1>6, <1>7, <1>8, FinishIsLine DEF Next, Sampler, Uploader, NoLine

(* No step puts a row into a log of another friend code. *)
LEMMA OwnedStep == IInv /\ [Next]_vars => Owned'
<1> SUFFICES ASSUME IInv, [Next]_vars, NEW fc \in FC
             PROVE  (RowsIn(Csv(fc)) \cup RowsIn(Up(fc)) \subseteq written[fc])'
  BY DEF Owned
<1> USE DEF IInv
<1>0. /\ Csv(fc) \in Path /\ Up(fc) \in Path /\ Csv(fc) # Up(fc)
      /\ RowsIn(Csv(fc)) \cup RowsIn(Up(fc)) \subseteq written[fc]
  BY Paths DEF Owned
<1>1. ASSUME NEW g \in FC, Line(g)
      PROVE  (RowsIn(Csv(fc)) \cup RowsIn(Up(fc)) \subseteq written[fc])'
  <2>1. RowsIn(Up(fc))' = RowsIn(Up(fc))
    BY <1>0, <1>1, LineStep, Paths
  <2>2. CASE g = fc
    <3>1. written'[fc] = written[fc] \cup {rows}
      BY <1>1, <2>2, LineStep DEF TypeOK
    <3> QED
      BY <1>0, <1>1, <2>1, <2>2, <3>1, LineStep
  <2>3. CASE g # fc
    <3>1. written'[fc] = written[fc] /\ RowsIn(Csv(fc))' = RowsIn(Csv(fc))
      BY <1>0, <1>1, <2>3, LineStep, Paths DEF TypeOK
    <3> QED
      BY <1>0, <2>1, <3>1
  <2> QED
    BY <2>2, <2>3
<1>2. ASSUME NEW g \in FC, NoLine(g)
      PROVE  (RowsIn(Csv(fc)) \cup RowsIn(Up(fc)) \subseteq written[fc])'
  BY <1>0, <1>2, NoLineStep
<1>3. ASSUME NEW g \in FC, TakeCsv(g)
      PROVE  (RowsIn(Csv(fc)) \cup RowsIn(Up(fc)) \subseteq written[fc])'
  <2>1. written' = written
    BY <1>3 DEF TakeCsv, ghosts
  <2>2. CASE g = fc
    BY <1>0, <1>3, <2>1, <2>2, RenameStep
  <2>3. CASE g # fc
    <3>1. RowsIn(Up(fc))' = RowsIn(Up(fc)) /\ RowsIn(Csv(fc))' = RowsIn(Csv(fc))
      BY <1>0, <1>3, <2>3, RenameStep, Paths
    <3> QED
      BY <1>0, <2>1, <3>1
  <2> QED
    BY <2>2, <2>3
<1>4. CASE DeleteUp
  <2>1. written' = written
    BY <1>4 DEF DeleteUp, ghosts
  <2>2. RowsIn(Csv(fc))' = RowsIn(Csv(fc))
    BY <1>0, <1>4, DeleteStep, Paths DEF TypeOK
  <2>3. CASE cur = fc
    <3>1. RowsIn(Up(fc))' = {}
      BY <1>4, <2>3, DeleteStep DEF RowsIn, DeleteUp
    <3> QED
      BY <1>0, <2>1, <2>2, <3>1
  <2>4. CASE cur # fc
    <3>1. RowsIn(Up(fc))' = RowsIn(Up(fc))
      BY <1>0, <1>4, <2>4, DeleteStep, Paths DEF TypeOK
    <3> QED
      BY <1>0, <2>1, <2>2, <3>1
  <2> QED
    BY <2>3, <2>4
<1>5. ASSUME UNCHANGED <<disk, written>>
      PROVE  (RowsIn(Csv(fc)) \cup RowsIn(Up(fc)) \subseteq written[fc])'
  BY <1>0, <1>5 DEF RowsIn
<1>6. ASSUME NEW g \in FC, StartRow(g) \/ TakeUp(g) \/ SkipCsv(g)
      PROVE  UNCHANGED <<disk, written>>
  BY <1>6 DEF StartRow, TakeUp, SkipCsv, sd, ghosts
<1>7. ASSUME \/ StartRound \/ EndRound \/ ReadChunk \/ ReadEnd \/ ReadFail \/ PostOk
             \/ PostFail \/ DeleteFail \/ UNCHANGED vars
      PROVE  UNCHANGED <<disk, written>>
  BY <1>7 DEF StartRound, EndRound, ReadChunk, ReadEnd, ReadFail, PostOk, PostFail,
              DeleteFail, vars, sd, ghosts
<1>8. CASE Reboot
  BY <1>0, <1>8, RebootStep DEF Reboot
<1> QED
  BY <1>1, <1>2, <1>3, <1>4, <1>5, <1>6, <1>7, <1>8, FinishIsLine DEF Next, Sampler, Uploader, NoLine

-------------------------------------------------------------------------------
LEMMA InitIInv == Init => IInv
<1> SUFFICES ASSUME Init PROVE IInv
  OBVIOUS
<1>1. TypeOK
  BY LogAssumption DEF Init, TypeOK
<1>2. Absent /\ Open /\ Confirmed /\ Inside /\ Home
  BY DEF Init, Absent, Open, Confirmed, Inside, Home
<1>3. Owned
  <2> SUFFICES ASSUME Init, NEW fc \in FC
               PROVE  RowsIn(Csv(fc)) = {} /\ RowsIn(Up(fc)) = {}
    BY DEF Owned
  <2>1. disk[Csv(fc)] = <<>> /\ disk[Up(fc)] = <<>>
    BY Paths DEF Init
  <2> QED
    BY <2>1, RowsEmpty DEF RowsIn
<1> QED
  BY <1>1, <1>2, <1>3 DEF IInv

LEMMA NextIInv == IInv /\ [Next]_vars => IInv'
BY TypeStep, AbsentStep, OpenStep, ConfirmedStep, InsideStep, HomeStep, OwnedStep DEF IInv

(* The inductive invariant holds throughout every behaviour. *)
THEOREM Invariance == Spec => []IInv
BY InitIInv, NextIInv, PTL DEF Spec

(* Numbers, names, offsets and the server's rows keep their types, for any  *)
(* number of rows, friend codes and faults.                                 *)
THEOREM TypeCorrect == Spec => []TypeOK
<1>1. IInv => TypeOK
  BY DEF IInv
<1> QED
  BY <1>1, Invariance, PTL

-------------------------------------------------------------------------------
(* What cut lines cost.  Row numbers only grow, and the one being appended   *)
(* is new.                                                                   *)
Counted ==
  \A fc \in FC : \A r \in Appended(fc) \cup cut[fc] :
    r \in Row /\ r <= rows /\ (writing # {} => r < rows)

(* A log that ends in a cut line got no row since.                           *)
CutLast == \A fc \in torn : \E t \in cut[fc] : \A s \in Appended(fc) : s < t

(* Each row written onto a cut text is the first one after a cut.            *)
Charged ==
  \A fc \in FC : \A r \in glued[fc] :
    \E t \in cut[fc] : t < r /\ \A s \in Appended(fc) : t < s => r <= s

CInv == Counted /\ CutLast /\ Charged

LEMMA CutKept ==
  ASSUME CInv, UNCHANGED <<rows, written, glued, cut>>, torn' \subseteq torn,
         writing' \subseteq writing
  PROVE  CInv'
BY DEF CInv, Counted, CutLast, Charged, Appended

(* A cut: the row has the highest number so far. *)
LEMMA CutCut ==
  ASSUME IInv, CInv, NEW fc \in FC, fc \in writing, CutShort(fc), writing' = {},
         UNCHANGED <<rows, written, glued>>
  PROVE  CInv'
<1>1. /\ rows \in Row /\ torn \subseteq FC /\ torn' = torn \cup {fc}
      /\ cut'[fc] = cut[fc] \cup {rows} /\ \A g \in FC \ {fc} : cut'[g] = cut[g]
  BY DEF IInv, Open, CutShort, TypeOK
<1>2. \A g \in FC : Appended(g)' = Appended(g)
  BY DEF Appended
<1>3. \A s \in Appended(fc) : s < rows
  BY DEF CInv, Counted
<1>4. Counted'
  BY <1>1, <1>2 DEF CInv, Counted, Row
<1>5. CutLast'
  BY <1>1, <1>2, <1>3 DEF CInv, CutLast
<1>6. Charged'
  BY <1>1, <1>2 DEF CInv, Charged
<1> QED
  BY <1>4, <1>5, <1>6 DEF CInv

(* A row becomes a line of its own: it is later than every other. *)
LEMMA CutLine ==
  ASSUME IInv, CInv, NEW fc \in FC, Line(fc)
  PROVE  CInv'
<1>1. /\ rows \in Row /\ torn \subseteq FC /\ torn' = torn /\ fc \notin torn
      /\ glued' = glued /\ cut' = cut /\ rows' = rows /\ writing # {} /\ writing' = {}
      /\ written'[fc] = written[fc] \cup {rows} /\ \A g \in FC \ {fc} : written'[g] = written[g]
  BY LineStep DEF IInv, TypeOK, Line
<1>2. /\ Appended(fc)' = Appended(fc) \cup {rows}
      /\ \A g \in FC \ {fc} : Appended(g)' = Appended(g)
  BY <1>1 DEF Appended
<1>3. \A s \in Appended(fc) : s < rows /\ s \in Row
  BY <1>1 DEF CInv, Counted
<1>4. Counted'
  BY <1>1, <1>2 DEF CInv, Counted, Row
<1>5. CutLast'
  BY <1>1, <1>2 DEF CInv, CutLast
<1>6. Charged'
  <2> SUFFICES ASSUME NEW g \in FC, NEW r \in glued[g]
               PROVE  \E t \in cut[g] : t < r /\ \A s \in Appended(g)' : t < s => r <= s
    BY <1>1 DEF Charged
  <2>1. PICK t \in cut[g] : t < r /\ \A s \in Appended(g) : t < s => r <= s
    BY DEF CInv, Charged
  <2>2. g = fc => r <= rows
    BY DEF CInv, Counted, Appended
  <2>3. \A s \in Appended(g)' : t < s => r <= s
    BY <1>2, <2>1, <2>2
  <2> QED
    BY <2>1, <2>3
<1> QED
  BY <1>4, <1>5, <1>6 DEF CInv

(* A row is written onto a cut text: it is the first one after that cut. *)
LEMMA CutAppend ==
  ASSUME IInv, CInv, NEW fc \in FC, FinishRow(fc), AppendToCut(fc)
  PROVE  CInv'
<1>1. /\ rows \in Row /\ torn \subseteq FC /\ torn' = torn \ {fc} /\ fc \in torn
      /\ written' = written /\ cut' = cut /\ rows' = rows /\ writing # {} /\ writing' = {}
      /\ glued'[fc] = glued[fc] \cup {rows} /\ \A g \in FC \ {fc} : glued'[g] = glued[g]
  BY DEF IInv, Open, FinishRow, AppendToCut, TypeOK
<1>2. /\ Appended(fc)' = Appended(fc) \cup {rows}
      /\ \A g \in FC \ {fc} : Appended(g)' = Appended(g)
  BY <1>1 DEF Appended
<1>3. \A s \in Appended(fc) \cup cut[fc] : s < rows /\ s \in Row
  BY <1>1 DEF CInv, Counted
<1>4. Counted'
  BY <1>1, <1>2 DEF CInv, Counted, Row
<1>5. CutLast'
  BY <1>1, <1>2 DEF CInv, CutLast
<1>6. Charged'
  <2> SUFFICES ASSUME NEW g \in FC, NEW r \in glued'[g]
               PROVE  \E t \in cut[g] : t < r /\ \A s \in Appended(g)' : t < s => r <= s
    BY <1>1 DEF Charged
  <2>1. CASE r \in glued[g]
    <3>1. PICK t \in cut[g] : t < r /\ \A s \in Appended(g) : t < s => r <= s
      BY <2>1 DEF CInv, Charged
    <3>2. g = fc => r <= rows
      BY <2>1 DEF CInv, Counted, Appended
    <3>3. \A s \in Appended(g)' : t < s => r <= s
      BY <1>2, <3>1, <3>2
    <3> QED
      BY <3>1, <3>3
  <2>2. CASE r \notin glued[g]
    <3>1. g = fc /\ r = rows
      BY <1>1, <2>2
    <3>2. PICK t \in cut[fc] : \A s \in Appended(fc) : s < t
      BY <1>1 DEF CInv, CutLast
    <3>3. t < rows /\ t \in Row /\ rows \in Row
      BY <1>1, <1>3, <3>2
    <3>4. \A s \in Appended(fc)' : t < s => rows <= s
      BY <1>2, <1>3, <3>2, <3>3 DEF Row
    <3> QED
      BY <3>1, <3>2, <3>3, <3>4
  <2> QED
    BY <2>1, <2>2
<1> QED
  BY <1>4, <1>5, <1>6 DEF CInv

LEMMA CutsStep == IInv /\ CInv /\ [Next]_vars => CInv'
<1> SUFFICES ASSUME IInv, CInv, [Next]_vars PROVE CInv'
  OBVIOUS
<1>1. ASSUME NEW fc \in FC, StartRow(fc) PROVE CInv'
  <2>1. /\ rows \in Nat /\ rows' = rows + 1 /\ rows < MaxRows
        /\ UNCHANGED <<torn, written, glued, cut>>
    BY <1>1 DEF StartRow, ghosts, IInv, TypeOK
  <2> QED
    BY <2>1, LogAssumption DEF CInv, Counted, CutLast, Charged, Appended, Row
<1>2. ASSUME NEW fc \in FC, FinishRow(fc) PROVE CInv'
  BY <1>2, CutLine, CutAppend DEF FinishRow, Line, AppendLine
<1>3. ASSUME NEW fc \in FC, FailRow(fc) PROVE CInv'
  BY <1>3, CutCut, CutKept DEF FailRow
<1>4. CASE Reboot
  <2>1. UNCHANGED <<rows, written, glued>> /\ writing' = {}
    BY <1>4 DEF Reboot
  <2>2. ASSUME NEW fc \in writing, CutShort(fc) PROVE CInv'
    BY <2>1, <2>2, CutCut DEF IInv, TypeOK
  <2> QED
    BY <1>4, <2>1, <2>2, CutKept DEF Reboot
<1>5. ASSUME NEW fc \in FC, TakeUp(fc) \/ TakeCsv(fc) \/ SkipCsv(fc) PROVE CInv'
  BY <1>5, CutKept DEF TakeUp, TakeCsv, SkipCsv, sd, sampler, ghosts
<1>6. CASE \/ StartRound \/ EndRound \/ ReadChunk \/ ReadEnd \/ ReadFail \/ PostOk
           \/ PostFail \/ DeleteUp \/ DeleteFail \/ UNCHANGED vars
  BY <1>6, CutKept DEF StartRound, EndRound, ReadChunk, ReadEnd, ReadFail, PostOk, PostFail,
     DeleteUp, DeleteFail, vars, sd, sampler, ghosts
<1> QED
  BY <1>1, <1>2, <1>3, <1>4, <1>5, <1>6 DEF Next, Sampler, Uploader

(* No row that became a line of its own is ever lost, unless its own log was *)
(* misread, and a cut line costs one more row at most: main.c:5-6 for any    *)
(* number of logs, rows, rounds, faults and power losses.                    *)
THEOREM RowsKept == Spec => []NoRowLost
<1>1. Init => CInv
  BY DEF Init, CInv, Counted, CutLast, Charged, Appended
<1>2. IInv /\ CInv => NoRowLost
  <2> SUFFICES ASSUME IInv, CInv, NEW fc \in FC, fc \notin misread
               PROVE  written[fc] \subseteq OnSd \cup stored
    BY DEF NoRowLost, CInv, Charged
  <2> QED
    BY Paths DEF IInv, Home, OnSd
<1> QED
  BY <1>1, <1>2, CutsStep, Invariance, PTL DEF Spec

-------------------------------------------------------------------------------

(* "deletes it once every chunk was confirmed" (main.c:785), for every log  *)
(* that could always be read.                                               *)
THEOREM ConfirmedBeforeDelete == Spec => []DeleteOnlyConfirmed
<1>1. IInv => DeleteOnlyConfirmed
  BY DEF IInv, Confirmed, Inside, DeleteOnlyConfirmed, RowsIn
<1> QED
  BY <1>1, Invariance, PTL

-------------------------------------------------------------------------------
(* Every step of the upload is a step of LogDelivery, or changes nothing it  *)
(* can see.                                                                  *)
LEMMA RefinementStep == IInv /\ [Next]_vars => [Delivery!Next]_(Delivery!vars)
<1> DEFINE Rest == OnSd' = OnSd /\ stored' = stored /\ Unreadable' = Unreadable
<1> SUFFICES ASSUME IInv, [Next]_vars
             PROVE  Delivery!Next \/ (Rest /\ torn' = torn /\ Glued' = Glued)
  BY DEF Delivery!vars
<1> USE DEF IInv
<1>0. /\ UNCHANGED <<written, misread>> => Unreadable' = Unreadable
      /\ UNCHANGED glued => Glued' = Glued
  BY DEF Unreadable, Glued
<1>1. ASSUME NEW fc \in FC, Line(fc)
      PROVE  \E r \in Row : Delivery!Record(r)
  <2>1. /\ rows \in Row /\ RowsIn(Csv(fc))' = RowsIn(Csv(fc)) \cup {rows} /\ Csv(fc) \in Path
        /\ \A p \in Path \ {Csv(fc)} : RowsIn(p)' = RowsIn(p)
        /\ torn' = torn /\ Glued' = Glued /\ stored' = stored
    BY <1>0, <1>1, LineStep, Paths
  <2>2. OnSd' = OnSd \cup {rows}
    BY <2>1 DEF OnSd
  <2>3. /\ misread' = misread /\ misread \subseteq FC
        /\ written'[fc] = written[fc] \cup {rows}
        /\ \A g \in FC \ {fc} : written'[g] = written[g]
    BY <1>1, LineStep DEF TypeOK
  <2>4. Unreadable' \in {Unreadable, Unreadable \cup {rows}}
    <3>1. CASE fc \in misread
      BY <2>3, <3>1 DEF Unreadable
    <3>2. CASE fc \notin misread
      BY <2>3, <3>2 DEF Unreadable
    <3> QED
      BY <3>1, <3>2
  <2> QED
    BY <2>1, <2>2, <2>4 DEF Delivery!Record
<1>2. ASSUME NEW fc \in FC, NoLine(fc)
      PROVE  Delivery!Next \/ (Rest /\ torn' = torn /\ Glued' = Glued)
  <2>1. Rest /\ rows \in Row
    BY <1>0, <1>2, NoLineStep DEF OnSd
  <2>2. CASE AppendToCut(fc)
    <3>1. Glued' = Glued \cup {rows}
      <4>1. glued'[fc] = glued[fc] \cup {rows} /\ \A g \in FC \ {fc} : glued'[g] = glued[g]
        BY <2>2 DEF AppendToCut, TypeOK
      <4> QED
        BY <4>1 DEF Glued
    <3>2. Delivery!Spoil(rows)
      BY <2>1, <2>2, <3>1 DEF Delivery!Spoil, AppendToCut
    <3> QED
      BY <2>1, <3>2 DEF Delivery!Next
  <2>3. CASE FailRow(fc)
    <3>1. Glued' = Glued /\ torn' \in {torn, torn \cup {fc}}
      BY <1>0, <2>3 DEF FailRow, CutShort
    <3>2. Delivery!Damage \/ torn' = torn
      BY <2>1, <3>1 DEF Delivery!Damage
    <3> QED
      BY <2>1, <3>1, <3>2 DEF Delivery!Next
  <2> QED
    BY <1>2, <2>2, <2>3 DEF NoLine, FinishRow, AppendLine
<1>10. CASE Reboot
  <2>1. Rest /\ Glued' = Glued
    BY <1>0, <1>10, RebootStep DEF Reboot, OnSd
  <2>2. torn' = torn \/ \E fc \in FC : torn' = torn \cup {fc}
    BY <1>10 DEF Reboot, CutShort, TypeOK
  <2>3. Delivery!Damage \/ torn' = torn
    BY <2>1, <2>2 DEF Delivery!Damage
  <2> QED
    BY <2>1, <2>3 DEF Delivery!Next
<1>3. ASSUME NEW fc \in FC, TakeCsv(fc)
      PROVE  Delivery!Next \/ (Rest /\ torn' = torn /\ Glued' = Glued)
  <2>1. Csv(fc) \in Path /\ Up(fc) \in Path
    BY Paths
  <2>2. /\ \A p \in Path \ {Csv(fc), Up(fc)} : RowsIn(p)' = RowsIn(p)
        /\ RowsIn(Up(fc))' = RowsIn(Csv(fc))
        /\ RowsIn(Csv(fc))' = {}
        /\ RowsIn(Up(fc)) = {}
    BY <1>3, RenameStep
  <2>3. OnSd' = OnSd
    BY <2>1, <2>2 DEF OnSd
  <2>4. Rest /\ Glued' = Glued /\ torn' = torn \ {fc}
    BY <1>0, <1>3, <2>3 DEF TakeCsv, ghosts
  <2>5. Delivery!Renew \/ torn' = torn
    BY <2>4 DEF Delivery!Renew
  <2> QED
    BY <2>4, <2>5 DEF Delivery!Next
<1>4. CASE DeleteUp
  <2>1. /\ Up(cur) \in Path /\ cur \in FC
        /\ stored' = stored /\ Unreadable' = Unreadable /\ torn' = torn /\ Glued' = Glued
    BY <1>0, <1>4, Paths DEF DeleteUp, TypeOK, ghosts
  <2>2. /\ \A p \in Path \ {Up(cur)} : RowsIn(p)' = RowsIn(p)
        /\ \A p \in Path : p = Up(cur) => RowsIn(p)' = {}
    BY <1>4, DeleteStep DEF RowsIn
  <2>3. RowsIn(Up(cur)) \subseteq stored \cup Unreadable
    <3>1. CASE cur \in misread
      BY <2>1, <3>1 DEF Owned, Unreadable
    <3>2. CASE cur \notin misread
      BY <1>4, <3>2 DEF DeleteUp, Confirmed, Inside, RowsIn
    <3> QED
      BY <3>1, <3>2
  <2>4. OnSd' \subseteq OnSd /\ OnSd \ OnSd' \subseteq stored \cup Unreadable
    BY <2>1, <2>2, <2>3 DEF OnSd
  <2>5. /\ OnSd \ OnSd' \in SUBSET (OnSd \cap (stored \cup Unreadable))
        /\ OnSd' = OnSd \ (OnSd \ OnSd')
    BY <2>4
  <2>6. Delivery!Discard
    BY <2>1, <2>5 DEF Delivery!Discard
  <2> QED
    BY <2>6 DEF Delivery!Next
<1>5. CASE PostOk \/ PostFail
  <2>1. off + 1 .. off + len \subseteq 1 .. Len(disk[Up(cur)])
    BY <1>5, Paths DEF PostOk, PostFail, Inside, TypeOK
  <2>2. Chunk \subseteq OnSd
    <3>1. Up(cur) \in Path
      BY Paths DEF TypeOK
    <3>2. Chunk \subseteq RowsIn(Up(cur))
      BY <2>1, <3>1, RowsAreRows DEF Chunk
    <3> QED
      BY <3>1, <3>2 DEF OnSd
  <2>3. OnSd' = OnSd /\ Unreadable' = Unreadable /\ torn' = torn /\ Glued' = Glued
    BY <1>0, <1>5 DEF PostOk, PostFail, sd, ghosts, OnSd, RowsIn
  <2>4. stored' = stored \/ stored' = stored \cup Chunk
    BY <1>5 DEF PostOk, PostFail
  <2>5. Delivery!Deliver \/ stored' = stored
    BY <2>2, <2>3, <2>4 DEF Delivery!Deliver
  <2> QED
    BY <2>3, <2>5 DEF Delivery!Next
<1>6. CASE ReadFail
  <2>1. /\ OnSd' = OnSd /\ stored' = stored /\ written' = written
        /\ misread' = misread \cup {cur} /\ cur \in FC /\ misread \subseteq FC
        /\ torn' = torn /\ Glued' = Glued
    BY <1>0, <1>6 DEF ReadFail, sd, OnSd, RowsIn, TypeOK
  <2>2. Unreadable' = Unreadable \cup written[cur]
    BY <2>1 DEF Unreadable
  <2>3. CASE cur \in misread
    BY <2>1, <2>2, <2>3 DEF Unreadable
  <2>4. CASE cur \notin misread
    <3>1. written[cur] \in SUBSET (OnSd \cup stored)
      BY <2>1, <2>4, Paths DEF Home, OnSd
    <3>2. Delivery!Misread
      BY <2>1, <2>2, <3>1 DEF Delivery!Misread
    <3> QED
      BY <3>2 DEF Delivery!Next
  <2> QED
    BY <2>3, <2>4
<1>7. CASE UNCHANGED <<disk, torn, stored, written, glued, misread>>
  BY <1>0, <1>7 DEF OnSd, RowsIn
<1>8. ASSUME NEW fc \in FC, StartRow(fc) \/ TakeUp(fc) \/ SkipCsv(fc)
      PROVE  UNCHANGED <<disk, torn, stored, written, glued, misread>>
  BY <1>8 DEF StartRow, TakeUp, SkipCsv, sd, ghosts
<1>9. ASSUME \/ StartRound \/ EndRound \/ ReadChunk \/ ReadEnd
             \/ DeleteFail \/ UNCHANGED vars
      PROVE  UNCHANGED <<disk, torn, stored, written, glued, misread>>
  BY <1>9 DEF StartRound, EndRound, ReadChunk, ReadEnd, DeleteFail,
              vars, sd, ghosts
<1> QED
  BY <1>1, <1>2, <1>3, <1>4, <1>5, <1>6, <1>7, <1>8, <1>9, <1>10, FinishIsLine
  DEF Next, Sampler, Uploader, Delivery!Next, NoLine

(* The upload keeps the promise of LogDelivery, for any number of logs, rows *)
(* and faults, also when reads fail.                                         *)
THEOREM Refinement == Spec => ImplementsDelivery
<1>1. Init => Delivery!Init
  <2> SUFFICES ASSUME Init PROVE OnSd = {} /\ stored = {} /\ Unreadable = {} /\ torn = {} /\ Glued = {}
    BY DEF Delivery!Init
  <2>1. \A p \in Path : disk[p] = <<>>
    BY DEF Init
  <2>2. \A p \in Path : RowsIn(p) = {}
    BY <2>1, RowsEmpty DEF RowsIn
  <2> QED
    BY <2>2 DEF OnSd, Init, Unreadable, Glued
<1> QED
  BY <1>1, RefinementStep, Invariance, PTL
  DEF Spec, ImplementsDelivery, Delivery!Spec

-------------------------------------------------------------------------------
(* Order.  Row numbers only grow, and the one being appended is new. *)
Known == stored \cup UNION {written[fc] : fc \in FC}
Numbered == \A r \in Known : r <= rows /\ (writing # {} => r < rows)

(* A row was written under one friend code only. *)
Apart == \A f, g \in FC : f # g => written[f] \cap written[g] = {}

(* The rows of a file are in the order they were written in. *)
Ascending(f) ==
  \A i, j \in 1 .. Len(f) : i < j /\ f[i] # Fragment /\ f[j] # Fragment => f[i] < f[j]
Sorted == \A p \in Path : Ascending(disk[p])

(* A waiting .up is older than the .csv of the same friend code. *)
UpFirst == \A fc \in FC : \A r \in RowsIn(Up(fc)), s \in RowsIn(Csv(fc)) : r < s

OInv == Numbered /\ Apart /\ Sorted /\ UpFirst /\ InOrder

(* A chunk only has rows of the log it was read from. *)
LEMMA ChunkOwned ==
  ASSUME IInv, pc = "post"
  PROVE  /\ Chunk \subseteq RowsIn(Up(cur)) /\ RowsIn(Up(cur)) \subseteq written[cur]
         /\ cur \in FC /\ Up(cur) \in Path
<1>1. cur \in FC /\ Up(cur) \in Path
  BY Paths DEF IInv, TypeOK
<1>2. off + 1 .. off + len \subseteq 1 .. Len(disk[Up(cur)])
  BY <1>1 DEF IInv, TypeOK, Inside
<1> QED
  BY <1>1, <1>2, RowsAreRows DEF IInv, Chunk, Owned

(* What is on the card has a number below the one being appended. *)
LEMMA OlderRows ==
  ASSUME IInv, OInv, NEW fc \in FC, fc \in writing
  PROVE  /\ rows \in Row /\ rows \notin Known
         /\ \A g \in FC : \A r \in RowsIn(Csv(g)) \cup RowsIn(Up(g)) : r < rows
<1>1. rows \in Row
  BY DEF IInv, Open
<1>2. \A r \in Known : r \in Row /\ r < rows
  BY DEF OInv, Numbered, Known, IInv, TypeOK
<1>3. \A g \in FC : RowsIn(Csv(g)) \cup RowsIn(Up(g)) \subseteq Known
  BY DEF IInv, Owned, Known
<1> QED
  BY <1>1, <1>2, <1>3 DEF Row

LEMMA AscendingAppend ==
  ASSUME NEW f \in Seq(0 .. MaxRows), Ascending(f), NEW e \in 0 .. MaxRows,
         \A r \in RowsOf(f, 1 .. Len(f)) : e = Fragment \/ r < e
  PROVE  Ascending(Append(f, e))
<1>1. Len(Append(f, e)) = Len(f) + 1 /\ Len(f) \in Nat
  OBVIOUS
<1>2. \A i \in 1 .. Len(f) : Append(f, e)[i] = f[i]
  OBVIOUS
<1>3. Append(f, e)[Len(f) + 1] = e
  OBVIOUS
<1> SUFFICES ASSUME NEW i \in 1 .. Len(f) + 1, NEW j \in 1 .. Len(f) + 1, i < j,
                    Append(f, e)[i] # Fragment, Append(f, e)[j] # Fragment
             PROVE  Append(f, e)[i] < Append(f, e)[j]
  BY <1>1 DEF Ascending
<1>4. i \in 1 .. Len(f) /\ Append(f, e)[i] = f[i]
  BY <1>1, <1>2
<1>5. CASE j \in 1 .. Len(f)
  BY <1>2, <1>4, <1>5 DEF Ascending
<1>6. CASE j = Len(f) + 1
  BY <1>3, <1>4, <1>6 DEF RowsOf
<1> QED
  BY <1>1, <1>5, <1>6

(* What a step that only cuts a line short does to the order: nothing. *)
LEMMA OrderCut ==
  ASSUME IInv, OInv, NEW fc \in FC, CutShort(fc) \/ disk' = disk,
         \A p \in Path : RowsIn(p)' = RowsIn(p),
         UNCHANGED <<rows, stored, written, misread>>, writing' = {}
  PROVE  OInv'
<1>1. Numbered' /\ Apart' /\ InOrder'
  BY DEF OInv, Numbered, Known, Apart, InOrder
<1>2. Sorted'
  <2>1. Csv(fc) \in Path /\ disk[Csv(fc)] \in Seq(0 .. MaxRows) /\ Fragment \in 0 .. MaxRows
    BY Paths, LogAssumption DEF IInv, TypeOK, Fragment
  <2>2. Ascending(Append(disk[Csv(fc)], Fragment))
    BY <2>1, AscendingAppend DEF OInv, Sorted
  <2> SUFFICES ASSUME NEW p \in Path PROVE Ascending(disk'[p])
    BY DEF Sorted, Ascending
  <2>3. disk'[p] = disk[p] \/ disk'[p] = Append(disk[Csv(fc)], Fragment)
    BY <2>1 DEF CutShort, IInv, TypeOK
  <2> QED
    BY <2>2, <2>3 DEF OInv, Sorted
<1>3. UpFirst'
  <2> SUFFICES ASSUME NEW g \in FC
               PROVE  RowsIn(Up(g))' = RowsIn(Up(g)) /\ RowsIn(Csv(g))' = RowsIn(Csv(g))
    BY DEF OInv, UpFirst
  <2> QED
    BY Paths
<1> QED
  BY <1>1, <1>2, <1>3 DEF OInv

(* The new row is the last of its file and of all numbers. *)
LEMMA OrderFinish ==
  ASSUME IInv, OInv, NEW fc \in FC, Line(fc)
  PROVE  OInv'
<1>1. /\ fc \in writing /\ rows' = rows /\ writing' = {} /\ stored' = stored /\ misread' = misread
      /\ disk' = [disk EXCEPT ![Csv(fc)] = Append(@, rows)]
      /\ written' = [written EXCEPT ![fc] = @ \cup {rows}]
  BY LineStep DEF IInv
<1>2. /\ rows \in Row /\ rows \notin Known
      /\ \A g \in FC : \A r \in RowsIn(Csv(g)) \cup RowsIn(Up(g)) : r < rows
  BY <1>1, OlderRows
<1>3. Csv(fc) \in Path /\ disk[Csv(fc)] \in Seq(0 .. MaxRows) /\ rows \in 0 .. MaxRows
  BY Paths DEF IInv, TypeOK
<1>4. /\ written'[fc] = written[fc] \cup {rows}
      /\ \A g \in FC \ {fc} : written'[g] = written[g]
      /\ written \in [FC -> SUBSET Row] /\ stored \in SUBSET Row
  BY <1>1 DEF IInv, TypeOK
<1>5. Numbered'
  <2>1. Known' = Known \cup {rows}
    BY <1>1, <1>4 DEF Known
  <2> QED
    BY <1>1, <1>2, <2>1 DEF Numbered, OInv, Row
<1>6. Apart'
  BY <1>2, <1>4 DEF Apart, OInv, Known
<1>7. Sorted'
  <2>1. Ascending(Append(disk[Csv(fc)], rows))
    BY <1>2, <1>3, AscendingAppend DEF OInv, Sorted, RowsIn
  <2> SUFFICES ASSUME NEW p \in Path PROVE Ascending(disk'[p])
    BY DEF Sorted, Ascending
  <2>2. CASE p = Csv(fc)
    BY <1>1, <1>3, <2>1, <2>2 DEF IInv, TypeOK
  <2>3. CASE p # Csv(fc)
    BY <1>1, <2>3 DEF IInv, TypeOK, OInv, Sorted
  <2> QED
    BY <2>2, <2>3
<1>8. UpFirst'
  <2> SUFFICES ASSUME NEW g \in FC PROVE (\A r \in RowsIn(Up(g)), s \in RowsIn(Csv(g)) : r < s)'
    BY DEF UpFirst
  <2>1. RowsIn(Up(g))' = RowsIn(Up(g))
    BY LineStep, Paths DEF IInv
  <2>2. CASE g = fc
    BY <1>2, <2>1, <2>2, LineStep DEF IInv, OInv, UpFirst
  <2>3. CASE g # fc
    <3>1. RowsIn(Csv(g))' = RowsIn(Csv(g))
      BY <2>3, LineStep, Paths DEF IInv
    <3> QED
      BY <2>1, <3>1 DEF OInv, UpFirst
  <2> QED
    BY <2>2, <2>3
<1>9. InOrder'
  <2> SUFFICES ASSUME NEW g \in FC \ misread, NEW r \in written'[g], NEW s \in written'[g],
                      r < s, s \in stored
               PROVE  r \in stored
    BY <1>1 DEF InOrder
  <2>1. s \in Known /\ s # rows /\ s \in Row /\ s < rows
    BY <1>1, <1>2, <1>4 DEF Known, OInv, Numbered
  <2>2. r # rows /\ r \in written[g] /\ s \in written[g]
    BY <1>2, <1>4, <2>1 DEF Row
  <2> QED
    BY <2>2 DEF OInv, InOrder
<1> QED
  BY <1>5, <1>6, <1>7, <1>8, <1>9 DEF OInv

(* A row that is no line of its own does not count.  Every file keeps its   *)
(* rows in their order: a cut line is no row, so nothing else changes.      *)
LEMMA OrderFail ==
  ASSUME IInv, OInv, NEW fc \in FC, NoLine(fc)
  PROVE  OInv'
<1>1. UNCHANGED <<rows, stored, written, misread>> /\ writing' = {}
  BY NoLineStep DEF IInv
<1>2. /\ \A p \in Path : RowsIn(p)' = RowsIn(p)
      /\ CutShort(fc) \/ disk' = disk
  BY NoLineStep DEF IInv, NoLine, FinishRow, FailRow, AppendLine, AppendToCut
<1> QED
  BY <1>1, <1>2, OrderCut

(* Only an empty .up is replaced, by the whole .csv. *)
LEMMA OrderRename ==
  ASSUME IInv, OInv, NEW fc \in FC, TakeCsv(fc)
  PROVE  OInv'
<1>1. UNCHANGED <<rows, writing, stored, written, misread>>
      /\ disk' = [disk EXCEPT ![Up(fc)] = disk[Csv(fc)], ![Csv(fc)] = <<>>]
  BY DEF TakeCsv, sampler, ghosts
<1>2. Numbered' /\ Apart' /\ InOrder'
  BY <1>1 DEF OInv, Numbered, Known, Apart, InOrder
<1>3. Sorted'
  <2>1. Ascending(<<>>)
    BY DEF Ascending
  <2> SUFFICES ASSUME NEW p \in Path PROVE Ascending(disk'[p])
    BY DEF Sorted, Ascending
  <2>2. disk'[p] = <<>> \/ (disk'[p] = disk[Csv(fc)] /\ Csv(fc) \in Path) \/ disk'[p] = disk[p]
    BY <1>1, Paths DEF IInv, TypeOK
  <2> QED
    BY <2>1, <2>2 DEF OInv, Sorted
<1>4. UpFirst'
  <2> SUFFICES ASSUME NEW g \in FC PROVE (\A r \in RowsIn(Up(g)), s \in RowsIn(Csv(g)) : r < s)'
    BY DEF UpFirst
  <2>1. CASE g = fc
    BY <2>1, RenameStep DEF IInv
  <2>2. CASE g # fc
    <3>1. RowsIn(Up(g))' = RowsIn(Up(g)) /\ RowsIn(Csv(g))' = RowsIn(Csv(g))
      BY <2>2, RenameStep, Paths DEF IInv
    <3> QED
      BY <3>1 DEF OInv, UpFirst
  <2> QED
    BY <2>1, <2>2
<1> QED
  BY <1>2, <1>3, <1>4 DEF OInv

LEMMA OrderDelete ==
  ASSUME IInv, OInv, DeleteUp
  PROVE  OInv'
<1>1. UNCHANGED <<rows, writing, stored, written, misread>>
      /\ disk' = [disk EXCEPT ![Up(cur)] = <<>>] /\ cur \in FC
  BY DEF DeleteUp, sampler, ghosts, IInv, TypeOK
<1>2. Numbered' /\ Apart' /\ InOrder'
  BY <1>1 DEF OInv, Numbered, Known, Apart, InOrder
<1>3. Sorted'
  <2>1. Ascending(<<>>)
    BY DEF Ascending
  <2> SUFFICES ASSUME NEW p \in Path PROVE Ascending(disk'[p])
    BY DEF Sorted, Ascending
  <2>2. disk'[p] = <<>> \/ disk'[p] = disk[p]
    BY <1>1 DEF IInv, TypeOK
  <2> QED
    BY <2>1, <2>2 DEF OInv, Sorted
<1>4. UpFirst'
  <2> SUFFICES ASSUME NEW g \in FC PROVE (\A r \in RowsIn(Up(g)), s \in RowsIn(Csv(g)) : r < s)'
    BY DEF UpFirst
  <2>1. RowsIn(Csv(g))' = RowsIn(Csv(g))
    BY <1>1, DeleteStep, Paths DEF IInv
  <2>2. RowsIn(Up(g))' \subseteq RowsIn(Up(g))
    <3>1. CASE g = cur
      <4>1. disk'[Up(g)] = <<>>
        BY <1>1, <3>1, Paths DEF IInv, TypeOK
      <4> QED
        BY <4>1, RowsEmpty DEF RowsIn
    <3>2. CASE g # cur
      BY <1>1, <3>2, DeleteStep, Paths DEF IInv
    <3> QED
      BY <3>1, <3>2
  <2> QED
    BY <2>1, <2>2 DEF OInv, UpFirst
<1> QED
  BY <1>2, <1>3, <1>4 DEF OInv

(* The rows of a chunk follow those the server has: what is older is in    *)
(* the same file, before the offset or in the chunk itself.                *)
LEMMA OrderPost ==
  ASSUME IInv, OInv, PostOk \/ PostFail
  PROVE  OInv'
<1>1. /\ pc = "post" /\ UNCHANGED <<disk, rows, writing, written, misread>>
      /\ stored' \in {stored, stored \cup Chunk}
  BY DEF PostOk, PostFail, sd, sampler, ghosts
<1>2. /\ Chunk \subseteq RowsIn(Up(cur)) /\ RowsIn(Up(cur)) \subseteq written[cur]
      /\ cur \in FC /\ Up(cur) \in Path
  BY <1>1, ChunkOwned
<1>3. Known' = Known
  BY <1>1, <1>2 DEF Known
<1>4. Numbered' /\ Apart' /\ Sorted' /\ UpFirst'
  BY <1>1, <1>3 DEF OInv, Numbered, Apart, Sorted, Ascending, UpFirst, RowsIn
<1>5. ASSUME NEW fc \in FC \ misread, NEW r \in written[fc], NEW s \in written[fc],
             r < s, s \in Chunk, r \notin stored
      PROVE  r \in Chunk
  <2>1. fc = cur
    BY <1>2, <1>5 DEF OInv, Apart
  <2>2. r \in Row /\ s \in Row
    BY <1>2, <1>5 DEF IInv, TypeOK
  <2>3. r \notin RowsIn(Csv(cur))
    BY <1>2, <1>5, <2>2 DEF OInv, UpFirst, Row
  <2>4. r \in RowsIn(Up(cur))
    BY <1>5, <2>1, <2>3 DEF IInv, Home
  <2>5. PICK i \in 1 .. Len(disk[Up(cur)]) : disk[Up(cur)][i] = r
    BY <2>4 DEF RowsIn, RowsOf
  <2>6. PICK j \in off + 1 .. off + len : disk[Up(cur)][j] = s
    BY <1>5 DEF Chunk, RowsOf
  <2>7. /\ off \in Nat /\ len \in Nat /\ Len(disk[Up(cur)]) \in Nat
        /\ off + len <= Len(disk[Up(cur)])
    BY <1>1, <1>2 DEF IInv, TypeOK, Inside
  <2>8. i < j
    <3>1. j \in 1 .. Len(disk[Up(cur)]) /\ r # Fragment /\ s # Fragment /\ r \in Nat /\ s \in Nat
      BY <2>2, <2>6, <2>7 DEF Row, Fragment
    <3>2. j < i => s < r
      BY <1>2, <2>5, <2>6, <3>1 DEF OInv, Sorted, Ascending
    <3>3. r < s /\ r # s /\ ~(s < r)
      BY <1>5, <3>1
    <3>4. i # j
      BY <2>5, <2>6, <3>3
    <3>5. i \in Int /\ j \in Int
      BY <2>5, <2>6, <2>7
    <3> QED
      BY <3>2, <3>3, <3>4, <3>5
  <2>9. i > off
    <3>1. r # Fragment /\ i \in Int
      BY <2>2, <2>5, <2>7 DEF Row, Fragment
    <3>2. RowsOf(disk[Up(cur)], 1 .. off) \subseteq stored
      BY <1>1 DEF IInv, Confirmed
    <3>3. i \notin 1 .. off
      BY <1>5, <2>5, <3>1, <3>2 DEF RowsOf
    <3> QED
      BY <2>5, <2>7, <3>3
  <2>10. i \in off + 1 .. off + len /\ r # Fragment
    BY <2>2, <2>5, <2>6, <2>7, <2>8, <2>9 DEF Row, Fragment
  <2> QED
    BY <2>5, <2>10 DEF Chunk, RowsOf
<1>6. InOrder'
  BY <1>1, <1>5 DEF InOrder, OInv
<1> QED
  BY <1>4, <1>6 DEF OInv

LEMMA OrderStep == IInv /\ OInv /\ [Next]_vars => OInv'
<1> SUFFICES ASSUME IInv, OInv, [Next]_vars PROVE OInv'
  OBVIOUS
<1>1. ASSUME NEW fc \in FC, StartRow(fc) PROVE OInv'
  <2>1. UNCHANGED <<disk, stored, written, misread>> /\ rows' = rows + 1 /\ rows \in Nat
    BY <1>1 DEF StartRow, ghosts, IInv, TypeOK
  <2>2. Known \subseteq Row
    BY DEF Known, IInv, TypeOK
  <2>3. Numbered'
    BY <2>1, <2>2 DEF OInv, Numbered, Known, Row
  <2> QED
    BY <2>1, <2>3 DEF OInv, Apart, Sorted, Ascending, UpFirst, RowsIn, InOrder
<1>2. ASSUME UNCHANGED <<disk, rows, stored, written>>, writing' \subseteq writing,
             misread \subseteq misread'
      PROVE  OInv'
  BY <1>2 DEF OInv, Numbered, Known, Apart, Sorted, Ascending, UpFirst, RowsIn, InOrder
<1>3. ASSUME NEW fc \in FC, TakeUp(fc) \/ SkipCsv(fc) PROVE OInv'
  BY <1>2, <1>3 DEF TakeUp, SkipCsv, sd, sampler, ghosts
<1>4. CASE \/ StartRound \/ EndRound \/ ReadChunk \/ ReadEnd \/ ReadFail
           \/ DeleteFail \/ UNCHANGED vars
  BY <1>2, <1>4 DEF StartRound, EndRound, ReadChunk, ReadEnd, ReadFail, DeleteFail,
     vars, sd, sampler, ghosts
<1>5. CASE Reboot
  <2>1. UNCHANGED <<rows, stored, written, misread>> /\ writing' = {}
    BY <1>5 DEF Reboot
  <2>2. \A p \in Path : RowsIn(p)' = RowsIn(p)
    BY <1>5, RebootStep DEF IInv
  <2>3. CASE \E fc \in writing : CutShort(fc)
    BY <2>1, <2>2, <2>3, OrderCut DEF IInv, TypeOK
  <2>4. CASE disk' = disk
    BY <1>2, <1>5, <2>1, <2>4 DEF Reboot
  <2> QED
    BY <1>5, <2>3, <2>4 DEF Reboot
<1> QED
  BY FinishIsLine, <1>5, <1>1, <1>3, <1>4, OrderFinish, OrderFail, OrderRename, OrderDelete, OrderPost
  DEF Next, Sampler, Uploader, NoLine

LEMMA OrderInit == Init => OInv
<1> SUFFICES ASSUME Init PROVE OInv
  OBVIOUS
<1>1. \A p \in Path : disk[p] = <<>>
  BY DEF Init
<1>2. Sorted
  BY <1>1 DEF Sorted, Ascending
<1>3. UpFirst
  <2>1. \A fc \in FC : RowsIn(Up(fc)) = {}
    BY <1>1, Paths, RowsEmpty DEF RowsIn
  <2> QED
    BY <2>1 DEF UpFirst
<1>4. Numbered /\ Apart /\ InOrder
  BY DEF Init, Numbered, Known, Apart, InOrder
<1> QED
  BY <1>2, <1>3, <1>4 DEF OInv

(* The rows of a friend code reach the server in the order of writing, for *)
(* any number of rounds, retries, lost answers and power losses: a waiting *)
(* .up goes first and is never overwritten (main.c:869-870).               *)
THEOREM ArriveInOrder == Spec => []InOrder
<1>1. OInv => InOrder
  BY DEF OInv
<1> QED
  BY <1>1, OrderInit, OrderStep, Invariance, PTL DEF Spec

===============================================================================
