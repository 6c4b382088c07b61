------------------------------- MODULE RvtaLog -------------------------------
(***************************************************************************)
(* The log of the RvtA sysmodule (rvta/source/main.c): the sampler thread  *)
(* appends rows to <friend code>.csv, the uploader thread renames a .csv   *)
(* to .up, posts it in chunks and deletes it, and the console may lose     *)
(* power between any two steps.                                            *)
(*                                                                         *)
(* A file is the sequence of its lines; sizes and offsets count lines.  A  *)
(* row is named by its sequence number (boot << 24 | row, made unique by   *)
(* loadIdentity).  An append that is cut short leaves text without a       *)
(* newline, and the next row is written onto its end: a Fragment, a line   *)
(* that is no row to the server.                                           *)
(*                                                                         *)
(* The HTTP server and the FS service are external: the server may refuse  *)
(* a chunk for ever, or store one whose answer is lost, it skips lines     *)
(* that are no rows, and FS refuses to rename a file that is open or onto  *)
(* an existing name.                                                       *)
(***************************************************************************)
EXTENDS Naturals, Sequences, FiniteSets

CONSTANTS FC,         \* friend codes (one log each)
          MaxRows,    \* bound: rows the sampler numbers
          MaxLog,     \* MAX_LOG_SIZE
          ChunkRows,  \* CHUNK_SIZE: lines a full read touches
          MaxListed,  \* log files one round looks at (16)
          MaxFaults,  \* bound: failed operations and power losses
          ReadErrors  \* may reading the SD card fail?

ASSUME LogAssumption ==
  /\ MaxRows \in Nat /\ MaxLog \in Nat /\ MaxFaults \in Nat /\ MaxListed \in Nat
  /\ ChunkRows \in Nat /\ ChunkRows >= 2
  /\ ReadErrors \in BOOLEAN

VARIABLES
  disk, files,          \* SD card: contents by path, and the paths that exist
  torn,                 \* friend codes whose .csv ends without a newline
  rows, writing,        \* sampler: last row number taken; logs it has open
  pc, listed, cur, off, len,  \* uploader: position, names left, file, rows confirmed, chunk
  stored,               \* external: rows the server keeps
  written, glued,       \* ghosts, by friend code: rows appended as a line of their
  cut,                  \*   own, rows appended to a cut text, rows cut short
  misread,              \* ghost: friend codes whose log could once not be read
  faults

sd       == <<disk, files, torn>>
sampler  == <<rows, writing>>
uploader == <<pc, listed, cur, off, len>>
ghosts   == <<written, glued, cut, misread>>
vars     == <<sd, sampler, uploader, stored, ghosts, faults>>

Row      == 1 .. MaxRows
Fragment == 0              \* a line that is no row
Csv(fc)  == <<fc, "csv">>
Up(fc)   == <<fc, "up">>
Path     == FC \X {"csv", "up"}

RowsOf(file, S) == {file[i] : i \in S} \ {Fragment}
RowsIn(p) == RowsOf(disk[p], 1 .. Len(disk[p]))
OnSd      == UNION {RowsIn(p) : p \in Path}

TypeOK ==
  /\ disk \in [Path -> Seq(0 .. MaxRows)]
  /\ files \in SUBSET Path
  /\ torn \in SUBSET FC
  /\ rows \in 0 .. MaxRows
  /\ writing \in SUBSET FC
  /\ pc \in {"wait", "scan", "read", "post", "delete"}
  /\ listed \in SUBSET Path
  /\ cur \in FC
  /\ off \in Nat
  /\ len \in Nat
  /\ stored \in SUBSET Row
  /\ written \in [FC -> SUBSET Row]
  /\ glued \in [FC -> SUBSET Row]
  /\ cut \in [FC -> SUBSET Row]
  /\ misread \in SUBSET FC
  /\ faults \in 0 .. MaxFaults

Init ==
  /\ disk = [p \in Path |-> <<>>]
  /\ files = {}
  /\ torn = {}
  /\ rows = 0
  /\ writing = {}
  /\ pc = "wait"
  /\ listed = {}
  /\ cur \in FC
  /\ off = 0
  /\ len = 0
  /\ stored = {}
  /\ written = [fc \in FC |-> {}]
  /\ glued = [fc \in FC |-> {}]
  /\ cut = [fc \in FC |-> {}]
  /\ misread = {}
  /\ faults = 0

Fault == faults < MaxFaults /\ faults' = faults + 1

-------------------------------------------------------------------------------
(* Sampler (main loop).  The friend code of a row is whatever readSlow last *)
(* selected, so it is arbitrary here.                                       *)

(* writeRow up to the open in fileAppend, which creates the file. *)
StartRow(fc) ==
  /\ writing = {}
  /\ rows < MaxRows
  /\ Len(disk[Csv(fc)]) <= MaxLog
  /\ rows' = rows + 1
  /\ writing' = {fc}
  /\ files' = files \cup {Csv(fc)}
  /\ UNCHANGED <<disk, torn, uploader, stored, ghosts, faults>>

(* The row becomes a line of its own ... *)
AppendLine(fc) ==
  /\ fc \notin torn
  /\ disk' = [disk EXCEPT ![Csv(fc)] = Append(@, rows)]
  /\ written' = [written EXCEPT ![fc] = @ \cup {rows}]
  /\ UNCHANGED <<torn, glued>>

(* ... or ends the text an earlier append left, and with it a line that is *)
(* no row: fileAppend writes at the size of the file, whatever is there.   *)
AppendToCut(fc) ==
  /\ fc \in torn
  /\ torn' = torn \ {fc}
  /\ glued' = [glued EXCEPT ![fc] = @ \cup {rows}]
  /\ UNCHANGED <<disk, written>>

(* fileAppend: write at the end, flush, close. *)
FinishRow(fc) ==
  /\ fc \in writing
  /\ AppendLine(fc) \/ AppendToCut(fc)
  /\ writing' = {}
  /\ UNCHANGED <<files, rows, uploader, stored, cut, misread, faults>>

(* A part of the line reaches the card, without its newline. *)
CutShort(fc) ==
  /\ disk' = [disk EXCEPT ![Csv(fc)] = IF fc \in torn THEN @ ELSE Append(@, Fragment)]
  /\ torn' = torn \cup {fc}
  /\ cut' = [cut EXCEPT ![fc] = @ \cup {rows}]

(* A failed write: PROBLEM_WRITE, the row is not tried again. *)
FailRow(fc) ==
  /\ fc \in writing
  /\ Fault
  /\ CutShort(fc) \/ UNCHANGED <<disk, torn, cut>>
  /\ writing' = {}
  /\ UNCHANGED <<files, rows, uploader, stored, written, glued, misread>>

-------------------------------------------------------------------------------
(* Uploader (uploaderMain, uploadLogs, uploadFile, post). *)

(* Mutant: the names of logs whose upload is under way are not recognised. *)
LogFiles_CsvOnly == {p \in files : p[2] = "csv"}

(* The names parseLogName recognises. *)
LogFiles == files

(* A round is online and has its memory: list the directory.  Only the     *)
(* first MaxListed names in directory order count; a failing read of the   *)
(* directory ends the list early.                                          *)
StartRound ==
  /\ pc = "wait"
  /\ \E S \in SUBSET LogFiles :
       /\ Cardinality(S) <= MaxListed
       /\ listed' = S
       /\ \/ (S = LogFiles \/ Cardinality(S) = MaxListed) /\ UNCHANGED faults
          \/ Fault
  /\ pc' = "scan"
  /\ UNCHANGED <<sd, sampler, cur, off, len, stored, ghosts>>

(* Mutant: the offset of an interrupted upload is kept. *)
Take_KeepsOffset(fc) == cur' = fc /\ off' = off /\ len' = 0 /\ pc' = "read"

(* uploadFile starts at offset 0. *)
Take(fc) == cur' = fc /\ off' = 0 /\ len' = 0 /\ pc' = "read"

(* Pass 0: the logs whose upload is already under way. *)
TakeUp(fc) ==
  /\ pc = "scan"
  /\ Up(fc) \in listed
  /\ listed' = listed \ {Up(fc)}
  /\ Take(fc)
  /\ UNCHANGED <<sd, sampler, stored, ghosts, faults>>

(* Mutant: a waiting .up is overwritten. *)
MayRename_Overwrites(fc) == fc \notin writing

(* May pass 1 rename this log?  Not while an older .up waits (line 907), *)
(* and not while the sampler has it open (FS).                           *)
MayRename(fc) == Up(fc) \notin files /\ fc \notin writing

(* Pass 1: no .up is left in the list, this .csv becomes one. *)
TakeCsv(fc) ==
  /\ pc = "scan"
  /\ Csv(fc) \in listed
  /\ \A g \in FC : Up(g) \notin listed
  /\ listed' = listed \ {Csv(fc)}
  /\ MayRename(fc)
  /\ disk' = [disk EXCEPT ![Up(fc)] = disk[Csv(fc)], ![Csv(fc)] = <<>>]
  /\ files' = (files \ {Csv(fc)}) \cup {Up(fc)}
  /\ torn' = torn \ {fc}
  /\ Take(fc)
  /\ UNCHANGED <<sampler, stored, ghosts, faults>>

(* Pass 1: not renamed, the log is left for a later round. *)
SkipCsv(fc) ==
  /\ pc = "scan"
  /\ Csv(fc) \in listed
  /\ \A g \in FC : Up(g) \notin listed
  /\ listed' = listed \ {Csv(fc)}
  /\ \/ ~MayRename(fc) /\ UNCHANGED faults
     \/ Fault
  /\ UNCHANGED <<sd, sampler, pc, cur, off, len, stored, ghosts>>

EndRound ==
  /\ pc = "scan"
  /\ listed = {}
  /\ pc' = "wait"
  /\ UNCHANGED <<sd, sampler, listed, cur, off, len, stored, ghosts, faults>>

(* What fileRead gets at the offset, at most one full buffer. *)
Got == LET left == Len(disk[Up(cur)]) - off
       IN  IF left < ChunkRows THEN left ELSE ChunkRows

(* How many of those lines are sent: the last line of a full buffer may be *)
(* cut, and then waits for the next chunk.                                 *)
ChunkLens == IF Got = ChunkRows THEN {Got - 1, Got} ELSE {Got}

ReadChunk ==
  /\ pc = "read"
  /\ Got > 0
  /\ len' \in ChunkLens
  /\ pc' = "post"
  /\ UNCHANGED <<sd, sampler, listed, cur, off, stored, ghosts, faults>>

(* fileRead returned 0, at the end of the file ... *)
ReadEnd ==
  /\ pc = "read"
  /\ Got = 0
  /\ pc' = "delete"
  /\ UNCHANGED <<sd, sampler, listed, cur, off, len, stored, ghosts, faults>>

(* ... or because the open or the read failed: the caller cannot tell. *)
ReadFail ==
  /\ ReadErrors
  /\ pc = "read"
  /\ Fault
  /\ pc' = "delete"
  /\ misread' = misread \cup {cur}
  /\ UNCHANGED <<sd, sampler, listed, cur, off, len, stored, written, glued, cut>>

Chunk == RowsOf(disk[Up(cur)], off + 1 .. off + len)

(* Mutant: the offset moves by what was read, not by what was sent. *)
PostOk_SkipsTail ==
  /\ pc = "post"
  /\ stored' = stored \cup Chunk
  /\ off' = off + Got
  /\ len' = 0
  /\ pc' = "read"
  /\ UNCHANGED <<sd, sampler, listed, cur, ghosts, faults>>

(* "ok " from the server. *)
PostOk ==
  /\ pc = "post"
  /\ stored' = stored \cup Chunk
  /\ off' = off + len
  /\ len' = 0
  /\ pc' = "read"
  /\ UNCHANGED <<sd, sampler, listed, cur, ghosts, faults>>

(* Mutant: the result of post is ignored for the last chunk. *)
PostFail_Ignored ==
  /\ pc = "post"
  /\ stored' \in {stored, stored \cup Chunk}
  /\ off' = off + len
  /\ len' = 0
  /\ pc' = "read"
  /\ UNCHANGED <<sd, sampler, listed, cur, ghosts, faults>>

(* No confirmation: the request or only its answer was lost, or the server *)
(* refused the chunk, which it may do again every time.  The whole round   *)
(* ends, the file stays.                                                   *)
PostFail ==
  /\ pc = "post"
  /\ stored' \in {stored, stored \cup Chunk}
  /\ pc' = "wait"
  /\ listed' = {}
  /\ len' = 0
  /\ UNCHANGED <<sd, sampler, cur, off, ghosts, faults>>

(* The end of uploadFile. *)
DeleteUp ==
  /\ pc = "delete"
  /\ disk' = [disk EXCEPT ![Up(cur)] = <<>>]
  /\ files' = files \ {Up(cur)}
  /\ pc' = "scan"
  /\ off' = 0
  /\ UNCHANGED <<torn, sampler, listed, cur, len, stored, ghosts, faults>>

(* FSUSER_DeleteFile failed; its result is ignored. *)
DeleteFail ==
  /\ pc = "delete"
  /\ Fault
  /\ pc' = "scan"
  /\ off' = 0
  /\ UNCHANGED <<sd, sampler, listed, cur, len, stored, ghosts>>

-------------------------------------------------------------------------------
(* Power loss and restart: only the SD card and the server remember.  Every *)
(* write is flushed (FS_WRITE_FLUSH), a row being appended may be cut short.*)
Reboot ==
  /\ Fault
  /\ (\E fc \in writing : CutShort(fc)) \/ UNCHANGED <<disk, torn, cut>>
  /\ writing' = {}
  /\ pc' = "wait"
  /\ listed' = {}
  /\ off' = 0
  /\ len' = 0
  /\ UNCHANGED <<files, rows, cur, stored, written, glued, misread>>

Sampler  == \E fc \in FC : StartRow(fc) \/ FinishRow(fc) \/ FailRow(fc)
Uploader ==
  \/ StartRound \/ EndRound
  \/ \E fc \in FC : TakeUp(fc) \/ TakeCsv(fc) \/ SkipCsv(fc)
  \/ ReadChunk \/ ReadEnd \/ ReadFail \/ PostOk \/ PostFail
  \/ DeleteUp \/ DeleteFail

Next == Sampler \/ Uploader \/ Reboot

Spec == Init /\ [][Next]_vars

(* Both threads are always ready to run; a row that is being appended is   *)
(* finished, and a round follows every UPLOAD_SECONDS.  Faults are finite, *)
(* so from some moment on the card works and the power stays on.           *)
FairSpec == Spec /\ WF_vars(Uploader)
                 /\ WF_vars(\E fc \in FC : FinishRow(fc) \/ FailRow(fc))

-------------------------------------------------------------------------------
(* "A log file is only deleted after the server confirmed it" (main.c:5-6): *)
(* whatever order sampling, renaming, uploading, deleting and power loss    *)
(* come in, a row that became a line of its own is on the SD card or with   *)
(* the server, unless its own log was misread (EveryChunkConfirmed); and    *)
(* the row an append loses by writing onto a cut text is the first one      *)
(* appended after the row that was cut, so a cut costs one more row at most. *)
Appended(fc) == written[fc] \cup glued[fc]
NoRowLost ==
  \A fc \in FC :
    /\ fc \notin misread => written[fc] \subseteq OnSd \cup stored
    /\ \A r \in glued[fc] :
         \E t \in cut[fc] : t < r /\ \A s \in Appended(fc) : t < s => r <= s

(* A waiting .up goes first and is never overwritten (main.c:869-870), so  *)
(* the rows of one friend code reach the server in the order of writing:   *)
(* no row is there before an older one of the same log that is a line of   *)
(* its own.                                                                *)
InOrder ==
  \A fc \in FC \ misread : \A r, s \in written[fc] :
    r < s /\ s \in stored => r \in stored

(* "deletes it once every chunk was confirmed" (main.c:785): when the      *)
(* uploader is about to delete a .up, the server has every row in it,      *)
(* unless reading this log failed once.                                    *)
DeleteOnlyConfirmed ==
  pc = "delete" /\ cur \notin misread => RowsIn(Up(cur)) \subseteq stored

(* The same as it is written, without the exception. *)
EveryChunkConfirmed == pc = "delete" => RowsIn(Up(cur)) \subseteq stored

(* A round whose list is full has no log of this friend code it could take. *)
Missed(fc) ==
  /\ StartRound
  /\ Cardinality(listed') = MaxListed
  /\ \A p \in listed' : p[1] = fc => p = Csv(fc) /\ Up(fc) \in files

(* Once the card works and the power stays on, every row that is a line of  *)
(* its own reaches the server and leaves the card, from .csv and from .up,  *)
(* with two exceptions only: chunks are refused again and again (the first  *)
(* file that is refused ends each round, for all logs behind it), or the    *)
(* list of 16 is full again and again without the log.                      *)
EventuallyUploaded ==
  \A fc \in FC :
    \/ \A r \in Row : r \in written[fc] ~> r \notin OnSd /\ (r \in stored \/ fc \in misread)
    \/ []<><<PostFail>>_vars
    \/ []<><<Missed(fc)>>_vars

(* The upload implements LogDelivery, also when reads fail. *)
Unreadable == UNION {written[fc] : fc \in misread}
Glued      == UNION {glued[fc] : fc \in FC}
Delivery == INSTANCE LogDelivery
              WITH pending <- OnSd, delivered <- stored, unreadable <- Unreadable,
                   damaged <- torn, spoilt <- Glued, Log <- FC
ImplementsDelivery == Delivery!Spec
==============================================================================
