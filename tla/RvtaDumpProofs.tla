--------------------------- MODULE RvtaDumpProofs ----------------------------
(***************************************************************************)
(* Proofs about the dumps of RvtA, for any number of dumps, folders,       *)
(* chunks, crashes and faults: none is lost, none is sent unfinished, none *)
(* waits for the timer, and the buffers fit the memory.                    *)
(***************************************************************************)
EXTENDS RvtaDump, SequenceTheorems, TLAPS

(* The dump being written has a number. *)
Writing == ipc = "saving" => saves \in 1 .. MaxDumps

(* Only finished dumps are listed and sent. *)
Finished ==
  /\ bins \subseteq saved /\ listed \subseteq saved
  /\ pc = "send" /\ cur \in MemoryFile => cur[2] \in saved

(* The offset is at the end only when the server has had all of the file. *)
Counted == pc = "send" /\ off = TotalChunks => cur \in complete

(* A dump that the running round may have missed has set the event, or is  *)
(* about to.                                                               *)
Signalled == fresh # {} => event \/ ipc = "signal"

IInv ==
  /\ TypeOK /\ Writing /\ Finished /\ Counted /\ Signalled
  /\ SavedIsKept /\ NeverSendsUnfinished /\ BuffersFit

-------------------------------------------------------------------------------
LEMMA Files ==
  /\ \A d \in 1 .. MaxDumps : Memory(d) \in MemoryFile /\ Memory(d) \in File /\ Memory(d)[2] = d
  /\ \A f \in MemoryFile : f = Memory(f[2]) /\ f[2] \in 1 .. MaxDumps
  /\ \A d \in Dir, n \in 1 .. MaxCrashes : Crash(d, n) \in CrashFile /\ Crash(d, n) \in File
  /\ MemoryFile \cap CrashFile = {}
  /\ File = MemoryFile \cup CrashFile
BY DumpAssumption DEF File, MemoryFile, CrashFile, Memory, Crash

(* What the server has after a chunk is within the file. *)
LEMMA TakenType == TypeOK => Taken \in 0 .. TotalChunks
<1> SUFFICES ASSUME TypeOK PROVE Taken \in 0 .. TotalChunks
  OBVIOUS
<1>1. ChunkEnd \in 0 .. TotalChunks
  BY DumpAssumption DEF ChunkEnd, TypeOK
<1>2. stored[cur] \in 0 .. TotalChunks
  BY DEF TypeOK
<1> QED
  BY <1>1, <1>2 DEF Taken

LEMMA ExtendedType ==
  ASSUME TypeOK, NEW w \in {Small, Large}
  PROVE  Extended(w) \in 0 .. Large /\ Extended(w) >= w /\ Small < Large
BY DEF Extended, TypeOK, Small, Large

LEMMA FaultStep == TypeOK /\ (Fault \/ NoFault) => faults' \in 0 .. MaxFaults
BY DumpAssumption DEF TypeOK, Fault, NoFault

-------------------------------------------------------------------------------
(* The input thread. *)
LEMMA TypeInput == TypeOK /\ Writing /\ Input => TypeOK'
<1> SUFFICES ASSUME TypeOK, Writing, Input PROVE TypeOK'
  OBVIOUS
<1> USE DumpAssumption DEF TypeOK
<1>1. CASE Combo
  <2>1. saves' \in 0 .. MaxDumps /\ tmps' \subseteq 1 .. MaxDumps
    BY <1>1 DEF Combo
  <2> QED
    BY <1>1, <2>1 DEF Combo, memory, lists, file, ghost
<1>2. CASE SaveFails
  BY <1>2, FaultStep DEF SaveFails, memory, lists, file, ghost
<1>3. CASE Save
  BY <1>3 DEF Save, Writing, memory, lists, file
<1>4. CASE Signal
  BY <1>4 DEF Signal, card, memory, lists, file, ghost
<1> QED
  BY <1>1, <1>2, <1>3, <1>4 DEF Input

(* The uploader up to the first file of a round, and its end. *)
LEMMA TypeRound ==
  TypeOK /\ (Wake \/ Offline \/ RoundBegins \/ RoundFails \/ Ready \/ NotReady \/ RoundEnds) => TypeOK'
<1> SUFFICES ASSUME TypeOK, Wake \/ Offline \/ RoundBegins \/ RoundFails \/ Ready \/ NotReady \/ RoundEnds
             PROVE  TypeOK'
  OBVIOUS
<1> USE DEF TypeOK
<1>1. CASE Wake
  BY <1>1 DEF Wake, card, input, memory, lists, file
<1>2. CASE Offline
  BY <1>2, FaultStep DEF Offline, card, input, memory, lists, file, ghost
<1>3. CASE RoundBegins
  <2>1. heap' \in 0 .. Large /\ big' \in BOOLEAN
    BY <1>3, ExtendedType DEF RoundBegins
  <2>2. faults' \in 0 .. MaxFaults
    BY <1>3, FaultStep DEF RoundBegins
  <2> QED
    BY <1>3, <2>1, <2>2 DEF RoundBegins, card, input, lists, file, ghost
<1>4. CASE RoundFails
  <2>1. heap' \in 0 .. Large
    BY <1>4, ExtendedType DEF RoundFails
  <2>2. faults' \in 0 .. MaxFaults
    BY <1>4, FaultStep DEF RoundFails
  <2> QED
    BY <1>4, <2>1, <2>2 DEF RoundFails, card, input, lists, file, ghost
<1>5. CASE Ready
  <2>1. known' \subseteq CrashFile
    <3>1. \A j \in 1 .. Len(doneFile) : doneFile[j] \in CrashFile
      BY ElementOfSeq
    <3> QED
      BY <1>5, <3>1 DEF Ready
  <2>2. faults' \in 0 .. MaxFaults
    BY <1>5, FaultStep DEF Ready
  <2> QED
    BY <1>5, <2>1, <2>2 DEF Ready, card, input, memory, file
<1>6. CASE NotReady
  BY <1>6, FaultStep DEF NotReady, card, input, memory, lists, file, ghost
<1>7. CASE RoundEnds
  <2>1. heap' \in 0 .. Large
    BY <1>7 DEF RoundEnds, Large
  <2>2. faults' \in 0 .. MaxFaults
    BY <1>7, FaultStep DEF RoundEnds
  <2> QED
    BY <1>7, <2>1, <2>2 DEF RoundEnds, card, input, lists, file, ghost
<1> QED
  BY <1>1, <1>2, <1>3, <1>4, <1>5, <1>6, <1>7

Lists ==
  \/ \E d \in Dir : CrashUpload(d) \/ CrashSkip(d)
  \/ CrashesDone \/ ListDumps \/ MemoryDone
  \/ \E d \in listed : MemoryUpload(d)

LEMMA TypeLists == TypeOK /\ Lists => TypeOK'
<1> SUFFICES ASSUME TypeOK, Lists PROVE TypeOK'
  OBVIOUS
<1> USE DEF TypeOK
<1>0. 0 \in 0 .. TotalChunks
  BY DumpAssumption
<1>1. ASSUME NEW d \in Dir, CrashUpload(d) PROVE TypeOK'
  <2>1. Crash(d, newest[d]) \in File
    BY <1>1, Files DEF CrashUpload
  <2> QED
    BY <1>0, <1>1, <2>1 DEF CrashUpload, Upload, card, input, memory, ghost
<1>2. ASSUME NEW d \in Dir, CrashSkip(d) PROVE TypeOK'
  <2>1. faults' \in 0 .. MaxFaults
    BY <1>2, FaultStep DEF CrashSkip
  <2> QED
    BY <1>2, <2>1 DEF CrashSkip, card, input, memory, file, ghost
<1>3. CASE CrashesDone
  BY <1>3 DEF CrashesDone, card, input, memory, lists, file, ghost
<1>4. CASE ListDumps
  <2>1. faults' \in 0 .. MaxFaults
    BY <1>4, FaultStep DEF ListDumps
  <2> QED
    BY <1>4, <2>1 DEF ListDumps, DumpNames, card, input, memory, file, ghost
<1>5. CASE MemoryDone
  BY <1>5 DEF MemoryDone, card, input, memory, lists, file, ghost
<1>6. ASSUME NEW d \in listed, MemoryUpload(d) PROVE TypeOK'
  <2>1. d \in 1 .. MaxDumps
    BY <1>6
  <2>2. cur' \in File
    BY <1>6, <2>1, Files DEF MemoryUpload, Upload
  <2>3. off' \in 0 .. TotalChunks /\ stalls' \in 0 .. 2
    BY <1>0, <1>6 DEF MemoryUpload, Upload
  <2>4. listed' \subseteq 1 .. MaxDumps
    BY <1>6 DEF MemoryUpload
  <2> QED
    BY <1>6, <2>2, <2>3, <2>4 DEF MemoryUpload, Upload, card, input, memory, ghost
<1> QED
  BY <1>1, <1>2, <1>3, <1>4, <1>5, <1>6 DEF Lists

Sending == Chunk \/ ChunkFails \/ CrashSent \/ MemorySent

LEMMA PutType ==
  ASSUME TypeOK, NEW v \in 0 .. TotalChunks, Put(v)
  PROVE  stored' \in [File -> 0 .. TotalChunks] /\ complete' \subseteq File
BY DEF TypeOK, Put

LEMMA TypeSending == TypeOK /\ Sending => TypeOK'
<1> SUFFICES ASSUME TypeOK, Sending PROVE TypeOK'
  OBVIOUS
<1> USE DEF TypeOK
<1>1. CASE Chunk
  <2>1. Taken \in 0 .. TotalChunks
    BY TakenType
  <2>2. stored' \in [File -> 0 .. TotalChunks] /\ complete' \subseteq File
    BY <1>1, <2>1, PutType DEF Chunk
  <2>3. off' \in 0 .. TotalChunks /\ stalls' \in 0 .. 2
    BY <1>1, <2>1 DEF Chunk
  <2>4. pc' \in {"send", "crash", "end"}
    BY <1>1 DEF Chunk, AfterFailure
  <2> QED
    BY <1>1, <2>2, <2>3, <2>4 DEF Chunk, card, input, memory, lists
<1>2. CASE ChunkFails
  <2>1. Taken \in 0 .. TotalChunks /\ stored[cur] \in 0 .. TotalChunks
    BY TakenType
  <2>2. stored' \in [File -> 0 .. TotalChunks] /\ complete' \subseteq File
    BY <1>2, <2>1, PutType DEF ChunkFails
  <2>3. pc' \in {"crash", "end"}
    BY <1>2 DEF ChunkFails, AfterFailure
  <2>4. faults' \in 0 .. MaxFaults
    BY <1>2, FaultStep DEF ChunkFails
  <2> QED
    BY <1>2, <2>2, <2>3, <2>4 DEF ChunkFails, card, input, memory, lists, file
<1>3. CASE CrashSent
  <2>1. cur \in CrashFile /\ Append(doneFile, cur) \in Seq(CrashFile)
    BY <1>3, AppendProperties DEF CrashSent
  <2>2. doneFile' \in Seq(CrashFile) /\ misfiled' \in BOOLEAN
    BY <1>3, <2>1 DEF CrashSent
  <2>3. told' \in [CrashFile -> 0 .. 2]
    BY <1>3, <2>1 DEF CrashSent
  <2>4. faults' \in 0 .. MaxFaults
    BY <1>3, FaultStep DEF CrashSent
  <2> QED
    BY <1>3, <2>2, <2>3, <2>4 DEF CrashSent, input, memory, lists, file
<1>4. CASE MemorySent
  <2>1. faults' \in 0 .. MaxFaults
    BY <1>4, FaultStep DEF MemorySent
  <2> QED
    BY <1>4, <2>1 DEF MemorySent, input, memory, lists, file, ghost
<1> QED
  BY <1>1, <1>2, <1>3, <1>4 DEF Sending

Outside == PowerLoss \/ (\E f \in File : ServerForgets(f)) \/ \E d \in Dir : Crashes(d)

(* The program's own memory after a restart, and what the card keeps. *)
LEMMA RestartType ==
  ASSUME TypeOK, Restart, newest' \in [Dir -> 0 .. MaxCrashes], faults' \in 0 .. MaxFaults
  PROVE  TypeOK'
<1>0. 0 \in 0 .. Large
  BY DEF Large
<1>1. heap' \in 0 .. Large /\ big' \in BOOLEAN
  <2>1. heap' = 0 /\ big' = FALSE
    BY DEF Restart
  <2> QED
    BY <1>0, <2>1
<1>2. ipc' \in {"idle", "saving", "signal"} /\ event' \in BOOLEAN /\ fresh' \subseteq 1 .. MaxDumps
  BY DEF Restart
<1>3. pc' \in {"wait", "begin", "ready", "crash", "list", "memory", "send", "end"}
  BY DEF Restart
<1> QED
  BY <1>1, <1>2, <1>3 DEF TypeOK, Restart, lists, file

LEMMA TypeOutside == TypeOK /\ Outside => TypeOK'
<1> SUFFICES ASSUME TypeOK, Outside PROVE TypeOK'
  OBVIOUS
<1> USE DEF TypeOK
<1>1. CASE PowerLoss
  <2>1. faults' \in 0 .. MaxFaults
    BY <1>1, FaultStep DEF PowerLoss
  <2> QED
    BY <1>1, <2>1, RestartType DEF PowerLoss
<1>2. ASSUME NEW f \in File, ServerForgets(f) PROVE TypeOK'
  <2>1. faults' \in 0 .. MaxFaults
    BY <1>2, FaultStep DEF ServerForgets
  <2>2. 0 \in 0 .. TotalChunks
    BY DumpAssumption
  <2>3. stored' \in [File -> 0 .. TotalChunks]
    BY <1>2, <2>2 DEF ServerForgets
  <2> QED
    BY <1>2, <2>1, <2>3 DEF ServerForgets, card, input, memory, lists, file, ghost
<1>3. ASSUME NEW d \in Dir, Crashes(d) PROVE TypeOK'
  <2>1. newest' \in [Dir -> 0 .. MaxCrashes]
    BY <1>3, DumpAssumption DEF Crashes
  <2>2. faults' \in 0 .. MaxFaults
    BY <1>3, FaultStep DEF Crashes
  <2> QED
    BY <1>3, <2>1, <2>2, RestartType DEF Crashes
<1> QED
  BY <1>1, <1>2, <1>3 DEF Outside

(* The steps of the program, grouped as above. *)
LEMMA Steps ==
  ASSUME [Next]_vars
  PROVE  \/ Input
         \/ Wake \/ Offline \/ RoundBegins \/ RoundFails \/ Ready \/ NotReady \/ RoundEnds
         \/ Lists \/ Sending \/ Outside \/ UNCHANGED vars
BY DEF Next, Uploader, Lists, Sending, Outside

LEMMA TypeStep == TypeOK /\ Writing /\ [Next]_vars => TypeOK'
<1> SUFFICES ASSUME TypeOK, Writing, [Next]_vars PROVE TypeOK'
  OBVIOUS
<1>1. CASE UNCHANGED vars
  BY <1>1 DEF TypeOK, vars, card, input, memory, lists, file, ghost
<1> QED
  BY <1>1, Steps, TypeInput, TypeRound, TypeLists, TypeSending, TypeOutside

-------------------------------------------------------------------------------
(* What each property rests on, group by group.  A step of the input       *)
(* thread only adds finished dumps.                                        *)
LEMMA InputStep == IInv /\ Input => IInv'
<1> SUFFICES ASSUME IInv, Input PROVE IInv'
  OBVIOUS
<1>0. TypeOK'
  BY TypeInput DEF IInv
<1> USE DEF IInv
<1>1. /\ UNCHANGED <<pc, heap, big, listed, cur, off, stored, complete>>
      /\ \/ UNCHANGED <<saved, bins>>
         \/ saved' = saved \cup {saves} /\ bins' = bins \cup {saves}
  <2>1. CASE Combo \/ SaveFails
    BY <2>1 DEF Combo, SaveFails, memory, lists, file, ghost
  <2>2. CASE Save
    BY <2>2 DEF Save, memory, lists, file
  <2>3. CASE Signal
    BY <2>3 DEF Signal, card, memory, lists, file, ghost
  <2> QED
    BY <2>1, <2>2, <2>3 DEF Input
<1>2. Writing'
  BY DumpAssumption DEF Input, Combo, SaveFails, Save, Signal, Writing, TypeOK
<1>3. Finished' /\ Counted' /\ SavedIsKept' /\ NeverSendsUnfinished' /\ BuffersFit'
  BY <1>1 DEF Finished, Counted, SavedIsKept, NeverSendsUnfinished, BuffersFit
<1>4. Signalled'
  BY DEF Input, Combo, SaveFails, Save, Signal, Signalled, ghost
<1> QED
  BY <1>0, <1>2, <1>3, <1>4

(* A round begins with the memory its chunks need. *)
LEMMA RoundStep ==
  IInv /\ (Wake \/ Offline \/ RoundBegins \/ RoundFails \/ Ready \/ NotReady \/ RoundEnds) => IInv'
<1> SUFFICES ASSUME IInv, Wake \/ Offline \/ RoundBegins \/ RoundFails \/ Ready \/ NotReady \/ RoundEnds
             PROVE  IInv'
  OBVIOUS
<1>0. TypeOK'
  BY TypeRound DEF IInv
<1> USE DEF IInv
<1>1. /\ UNCHANGED <<ipc, saves, bins, listed, cur, off, stored, complete, saved>>
      /\ pc' # "send"
  BY DEF Wake, Offline, RoundBegins, RoundFails, Ready, NotReady, RoundEnds,
     card, input, lists, file, ghost
<1>2. Writing' /\ Finished' /\ Counted' /\ SavedIsKept' /\ NeverSendsUnfinished'
  BY <1>1 DEF Writing, Finished, Counted, SavedIsKept, NeverSendsUnfinished
<1>3. Signalled'
  BY <1>1 DEF Wake, Offline, RoundBegins, RoundFails, Ready, NotReady, RoundEnds, Signalled, ghost
<1>4. BuffersFit'
  <2>1. CASE RoundBegins
    <3>1. CASE big' = (bins # {}) /\ heap' = Extended(IF big' THEN Large ELSE Small)
      BY <3>1, ExtendedType DEF BuffersFit
    <3>2. CASE big' = FALSE /\ heap' \in {Extended(Small), Extended(Large)}
      BY <3>2, ExtendedType DEF BuffersFit, Small, Large
    <3> QED
      BY <2>1, <3>1, <3>2 DEF RoundBegins
  <2>2. CASE Ready \/ NotReady
    BY <2>2 DEF Ready, NotReady, BuffersFit, memory
  <2>3. CASE Wake \/ Offline \/ RoundFails \/ RoundEnds
    BY <2>3 DEF Wake, Offline, RoundFails, RoundEnds, BuffersFit
  <2> QED
    BY <2>1, <2>2, <2>3
<1> QED
  BY <1>0, <1>2, <1>3, <1>4

(* Only the names of finished dumps are taken. *)
LEMMA ListsStep == IInv /\ Lists => IInv'
<1> SUFFICES ASSUME IInv, Lists PROVE IInv'
  OBVIOUS
<1>0. TypeOK'
  BY TypeLists DEF IInv
<1> USE DEF IInv
<1>1. /\ UNCHANGED <<ipc, saves, bins, stored, complete, saved, fresh, event, heap, big>>
      /\ pc \notin {"wait", "begin"} /\ (pc' = "send" => off' = 0)
  BY DEF Lists, CrashUpload, CrashSkip, CrashesDone, ListDumps, MemoryDone, MemoryUpload, Upload,
     card, input, memory, ghost
<1>2. Writing' /\ SavedIsKept' /\ NeverSendsUnfinished' /\ Signalled' /\ BuffersFit'
  BY <1>1 DEF Writing, SavedIsKept, NeverSendsUnfinished, Signalled, BuffersFit
<1>3. Counted'
  BY <1>1, DumpAssumption DEF Counted
<1>4. listed' \subseteq listed \cup bins
  BY DEF Lists, CrashUpload, CrashSkip, CrashesDone, ListDumps, DumpNames, MemoryDone,
     MemoryUpload, lists
<1>5. ASSUME pc' = "send", cur' \in MemoryFile PROVE cur'[2] \in saved
  <2>1. ASSUME NEW d \in Dir, CrashUpload(d) PROVE cur' \notin MemoryFile
    <3>1. Crash(d, newest[d]) \in CrashFile
      BY <2>1, Files DEF CrashUpload, TypeOK
    <3> QED
      BY <2>1, <3>1, Files DEF CrashUpload, Upload
  <2>2. ASSUME NEW d \in listed, MemoryUpload(d) PROVE cur'[2] \in saved
    BY <2>2, Files DEF MemoryUpload, Upload, Finished, TypeOK
  <2> QED
    BY <1>5, <2>1, <2>2 DEF Lists, CrashSkip, CrashesDone, ListDumps, MemoryDone
<1> QED
  BY <1>0, <1>1, <1>2, <1>3, <1>4, <1>5 DEF Finished

(* A chunk changes the server's copy of the current file only, and the     *)
(* card gives a dump up when the server has had all of it.                 *)
LEMMA SendingStep == IInv /\ Sending => IInv'
<1> SUFFICES ASSUME IInv, Sending PROVE IInv'
  OBVIOUS
<1>0. TypeOK'
  BY TypeSending DEF IInv
<1> USE DEF IInv
<1>1. /\ UNCHANGED <<ipc, saves, listed, cur, saved, fresh, event, heap, big>>
      /\ pc = "send" /\ complete \subseteq complete' /\ bins' \subseteq bins
  BY DEF Sending, Chunk, ChunkFails, CrashSent, MemorySent, Put, card, input, memory, lists,
     file, ghost
<1>2. Writing' /\ Signalled' /\ BuffersFit' /\ Finished'
  BY <1>1 DEF Writing, Signalled, BuffersFit, Finished
<1>3. Counted'
  <2>1. CASE Chunk
    BY <1>1, <2>1 DEF Chunk, Put, Counted
  <2>2. CASE ChunkFails \/ CrashSent \/ MemorySent
    BY <2>2 DEF ChunkFails, CrashSent, MemorySent, AfterFailure, Counted
  <2> QED
    BY <2>1, <2>2 DEF Sending
<1>4. SavedIsKept'
  <2>1. CASE MemorySent
    <3>1. cur = Memory(cur[2]) /\ cur \in complete
      BY <2>1, Files DEF MemorySent, Counted
    <3> QED
      BY <1>1, <2>1, <3>1 DEF MemorySent, SavedIsKept
  <2>2. CASE Chunk \/ ChunkFails \/ CrashSent
    BY <1>1, <2>2 DEF Chunk, ChunkFails, CrashSent, SavedIsKept, card
  <2> QED
    BY <2>1, <2>2 DEF Sending
<1>5. NeverSendsUnfinished'
  <2> SUFFICES ASSUME NEW d \in 1 .. MaxDumps, stored'[Memory(d)] > 0 PROVE d \in saved
    BY <1>1 DEF NeverSendsUnfinished
  <2>1. CASE cur = Memory(d)
    BY <1>1, <2>1, Files DEF Finished
  <2>2. CASE cur # Memory(d)
    <3>1. stored'[Memory(d)] = stored[Memory(d)]
      BY <2>2, Files DEF Sending, Chunk, ChunkFails, CrashSent, MemorySent, Put, TypeOK
    <3> QED
      BY <3>1 DEF NeverSendsUnfinished
  <2> QED
    BY <2>1, <2>2
<1> QED
  BY <1>0, <1>2, <1>3, <1>4, <1>5

(* A restart forgets the round; the server may lose its copy of a file,    *)
(* not that it had it.                                                     *)
LEMMA OutsideStep == IInv /\ Outside => IInv'
<1> SUFFICES ASSUME IInv, Outside PROVE IInv'
  OBVIOUS
<1>0. TypeOK'
  BY TypeOutside DEF IInv
<1> USE DEF IInv
<1>1. CASE PowerLoss \/ \E d \in Dir : Crashes(d)
  BY <1>0, <1>1 DEF PowerLoss, Crashes, Restart, lists, file, Writing, Finished, Counted,
     Signalled, SavedIsKept, NeverSendsUnfinished, BuffersFit
<1>2. ASSUME NEW f \in File, ServerForgets(f) PROVE IInv'
  <2>1. UNCHANGED <<card, input, event, pc, memory, lists, file, ghost>>
    BY <1>2 DEF ServerForgets
  <2>2. \A d \in 1 .. MaxDumps : stored'[Memory(d)] > 0 => stored[Memory(d)] > 0
    <3> SUFFICES ASSUME NEW d \in 1 .. MaxDumps, stored'[Memory(d)] > 0
                 PROVE  stored[Memory(d)] > 0
      OBVIOUS
    <3>1. Memory(d) \in File /\ stored \in [File -> 0 .. TotalChunks]
      BY Files DEF TypeOK
    <3>2. stored' = [stored EXCEPT ![f] = 0]
      BY <1>2 DEF ServerForgets
    <3>3. Memory(d) # f
      BY <3>1, <3>2
    <3> QED
      BY <3>1, <3>2, <3>3
  <2> QED
    BY <1>0, <2>1, <2>2 DEF card, input, memory, lists, file, ghost, Writing, Finished, Counted,
       Signalled, SavedIsKept, NeverSendsUnfinished, BuffersFit
<1> QED
  BY <1>1, <1>2 DEF Outside

LEMMA Invariance == IInv /\ [Next]_vars => IInv'
<1> SUFFICES ASSUME IInv, [Next]_vars PROVE IInv'
  OBVIOUS
<1>1. CASE UNCHANGED vars
  BY <1>1 DEF IInv, TypeOK, vars, card, input, memory, lists, file, ghost, Writing, Finished,
     Counted, Signalled, SavedIsKept, NeverSendsUnfinished, BuffersFit
<1> QED
  BY <1>1, Steps, InputStep, RoundStep, ListsStep, SendingStep, OutsideStep

LEMMA Initial == Init => IInv
<1> SUFFICES ASSUME Init PROVE IInv
  OBVIOUS
<1>1. TypeOK
  <2>1. newest \in [Dir -> 0 .. MaxCrashes]
    BY DumpAssumption DEF Init
  <2>2. 0 \in 0 .. Large /\ 0 \in 0 .. TotalChunks /\ 0 \in 0 .. MaxFaults /\ 0 \in 0 .. MaxDumps
    BY DumpAssumption DEF Large
  <2>3. doneFile \in Seq(CrashFile)
    BY DEF Init
  <2>4. heap = 0 /\ big = FALSE /\ off = 0 /\ stalls = 0 /\ cur \in File
    BY DEF Init
  <2>5. stored \in [File -> 0 .. TotalChunks] /\ told \in [CrashFile -> 0 .. 2]
    BY <2>2 DEF Init
  <2>6. /\ tmps = {} /\ bins = {} /\ known = {} /\ dirs = {} /\ listed = {} /\ saved = {}
        /\ fresh = {} /\ complete = {} /\ ipc = "idle" /\ saves = 0 /\ event = FALSE
        /\ pc = "wait" /\ misfiled = FALSE /\ faults = 0
    BY DEF Init
  <2>7. /\ heap \in 0 .. Large /\ off \in 0 .. TotalChunks /\ stalls \in 0 .. 2
        /\ saves \in 0 .. MaxDumps /\ faults \in 0 .. MaxFaults
    BY <2>2, <2>4, <2>6
  <2>8. big \in BOOLEAN /\ event \in BOOLEAN /\ misfiled \in BOOLEAN
    BY <2>4, <2>6
  <2>9. /\ ipc \in {"idle", "saving", "signal"}
        /\ pc \in {"wait", "begin", "ready", "crash", "list", "memory", "send", "end"}
    BY <2>6
  <2> QED
    BY <2>1, <2>3, <2>4, <2>5, <2>6, <2>7, <2>8, <2>9 DEF TypeOK
<1>2. NeverSendsUnfinished
  BY Files DEF Init, NeverSendsUnfinished
<1> QED
  BY <1>1, <1>2 DEF Init, IInv, Writing, Finished, Counted, Signalled, SavedIsKept, BuffersFit

-------------------------------------------------------------------------------
(* "deleted once the server has all of them" (main.c:1072), whatever is    *)
(* lost, refused, forgotten or interrupted (uploadMemoryDumps).            *)
THEOREM DumpsKept == Spec => []SavedIsKept
<1>1. IInv => SavedIsKept
  BY DEF IInv
<1> QED
  BY Initial, Invariance, <1>1, PTL DEF Spec

(* The server gets no part of a dump that dumpApp is still writing or      *)
(* whose writing was cut short.                                            *)
THEOREM OnlyFinishedSent == Spec => []NeverSendsUnfinished
<1>1. IInv => NeverSendsUnfinished
  BY DEF IInv
<1> QED
  BY Initial, Invariance, <1>1, PTL DEF Spec

(* "upload it now if online" (main.c:1413): the wake-up of a dump saved    *)
(* during a round survives until the uploader waits.                       *)
THEOREM NoneWaitsForTimer == Spec => []NoDumpWaitsForTimer
<1>1. IInv => NoDumpWaitsForTimer
  BY DEF IInv, Signalled, NoDumpWaitsForTimer
<1> QED
  BY Initial, Invariance, <1>1, PTL DEF Spec

(* roundBegin and roundEnd never leave a round with chunks larger than its *)
(* memory, after any failures of earlier rounds.                           *)
THEOREM MemoryFits == Spec => []BuffersFit
<1>1. IInv => BuffersFit
  BY DEF IInv
<1> QED
  BY Initial, Invariance, <1>1, PTL DEF Spec
==============================================================================
