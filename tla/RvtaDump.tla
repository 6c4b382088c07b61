------------------------------- MODULE RvtaDump ------------------------------
(***************************************************************************)
(* Dumps of the RvtA sysmodule (rvta/source/main.c).  The input thread     *)
(* saves a memory dump when the buttons are held and wakes the uploader;   *)
(* the uploader's rounds commit memory, send the newest crash dump of each *)
(* of Luma's folders and every memory dump in chunks, continuing from what *)
(* the server has, and give the memory back.  The console may crash or     *)
(* lose power between any two steps.                                       *)
(*                                                                         *)
(* The logs a round sends first are RvtaLog.  A file is TotalChunks small  *)
(* chunks long, memory is counted in units of ROUND_SMALL.  A memory dump  *)
(* is named by its number: the code takes the console's clock, which is    *)
(* assumed never to repeat a second.                                       *)
(***************************************************************************)
EXTENDS Integers, Sequences, FiniteSets

CONSTANTS Dir,          \* Luma's dump folders
          TotalChunks,  \* length of a dump
          LargeChunk,   \* DUMP_CHUNK_LARGE in small chunks
          MaxListed,    \* memory dumps one round looks at (8)
          DoneRead,     \* entries of crash-uploaded.txt that fit in its buffer
          MaxDumps,     \* bound: dumps the player asks for
          MaxCrashes,   \* bound: crash dumps in each folder
          MaxFaults     \* bound: failures, rounds without network, power losses

ASSUME DumpAssumption ==
  /\ {TotalChunks, LargeChunk, MaxListed} \subseteq Nat \ {0}
  /\ {DoneRead, MaxDumps, MaxFaults} \subseteq Nat /\ MaxCrashes \in Nat \ {0}
  /\ "memory" \notin Dir

Small == 1   \* ROUND_SMALL
Large == 3   \* ROUND_LARGE

VARIABLES
  tmps, bins,      \* SD card: memory dumps being written, and finished ones
  newest,          \* SD card: newest crash dump of each folder, 0 for none
  doneFile,        \* SD card: crash-uploaded.txt
  ipc, saves,      \* input thread: where it is, dumps it has begun
  event,           \* g_uploadEvent
  pc,              \* uploader: where it is
  heap, big,       \* memory above the base heap; is the dump buffer a large one?
  known, dirs,     \* uploadCrashDumps: entries it read, folders left
  listed,          \* uploadMemoryDumps: dumps left
  cur, off, stalls,\* uploadDumpFile
  stored,          \* external: what the server has of each file
  saved, fresh,    \* ghost: dumps that were saved; those saved since the last round began
  complete,        \* ghost: files the server has had all of
  told,            \* ghost: how often a crash dump was reported as uploaded (2: more than once)
  misfiled,        \* ghost: could crash-uploaded.txt not be read or written?
  faults

card   == <<tmps, bins, newest, doneFile>>
input  == <<ipc, saves>>
memory == <<heap, big>>
lists  == <<known, dirs, listed>>
file   == <<cur, off, stalls>>
ghost  == <<saved, fresh, complete, told, misfiled>>
vars   == <<card, input, event, pc, memory, lists, file, stored, ghost, faults>>

Memory(d)   == <<"memory", d>>
Crash(d, n) == <<d, n>>
MemoryFile  == {Memory(d) : d \in 1 .. MaxDumps}
CrashFile   == Dir \X (1 .. MaxCrashes)
File        == MemoryFile \cup CrashFile

TypeOK ==
  /\ tmps \subseteq 1 .. MaxDumps /\ bins \subseteq 1 .. MaxDumps
  /\ newest \in [Dir -> 0 .. MaxCrashes]
  /\ doneFile \in Seq(CrashFile)
  /\ ipc \in {"idle", "saving", "signal"} /\ saves \in 0 .. MaxDumps
  /\ event \in BOOLEAN
  /\ pc \in {"wait", "begin", "ready", "crash", "list", "memory", "send", "end"}
  /\ heap \in 0 .. Large /\ big \in BOOLEAN
  /\ known \subseteq CrashFile /\ dirs \subseteq Dir /\ listed \subseteq 1 .. MaxDumps
  /\ cur \in File /\ off \in 0 .. TotalChunks /\ stalls \in 0 .. 2
  /\ stored \in [File -> 0 .. TotalChunks]
  /\ saved \subseteq 1 .. MaxDumps /\ fresh \subseteq 1 .. MaxDumps
  /\ complete \subseteq File
  /\ told \in [CrashFile -> 0 .. 2] /\ misfiled \in BOOLEAN
  /\ faults \in 0 .. MaxFaults

Init ==
  /\ tmps = {} /\ bins = {}
  /\ newest \in [Dir -> 0 .. 1]
  /\ doneFile = <<>>
  /\ ipc = "idle" /\ saves = 0
  /\ event = FALSE
  /\ pc = "wait"
  /\ heap = 0 /\ big = FALSE
  /\ known = {} /\ dirs = {} /\ listed = {}
  /\ cur \in File /\ off = 0 /\ stalls = 0
  /\ stored = [f \in File |-> 0]
  /\ saved = {} /\ fresh = {}
  /\ complete = {}
  /\ told = [f \in CrashFile |-> 0] /\ misfiled = FALSE
  /\ faults = 0

Fault == faults < MaxFaults /\ faults' = faults + 1
NoFault == UNCHANGED faults

-------------------------------------------------------------------------------
(* Input thread (inputMain, dumpApp). *)

(* The buttons are held outside the cooldown, and the .tmp is created. *)
Combo ==
  /\ ipc = "idle"
  /\ saves < MaxDumps
  /\ saves' = saves + 1
  /\ tmps' = tmps \cup {saves'}
  /\ ipc' = "saving"
  /\ UNCHANGED <<bins, newest, doneFile, event, pc, memory, lists, file, stored, ghost, faults>>

(* A write or the rename failed, and the .tmp is deleted. *)
SaveFails ==
  /\ ipc = "saving"
  /\ Fault
  /\ tmps' = tmps \ {saves}
  /\ ipc' = "idle"
  /\ UNCHANGED <<bins, newest, doneFile, saves, event, pc, memory, lists, file, stored, ghost>>

(* Everything is written and the .tmp becomes a .bin. *)
Save ==
  /\ ipc = "saving"
  /\ tmps' = tmps \ {saves}
  /\ bins' = bins \cup {saves}
  /\ saved' = saved \cup {saves}
  /\ fresh' = fresh \cup {saves}
  /\ ipc' = "signal"
  /\ UNCHANGED <<newest, doneFile, saves, event, pc, memory, lists, file, stored, complete, told,
                 misfiled, faults>>

Signal ==
  /\ ipc = "signal"
  /\ event' = TRUE
  /\ ipc' = "idle"
  /\ UNCHANGED <<card, saves, pc, memory, lists, file, stored, ghost, faults>>

-------------------------------------------------------------------------------
(* Uploader (uploaderMain). *)

(* The event, which is reset by the wait, or UPLOAD_SECONDS have passed. *)
Wake ==
  /\ pc = "wait"
  /\ event' \in {event, FALSE}
  /\ fresh' = {}
  /\ pc' = "begin"
  /\ UNCHANGED <<card, input, memory, lists, file, stored, saved, complete, told, misfiled, faults>>

Offline ==
  /\ pc = "begin"
  /\ Fault
  /\ pc' = "wait"
  /\ UNCHANGED <<card, input, event, memory, lists, file, stored, ghost>>

Extended(want) == IF heap < want THEN want ELSE heap

(* Mutant: the large chunk is kept although only the small size was there. *)
RoundBegins_KeepsLarge ==
  /\ pc = "begin"
  /\ big' = (bins # {})
  /\ \/ heap' = Extended(IF big' THEN Large ELSE Small) /\ NoFault
     \/ heap' = Extended(Small) /\ Fault
  /\ pc' = "ready"
  /\ UNCHANGED <<card, input, event, lists, file, stored, ghost>>

(* roundBegin(memoryDumpWaiting()): large chunks when a dump waits, small  *)
(* ones if the memory or the buffer for them is not to be had.             *)
RoundBegins ==
  /\ pc = "begin"
  /\ \/ big' = (bins # {}) /\ heap' = Extended(IF big' THEN Large ELSE Small) /\ NoFault
     \/ bins # {} /\ big' = FALSE /\ heap' \in {Extended(Small), Extended(Large)} /\ Fault
  /\ pc' = "ready"
  /\ UNCHANGED <<card, input, event, lists, file, stored, ghost>>

(* No memory; what was committed before malloc failed stays committed. *)
RoundFails ==
  /\ pc = "begin"
  /\ Fault
  /\ heap' \in {heap, Extended(Small), Extended(IF bins # {} THEN Large ELSE Small)}
  /\ pc' = "wait"
  /\ UNCHANGED <<card, input, event, big, lists, file, stored, ghost>>

(* Still online, http:C is there: the logs are sent, then uploadCrashDumps *)
(* reads its list, as much as fits in the buffer.                          *)
Ready ==
  /\ pc = "ready"
  /\ \/ /\ known' = {doneFile[i] : i \in {j \in 1 .. Len(doneFile) : j <= DoneRead}}
        /\ UNCHANGED misfiled /\ NoFault
     \/ known' = {} /\ misfiled' = TRUE /\ Fault
  /\ dirs' = Dir
  /\ pc' = "crash"
  /\ UNCHANGED <<card, input, event, memory, listed, file, stored, saved, fresh, complete, told>>

NotReady ==
  /\ pc = "ready"
  /\ Fault
  /\ pc' = "end"
  /\ UNCHANGED <<card, input, event, memory, lists, file, stored, ghost>>

(* uploadDumpFile begins. *)
Upload(f) == cur' = f /\ off' = 0 /\ stalls' = 0 /\ pc' = "send"

(* The newest crash dump of a folder, once. *)
CrashUpload(d) ==
  /\ pc = "crash"
  /\ d \in dirs
  /\ dirs' = dirs \ {d}
  /\ newest[d] # 0 /\ Crash(d, newest[d]) \notin known
  /\ Upload(Crash(d, newest[d]))
  /\ UNCHANGED <<card, input, event, memory, known, listed, stored, ghost, faults>>

CrashSkip(d) ==
  /\ pc = "crash"
  /\ d \in dirs
  /\ dirs' = dirs \ {d}
  /\ \/ (newest[d] = 0 \/ Crash(d, newest[d]) \in known) /\ NoFault
     \/ Fault                                      \* the folder cannot be opened
  /\ UNCHANGED <<card, input, event, pc, memory, known, listed, file, stored, ghost>>

CrashesDone ==
  /\ pc = "crash"
  /\ dirs = {}
  /\ pc' = "list"
  /\ UNCHANGED <<card, input, event, memory, lists, file, stored, ghost, faults>>

(* Mutant: a dump that is still being written is taken for a finished one. *)
DumpNames_Unfinished == bins \cup tmps

(* The names that end in .bin. *)
DumpNames == bins

(* uploadMemoryDumps lists the first MaxListed dumps of the directory. *)
ListDumps ==
  /\ pc = "list"
  /\ \E S \in SUBSET DumpNames :
       /\ Cardinality(S) <= MaxListed
       /\ listed' = S
       /\ \/ (S = DumpNames \/ Cardinality(S) = MaxListed) /\ NoFault
          \/ Fault
  /\ pc' = "memory"
  /\ UNCHANGED <<card, input, event, memory, known, dirs, file, stored, ghost>>

MemoryUpload(d) ==
  /\ pc = "memory"
  /\ d \in listed
  /\ listed' = listed \ {d}
  /\ Upload(Memory(d))
  /\ UNCHANGED <<card, input, event, memory, known, dirs, stored, ghost, faults>>

MemoryDone ==
  /\ pc = "memory"
  /\ listed = {}
  /\ pc' = "end"
  /\ UNCHANGED <<card, input, event, memory, lists, file, stored, ghost, faults>>

-------------------------------------------------------------------------------
(* uploadDumpFile and postDump, one chunk at a time. *)

ChunkEnd == LET n == IF big THEN LargeChunk ELSE 1
            IN  IF off + n < TotalChunks THEN off + n ELSE TotalChunks

(* The server takes a chunk where its copy ends. *)
Accepts == off = stored[cur]
Taken   == IF Accepts THEN ChunkEnd ELSE stored[cur]
Put(n)  == /\ stored' = [stored EXCEPT ![cur] = n]
           /\ complete' = IF n = TotalChunks THEN complete \cup {cur} ELSE complete

(* A crash dump that failed is left for the next round, the folders go on; *)
(* a memory dump that failed ends the round.                               *)
AfterFailure == IF cur \in CrashFile THEN "crash" ELSE "end"

(* Mutant: the answer is not looked at. *)
Chunk_TrustsItself ==
  /\ pc = "send"
  /\ off < TotalChunks
  /\ Put(Taken)
  /\ off' = ChunkEnd
  /\ UNCHANGED <<pc, stalls>>
  /\ UNCHANGED <<card, input, event, memory, lists, cur, saved, fresh, told, misfiled, faults>>

(* "ok" (200) or "size" (409) with what the server has: go on from there,  *)
(* but not more than twice without progress.                               *)
Chunk ==
  /\ pc = "send"
  /\ off < TotalChunks
  /\ Put(Taken)
  /\ IF Taken > off
     THEN off' = Taken /\ UNCHANGED <<pc, stalls>>
     ELSE IF stalls < 2
          THEN off' = Taken /\ stalls' = stalls + 1 /\ UNCHANGED pc
          ELSE pc' = AfterFailure /\ UNCHANGED <<off, stalls>>
  /\ UNCHANGED <<card, input, event, memory, lists, cur, saved, fresh, told, misfiled, faults>>

(* The file cannot be read, the request or its answer is lost, or the      *)
(* server refuses.                                                         *)
ChunkFails ==
  /\ pc = "send"
  /\ off < TotalChunks
  /\ Fault
  /\ Put(stored[cur]) \/ Put(Taken)
  /\ pc' = AfterFailure
  /\ UNCHANGED <<card, input, event, memory, lists, file, saved, fresh, told, misfiled>>

(* A crash dump is sent: remember it (if that works) and blink. *)
CrashSent ==
  /\ pc = "send"
  /\ off = TotalChunks
  /\ cur \in CrashFile
  /\ told' = [told EXCEPT ![cur] = IF @ < 2 THEN @ + 1 ELSE 2]
  /\ \/ doneFile' = Append(doneFile, cur) /\ UNCHANGED misfiled /\ NoFault
     \/ UNCHANGED doneFile /\ misfiled' = TRUE /\ Fault
  /\ pc' = "crash"
  /\ UNCHANGED <<tmps, bins, newest, input, event, memory, lists, file, stored, saved, fresh,
                 complete>>

(* Mutant: a sent dump stays on the card. *)
MemorySent_Keeps ==
  /\ pc = "send"
  /\ off = TotalChunks
  /\ cur \in MemoryFile
  /\ pc' = "memory"
  /\ UNCHANGED <<card, input, event, memory, lists, file, stored, ghost, faults>>

(* A memory dump is sent: delete it (if that works). *)
MemorySent ==
  /\ pc = "send"
  /\ off = TotalChunks
  /\ cur \in MemoryFile
  /\ \/ bins' = bins \ {cur[2]} /\ NoFault
     \/ UNCHANGED bins /\ Fault
  /\ pc' = "memory"
  /\ UNCHANGED <<tmps, newest, doneFile, input, event, memory, lists, file, stored, ghost>>

(* Mutant: the event is cleared once more before the wait. *)
RoundEnds_ClearsEvent ==
  /\ pc = "end"
  /\ heap' = 0 /\ NoFault
  /\ event' = FALSE
  /\ pc' = "wait"
  /\ UNCHANGED <<card, input, big, lists, file, stored, ghost>>

(* roundEnd: the memory goes back, unless the kernel refuses to take it. *)
RoundEnds ==
  /\ pc = "end"
  /\ \/ heap' = 0 /\ NoFault
     \/ UNCHANGED heap /\ Fault
  /\ pc' = "wait"
  /\ UNCHANGED <<card, input, event, big, lists, file, stored, ghost>>

-------------------------------------------------------------------------------
(* The server loses what it has of a file. *)
ServerForgets(f) ==
  /\ Fault
  /\ stored[f] > 0
  /\ stored' = [stored EXCEPT ![f] = 0]
  /\ UNCHANGED <<card, input, event, pc, memory, lists, file, ghost>>

Restart ==
  /\ ipc' = "idle"
  /\ event' = FALSE
  /\ pc' = "wait"
  /\ heap' = 0 /\ big' = FALSE
  /\ fresh' = {}
  /\ UNCHANGED <<tmps, bins, doneFile, saves, lists, file, stored, saved, complete, told, misfiled>>

(* A crash: Luma saves a dump and restarts the console. *)
Crashes(d) ==
  /\ newest[d] < MaxCrashes
  /\ newest' = [newest EXCEPT ![d] = @ + 1]
  /\ Restart
  /\ NoFault

PowerLoss ==
  /\ Fault
  /\ Restart
  /\ UNCHANGED newest

Input == Combo \/ SaveFails \/ Save \/ Signal

Uploader ==
  \/ Wake \/ Offline \/ RoundBegins \/ RoundFails \/ Ready \/ NotReady
  \/ \E d \in Dir : CrashUpload(d) \/ CrashSkip(d)
  \/ CrashesDone \/ ListDumps
  \/ \E d \in listed : MemoryUpload(d)
  \/ MemoryDone \/ Chunk \/ ChunkFails \/ CrashSent \/ MemorySent \/ RoundEnds

Next ==
  \/ Input \/ Uploader \/ PowerLoss
  \/ \E f \in File : ServerForgets(f)
  \/ \E d \in Dir : Crashes(d)

Spec == Init /\ [][Next]_vars

(* The uploader's waits and requests all end (they have timeouts); faults  *)
(* and crashes are finite, so from some moment on rounds are online.       *)
FairSpec == Spec /\ WF_vars(Uploader)

-------------------------------------------------------------------------------
(* "deleted once the server has all of them" (main.c:1072): a memory dump  *)
(* that was saved is on the card until the server has had every chunk of   *)
(* it, whatever is lost, refused, forgotten or interrupted on the way.     *)
SavedIsKept == \A d \in saved : d \in bins \/ Memory(d) \in complete

(* The server never gets a byte of a dump that is still being written, nor *)
(* of one whose writing was cut short.                                     *)
NeverSendsUnfinished == \A d \in 1 .. MaxDumps : stored[Memory(d)] > 0 => d \in saved

(* "upload it now if online" (main.c:1413): while the uploader waits, no   *)
(* dump that was saved since its last round began is left to the timer.    *)
NoDumpWaitsForTimer == pc = "wait" /\ fresh # {} => event \/ ipc = "signal"

(* Large chunks are only used with the memory for them, also when an       *)
(* earlier round could not give its memory back or got less than it asked. *)
BuffersFit ==
  pc \notin {"wait", "begin"} => heap >= (IF big THEN Large ELSE Small)

(* Every saved dump reaches the server and leaves the card, and the newest *)
(* crash dump of each folder reaches it unless a newer one takes its place: *)
(* no file is stuck behind another one, in any order of rounds and faults. *)
EventuallySent ==
  /\ \A d \in 1 .. MaxDumps : d \in bins ~> Memory(d) \in complete /\ d \notin bins
  /\ \A d \in Dir, n \in 1 .. MaxCrashes :
       newest[d] = n ~> Crash(d, n) \in complete \/ newest[d] > n

-------------------------------------------------------------------------------
(* "Newest Luma crash dump in each folder ..., once" (main.c:1026). *)
ReportedOnce == ~misfiled => \A f \in CrashFile : told[f] <= 1
==============================================================================
