------------------------------ MODULE Retained ------------------------------
(***************************************************************************)
(* What the API keeps of what it is given, the work ledger aside: the      *)
(* output of a terminal in its ring buffer (PtyOutput), messages and       *)
(* memories (JsonlStore), canvases (CanvasStore), attachments of OS agents *)
(* (Attachments) and the daily memory (DailyMemory).  They share nothing,  *)
(* so a state is that of one of them, the one that `store` names: what its *)
(* variables mean is in its module, and those of the others are Unused.    *)
(***************************************************************************)
CONSTANTS
  Alphabets, MaxBytes, MaxRead, BatchMax,  \* PtyOutput
  Requests, Faults,                        \* the others
  Ids,                                     \* CanvasStore
  Agents,                                  \* Attachments
  Unused

VARIABLES
  store,
  stream, carry, norm, stale, flushed, ring, done,
  file, pc, gone, mem, up, met, asks, copy, out, anew, lapses, last, exists, existed

P == INSTANCE PtyOutput
J == INSTANCE JsonlStore
C == INSTANCE CanvasStore
A == INSTANCE Attachments
D == INSTANCE DailyMemory

ASSUME RetainedAssumption ==
  /\ P!PtyOutputAssumption
  /\ J!JsonlAssumption /\ C!CanvasAssumption /\ A!AttachmentsAssumption /\ D!DailyAssumption

ofOutput == <<stream, carry, norm, stale, flushed, ring, done>>
ofFiles == <<file, pc, gone, mem, up, met, asks, copy, out, anew, lapses, last, exists, existed>>
vars == <<store, ofOutput, ofFiles>>

OutputOff ==
  /\ stream = Unused /\ carry = Unused /\ norm = Unused /\ stale = Unused
  /\ flushed = Unused /\ ring = Unused /\ done = Unused
ListOff == mem = Unused /\ up = Unused
CopiesOff == asks = Unused /\ copy = Unused /\ lapses = Unused
CanvasOff == out = Unused /\ anew = Unused
DailyOff == exists = Unused /\ existed = Unused
FilesOff ==
  /\ file = Unused /\ pc = Unused /\ gone = Unused /\ met = Unused /\ last = Unused
  /\ ListOff /\ CopiesOff /\ CanvasOff /\ DailyOff

Init ==
  \/ store = "output" /\ P!Init /\ FilesOff
  \/ /\ OutputOff
     /\ \/ store = "jsonl" /\ J!Init /\ CopiesOff /\ CanvasOff /\ last = Unused /\ DailyOff
        \/ store = "canvas" /\ C!Init /\ last = Unused /\ DailyOff
        \/ store = "attachments" /\ A!Init /\ ListOff /\ met = Unused /\ CanvasOff /\ DailyOff
        \/ store = "daily" /\ D!Init /\ ListOff /\ CopiesOff /\ CanvasOff /\ last = Unused

notJsonl == <<asks, copy, out, anew, lapses, last, exists, existed>>
notCanvas == <<last, exists, existed>>
notAttachments == <<mem, up, met, out, anew, exists, existed>>
notDaily == <<mem, up, asks, copy, out, anew, lapses, last>>

Next ==
  \/ store = "output" /\ P!Next /\ UNCHANGED <<store, ofFiles>>
  \/ store = "jsonl" /\ J!Next /\ UNCHANGED <<store, ofOutput, notJsonl>>
  \/ store = "canvas" /\ C!Next /\ UNCHANGED <<store, ofOutput, notCanvas>>
  \/ store = "attachments" /\ A!Next /\ UNCHANGED <<store, ofOutput, notAttachments>>
  \/ store = "daily" /\ D!Next /\ UNCHANGED <<store, ofOutput, notDaily>>

Spec == Init /\ [][Next]_vars

----------------------------------------------------------------------------
(* PROPERTIES *)

(* Each store's state is well typed.                                       *)
TypeOK ==
  /\ store \in {"output", "jsonl", "canvas", "attachments", "daily"}
  /\ store = "output" => P!TypeOK
  /\ store = "jsonl" => J!TypeOK
  /\ store = "canvas" => C!TypeOK
  /\ store = "attachments" => A!TypeOK
  /\ store = "daily" => D!TypeOK

(* What was given is kept, but for what overlapping requests and writes    *)
(* that failed or were cut short take away: output goes to the ring buffer *)
(* line by line (PtyOutput), entries keep their lines (JsonlStore),        *)
(* canvases their changes (CanvasStore), agents their states (Attachments) *)
(* and days their checkpoints and one heading (DailyMemory).               *)
GivenIsKept ==
  /\ store = "output" => P!NothingLost
  /\ store = "jsonl" => J!SavedIsKept
  /\ store = "canvas" => C!ChangesKept
  /\ store = "attachments" => A!AttachmentsHold
  /\ store = "daily" => D!HeadedOnce

(* However a stream was cut into reads, what comes out is the output of    *)
(* the whole stream (PtyOutput).                                           *)
ChunkingInvisible == store = "output" => P!ChunkingInvisible

(* The file and what is in memory tell the same: the lines of the JSONL    *)
(* stores in the same order, until requests overlap (JsonlStore), and the  *)
(* canvases whenever nobody writes them (CanvasStore).                     *)
MemoryTellsFile ==
  /\ store = "jsonl" => J!ListTellsFile
  /\ store = "canvas" => C!FileInStep
=============================================================================
