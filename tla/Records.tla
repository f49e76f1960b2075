------------------------------- MODULE Records ------------------------------
(***************************************************************************)
(* What the program keeps about finished uploads (internal/storage): the   *)
(* success log and the directory statistics, changed in memory at the end  *)
(* of HandleFile and saved by two loops that take a dirty mark, and the    *)
(* start that moves data files of older versions into the data directory   *)
(* and loads them (ApplyDataDir of internal/app/run.go).  Both stores hold *)
(* the uploads they count; a file is written as a whole or not at all      *)
(* (fsutil.AtomicWrite), a copy may break off.                             *)
(***************************************************************************)
EXTENDS Integers, Sequences, FiniteSets, SequencesExt

CONSTANTS Uploads,      \* uploads that finish, each by a worker of its own
          Earlier,      \* those in the data files of an older version
          Cap,          \* defaultSuccessCap
          MaxStarts     \* bound: starts of the process

ASSUME RecordsAssumption ==
    /\ Earlier \subseteq Uploads /\ IsFiniteSet(Uploads)
    /\ Cap \in Nat \ {0} /\ MaxStarts \in Nat \ {0}
    /\ Uploads \cap {"none", "broken"} = {} \* the marks of None and Broken

Stores == {"success", "dirs"}

VARIABLES
  process,   \* "off", "moving" or "loading" (at the start), "up", "stopping"
  starts,    \* counter of the bound
  upload,    \* how far the end of each upload's HandleFile is
  memory,    \* per store: its records
  dirty,     \* per store: the mark
  saver,     \* per store: position of its PersistLoop, its snapshot
  stoppable, \* per store: its loop was given the context (AppCtx)
  oldFile, newFile, \* per store: the data file at the old and at the new place
  failed     \* history, per store: the last write or move failed

recordVars == <<process, starts, upload, memory, dirty, saver, stoppable,
                oldFile, newFile, failed>>
memoryVars == <<memory, dirty, saver, stoppable>>
diskVars == <<oldFile, newFile, failed>>

None == <<"none">>     \* no file
Broken == <<"broken">> \* a copy that broke off: it does not parse
Whole(f) == f \notin {None, Broken}

\* What the log holds at most; no start trims the file of an older version.
MostKept == IF Cardinality(Earlier) > Cap THEN Cardinality(Earlier) ELSE Cap

SaverRests == [at |-> "tick", snap |-> <<>>]

UploadStages == {"none", "append", "mark", "count", "countMark", "done"}

RecordsTypeOK ==
    /\ process \in {"off", "moving", "loading", "up", "stopping"}
    /\ starts \in 0..MaxStarts
    /\ upload \in [Uploads -> UploadStages]
    /\ \A s \in Stores :
          /\ memory[s] \in Seq(Uploads) /\ dirty[s] \in BOOLEAN
          /\ Len(memory["success"]) <= MostKept
          /\ saver[s].at \in {"tick", "flush", "write", "ended"}
          /\ saver[s].snap \in Seq(Uploads) /\ stoppable[s] \in BOOLEAN
          /\ oldFile[s] \in {None} \cup Seq(Uploads)
          /\ newFile[s] \in {None, Broken} \cup Seq(Uploads)
          /\ failed[s] \in BOOLEAN

RecordsInit ==
    /\ process = "off" /\ starts = 0
    /\ upload = [u \in Uploads |-> IF u \in Earlier THEN "done" ELSE "none"]
    /\ memory = [s \in Stores |-> <<>>] /\ dirty = [s \in Stores |-> FALSE]
    /\ saver = [s \in Stores |-> SaverRests]
    /\ stoppable = [s \in Stores |-> FALSE]
    /\ oldFile = [s \in Stores |-> SetToSeq(Earlier)]
    /\ newFile = [s \in Stores |-> None] /\ failed = [s \in Stores |-> FALSE]

\* As if nothing were ever trimmed.
YoungestAndOlder(list, n) == list

\* The youngest n of a list, as the rings of success.go and history.go keep.
Youngest(list, n) ==
    IF Len(list) > n THEN SubSeq(list, Len(list) - n + 1, Len(list)) ELSE list

-----------------------------------------------------------------------------
(* Start.                                                                  *)

Start ==
    /\ process = "off" /\ starts < MaxStarts
    /\ process' = "moving" /\ starts' = starts + 1
    /\ UNCHANGED <<upload, memoryVars, diskVars>>

\* migrateLegacyDataFiles: a file at the new place is kept, and what cannot
\* be renamed is copied and then removed (moveFile).
Movable(s) == process = "moving" /\ newFile[s] = None /\ oldFile[s] # None

Rename(s) ==
    /\ Movable(s)
    /\ newFile' = [newFile EXCEPT ![s] = oldFile[s]]
    /\ oldFile' = [oldFile EXCEPT ![s] = None]
    /\ UNCHANGED <<process, starts, upload, memoryVars, failed>>

\* As if the source were removed whatever became of the copy.
CopyAndRemove(s) ==
    /\ Movable(s)
    /\ \E copy \in {oldFile[s], Broken} :
          /\ newFile' = [newFile EXCEPT ![s] = copy]
          /\ oldFile' = [oldFile EXCEPT ![s] = None]
          /\ failed' = [failed EXCEPT ![s] = copy = Broken]
    /\ UNCHANGED <<process, starts, upload, memoryVars>>

\* Another disk: the copy may break off, and so may the process after it.
Copy(s) ==
    /\ Movable(s)
    /\ \/ /\ newFile' = [newFile EXCEPT ![s] = oldFile[s]]
          /\ oldFile' \in {oldFile, [oldFile EXCEPT ![s] = None]}
          /\ UNCHANGED failed
       \/ /\ newFile' = [newFile EXCEPT ![s] = Broken]
          /\ failed' = [failed EXCEPT ![s] = TRUE] /\ UNCHANGED oldFile
    /\ UNCHANGED <<process, starts, upload, memoryVars>>

Moved ==
    /\ process = "moving" /\ \A s \in Stores : ~Movable(s)
    /\ process' = "loading"
    /\ UNCHANGED <<starts, upload, memoryVars, diskVars>>

\* Load: a file that is not there, or does not parse, gives no records.
LoadOf(s) == IF Whole(newFile[s]) THEN newFile[s] ELSE <<>>

\* The loops start before manageWorkers has made the context or after it:
\* only in the second case do they see the end (run.go:218-220).
Load ==
    /\ process = "loading" /\ process' = "up"
    /\ memory' = [s \in Stores |-> LoadOf(s)]
    /\ dirty' = [s \in Stores |-> FALSE]
    /\ saver' = [s \in Stores |-> SaverRests]
    /\ stoppable' \in [Stores -> BOOLEAN]
    /\ failed' = [s \in Stores |-> FALSE]
    /\ UNCHANGED <<starts, upload, oldFile, newFile>>

-----------------------------------------------------------------------------
(* The end of an upload: the success log, then the directory.              *)

Alive == process \in {"up", "stopping"}

Upload(u, p, q) ==
    /\ Alive /\ upload[u] = p /\ upload' = [upload EXCEPT ![u] = q]
    /\ UNCHANGED <<process, starts, saver, stoppable, diskVars>>

\* SuccessStore.Add: the figures of the charts, then the record ...
Finish(u) == Upload(u, "none", "append") /\ UNCHANGED <<memory, dirty>>

AddRecord(u) ==
    /\ Upload(u, "append", "mark")
    /\ memory' = [memory EXCEPT !["success"] = Youngest(Append(@, u), Cap)]
    /\ UNCHANGED dirty

\* ... then the mark.
MarkRecord(u) ==
    /\ Upload(u, "mark", "count")
    /\ dirty' = [dirty EXCEPT !["success"] = TRUE] /\ UNCHANGED memory

\* bumpDir, and its mark.
BumpDir(u) ==
    /\ Upload(u, "count", "countMark")
    /\ memory' = [memory EXCEPT !["dirs"] = Append(@, u)]
    /\ UNCHANGED dirty

MarkDir(u) ==
    /\ Upload(u, "countMark", "done")
    /\ dirty' = [dirty EXCEPT !["dirs"] = TRUE] /\ UNCHANGED memory

-----------------------------------------------------------------------------
(* PersistLoop and Flush.                                                  *)

SaverFromTo(s, p, q) == Alive /\ saver[s].at = p /\ saver' = [saver EXCEPT ![s] = q]

TakeDirty(s) ==
    /\ dirty[s] /\ SaverFromTo(s, "tick", [at |-> "flush", snap |-> <<>>])
    /\ dirty' = [dirty EXCEPT ![s] = FALSE]
    /\ UNCHANGED <<process, starts, upload, memory, stoppable, diskVars>>

SnapshotRecords(s) ==
    /\ SaverFromTo(s, "flush", [at |-> "write", snap |-> memory[s]])
    /\ UNCHANGED <<process, starts, upload, memory, dirty, stoppable, diskVars>>

\* As if the mark were cleared after the write.
AtomicWriteAndClear(s) ==
    /\ SaverFromTo(s, "write", SaverRests)
    /\ newFile' = [newFile EXCEPT ![s] = saver[s].snap]
    /\ failed' = [failed EXCEPT ![s] = FALSE]
    /\ dirty' = [dirty EXCEPT ![s] = FALSE]
    /\ UNCHANGED <<process, starts, upload, memory, stoppable, oldFile>>

\* A failure is logged; the mark is not set again.
AtomicWrite(s) ==
    /\ SaverFromTo(s, "write", SaverRests)
    /\ \/ /\ newFile' = [newFile EXCEPT ![s] = saver[s].snap]
          /\ failed' = [failed EXCEPT ![s] = FALSE]
       \/ failed' = [failed EXCEPT ![s] = TRUE] /\ UNCHANGED newFile
    /\ UNCHANGED <<process, starts, upload, memory, dirty, stoppable, oldFile>>

\* The loop ends with its context, whatever is marked.
SaverEnds(s) ==
    /\ process = "stopping" /\ stoppable[s]
    /\ SaverFromTo(s, "tick", [at |-> "ended", snap |-> <<>>])
    /\ UNCHANGED <<process, starts, upload, memory, dirty, stoppable, diskVars>>

\* SIGTERM: the context is cancelled, and two seconds later the process ends.
Signal ==
    /\ process = "up" /\ process' = "stopping"
    /\ UNCHANGED <<starts, upload, memoryVars, diskVars>>

\* That end, or a crash at any moment: what is in memory is gone, and the
\* uploads under way are over.
ProcessEnds ==
    /\ process # "off" /\ process' = "off"
    /\ upload' = [u \in Uploads |-> IF upload[u] = "none" THEN "none" ELSE "done"]
    /\ memory' = [s \in Stores |-> <<>>] /\ dirty' = [s \in Stores |-> FALSE]
    /\ saver' = [s \in Stores |-> SaverRests]
    /\ stoppable' = [s \in Stores |-> FALSE]
    /\ UNCHANGED <<starts, diskVars>>

RecordsNext ==
    \/ Start \/ Moved \/ Load \/ Signal \/ ProcessEnds
    \/ \E s \in Stores : \/ Rename(s) \/ Copy(s) \/ TakeDirty(s) \/ SnapshotRecords(s)
                         \/ AtomicWrite(s) \/ SaverEnds(s)
    \/ \E u \in Uploads : \/ Finish(u) \/ AddRecord(u) \/ MarkRecord(u)
                          \/ BumpDir(u) \/ MarkDir(u)

-----------------------------------------------------------------------------
\* What is in memory and not in the file is marked, is about to be marked by
\* the upload that brought it, or is in the hands of the saver - unless a write
\* failed: no order of the marks, snapshots and additions loses a record
\* (Add, bumpDir, TakeDirty, Flush).
UnsavedIsMarked ==
    Alive => \A s \in Stores :
        \/ memory[s] = LoadOf(s)
        \/ dirty[s] \/ failed[s]
        \/ \E u \in Uploads :
              upload[u] = (IF s = "success" THEN "mark" ELSE "countMark")
        \/ saver[s].at = "flush"
        \/ saver[s].at = "write" /\ saver[s].snap = memory[s]

\* A list still has the records of the older version; only a full log may have
\* dropped them for younger ones.
KeepsEarlier(s, list) == \/ Earlier \subseteq ToSet(list)
                         \/ s = "success" /\ Len(list) >= Cap

\* The records of the older version stay somewhere, in their old file or in the
\* new one, however often a move is interrupted or fails, a file is written and
\* the process ends (moveFile, migrateLegacyDataFiles, Load, Flush).
EarlierIsKept ==
    \A s \in Stores : \/ oldFile[s] = SetToSeq(Earlier)
                      \/ Whole(newFile[s]) /\ KeepsEarlier(s, newFile[s])
=============================================================================
