---------------------------- MODULE ArchiveState ----------------------------
(***************************************************************************)
(* What the upload pipeline (Pipeline) and the highlight loop (Highlight)  *)
(* share: the recordings on the local disk, the files on the remote, the   *)
(* hash database, the queue's marks, the highlight verdicts, the claims by *)
(* which the pipeline leaves a file to the loop, and the configuration.    *)
(*                                                                         *)
(* A recording is a clip; a clip has a .ts file and, once converted, an    *)
(* .mp4 file of the same name.  All clips are of one streamer.  A file     *)
(* stands for its content, its hash and its remote name: no two clips get  *)
(* the same remote name, and a file no writer touched for two minutes is   *)
(* complete.  Time is left open: a file on the disk may or may not be old  *)
(* enough for a scan, a pass or the sweep, and a claim for the reaper.     *)
(***************************************************************************)
EXTENDS Integers, FiniteSets

CONSTANTS Clips,         \* the recordings
          Workers,       \* the worker goroutines
          MaxAttempts,   \* maxHighlightAttempts
          Sweeps,        \* SourceRetentionDays is positive
          AppendFails,   \* the hash file may be out of reach
          None           \* no file

ASSUME AttemptsAssumption == MaxAttempts \in Nat \ {0}

Kinds == {"ts", "mp4"}
Files == Clips \X Kinds
ClipOf(f) == f[1]
IsTS(f) == f[2] = "ts"
Mp4Of(f) == <<f[1], "mp4">>

ASSUME SwitchesAssumption ==
    Sweeps \in BOOLEAN /\ AppendFails \in BOOLEAN
ASSUME NoFileAssumption == None \notin Files

VARIABLES
    made,       \* the clips recorded so far
    disk,       \* files on the local disk
    remote,     \* files the remote holds
    known,      \* hashstore.Store.cache
    saved,      \* the hash file on disk
    marked,     \* Queue.enqueued
    settled,    \* files with a highlight produced or none found
    attempts,   \* [Files -> failed analyses], highlightEntry.Attempts
    claimed,    \* highlightClaimed
    cached,     \* the streamer's directory is in highlightTargetDirs
    recorder,   \* the recorder has loaded its streamers
    config,     \* [flag, enable, only, upload, convert]: the streamer's flag and
                \* the global switch of highlights, whether the streamer is
                \* "highlights only", EnableUpload and ConvertMP4
    excused     \* history: clips given up on purpose, by the retention sweep or
                \* unsent with a verdict, being "highlights only"

diskVars == <<made, disk, remote>>
hashVars == <<known, saved>>
verdictVars == <<settled, attempts>>
settingVars == <<cached, recorder, config>>

Configs == [flag : 0..2, enable : BOOLEAN, only : BOOLEAN, upload : BOOLEAN,
            convert : BOOLEAN]

-----------------------------------------------------------------------------
\* triStateOn: 1 forces on, 2 forces off, anything else follows the global.
TriStateOn(v, global) == v = 1 \/ (v # 2 /\ global)

\* The streamer is one the highlight loop analyses.
WantsHighlight == TriStateOn(config.flag, config.enable)
HighlightTarget == recorder /\ WantsHighlight
\* The streamer's originals match HighlightOnlyPrefixes.
OnlyTarget == recorder /\ config.only

ShouldSkipUpload == config.enable /\ OnlyTarget

\* Faulty variant: one attempt too many.
CanRetryOnceMore(f) == f \notin settled /\ attempts[f] <= MaxAttempts

\* highlightCanRetry: never analysed, or failed too few times.
CanRetry(f) == f \notin settled /\ attempts[f] < MaxAttempts
=============================================================================
