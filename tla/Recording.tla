------------------------------ MODULE Recording -----------------------------
(***************************************************************************)
(* A recording session (RecordStream, internal/recorder/builtin_ffmpeg.go):*)
(* the ffmpeg process that writes .ts segments, the loop that waits for a  *)
(* cancelled context, the end of the process, or the limits of the         *)
(* streamer, and the goroutine that takes screenshots from the newest      *)
(* segment.  Time passes in steps of five seconds, the period of the look  *)
(* at the limits.                                                          *)
(***************************************************************************)
EXTENDS Integers

CONSTANTS Limits,     \* MaxDuration as the user may set it, 0 for none
          Grace,      \* steps a process gets to end before it is killed
          FirstShots, \* tries for the first picture, 12 in the code
          MaxElapsed, \* bound: steps counted
          MaxSessions \* bound: sessions

ASSUME RecordingAssumption ==
    /\ 0 \in Limits /\ Limits \subseteq 0..MaxElapsed
    /\ Grace \in Nat \ {0} /\ FirstShots \in Nat /\ MaxElapsed \in Nat
    /\ MaxSessions \in Nat

VARIABLES
  main,       \* RecordStream: where it stands
  mode,       \* the flags it was called with: Record, Screenshot
  limit,      \* the limit and whether now is in the window, as set by now
  ctxDone,    \* the caller's context is cancelled
  recordDone, \* recordCtx is cancelled
  ffmpeg,     \* the process
  deaf,       \* it does not react to "q" (a stalled connection)
  elapsed,    \* time since the session started
  tickDue,    \* maxTicker.C holds a tick
  grace,      \* steps until the select of a cancelled session gives up
  killer,     \* steps until time.AfterFunc kills the process, or -1
  stopped,    \* maxStopSent, windowStopSent, hitMax
  shots,      \* the screenshot goroutine
  tries,      \* its tries for the first picture
  segments,   \* the session's .ts files: being written, fresh or cold
  cover,      \* the cover on disk: none, under 1 KB, or a picture
  sessions    \* sessions so far

recordingVars == <<main, mode, limit, ctxDone, recordDone, ffmpeg, deaf,
                   elapsed, tickDue, grace, killer, stopped, shots, tries,
                   segments, cover, sessions>>
shotVars == <<shots, tries, cover>>
callVars == <<mode, ctxDone, deaf, sessions>>
clockVars == <<elapsed, tickDue, grace, killer>>

Modes == [record : BOOLEAN, screenshot : BOOLEAN]
ScreenshotsOnly == mode.screenshot /\ ~mode.record
NotStopped == [max |-> FALSE, window |-> FALSE, hit |-> FALSE]

RecordingTypeOK ==
    /\ main \in {"idle", "off", "start", "select", "quitting", "joining",
                 "cleaning"}
    /\ mode \in Modes /\ limit \in [max : Limits, inWindow : BOOLEAN]
    /\ ctxDone \in BOOLEAN /\ recordDone \in BOOLEAN
    /\ ffmpeg \in {"none", "runs", "asked", "ended"} /\ deaf \in BOOLEAN
    /\ elapsed \in 0..MaxElapsed /\ tickDue \in BOOLEAN
    /\ grace \in 0..Grace /\ killer \in -1..Grace
    /\ stopped \in [max : BOOLEAN, window : BOOLEAN, hit : BOOLEAN]
    /\ shots \in {"none", "first", "regular"} /\ tries \in 0..FirstShots
    /\ segments \subseteq {"open", "fresh", "cold"}
    /\ cover \in {"none", "small", "picture"} /\ sessions \in 0..MaxSessions

RecordingInit ==
    /\ main = "idle" /\ mode = [record |-> TRUE, screenshot |-> TRUE]
    /\ limit = [max |-> 0, inWindow |-> TRUE]
    /\ ctxDone = FALSE /\ recordDone = FALSE /\ ffmpeg = "none" /\ deaf = FALSE
    /\ elapsed = 0 /\ tickDue = FALSE /\ grace = 0 /\ killer = -1
    /\ stopped = NotStopped /\ shots = "none" /\ tries = 0
    /\ segments = {} /\ cover = "none" /\ sessions = 0

-----------------------------------------------------------------------------
(* RecordStream.                                                           *)

MainFromTo(p, q) == main = p /\ main' = q

\* Called by the monitor; with a cancelled context it returns at once.
CallRecordStream(f) ==
    /\ sessions < MaxSessions /\ sessions' = sessions + 1
    /\ MainFromTo("idle", IF f.record \/ f.screenshot THEN "start" ELSE "off")
    /\ mode' = f /\ ctxDone' = FALSE /\ deaf' \in BOOLEAN
    /\ recordDone' = FALSE /\ ffmpeg' = "none" /\ stopped' = NotStopped
    /\ elapsed' = 0 /\ killer' = -1 /\ tickDue' = FALSE
    /\ segments' = {}
    /\ UNCHANGED <<limit, grace, shotVars>>

\* Recording and screenshots off: wait 30 seconds or for the context.
WaitOff ==
    /\ MainFromTo("off", "idle")
    /\ UNCHANGED <<callVars, limit, recordDone, ffmpeg, clockVars, stopped,
                   shotVars, segments>>

StartFails ==
    /\ MainFromTo("start", "idle")
    /\ UNCHANGED <<callVars, limit, recordDone, ffmpeg, clockVars, stopped,
                   shotVars, segments>>

StartFfmpeg ==
    /\ MainFromTo("start", "select")
    /\ ffmpeg' = "runs" /\ segments' = {"open"}
    /\ shots' = IF mode.screenshot THEN "first" ELSE "none"
    /\ tries' = 0
    /\ UNCHANGED <<callVars, limit, recordDone, clockVars, stopped, cover>>

\* "q" is written to ffmpeg and its input closed.
Ask == ffmpeg' = IF ffmpeg = "runs" THEN "asked" ELSE ffmpeg

\* The context is cancelled: the process is asked to end ...
SeeCancelled ==
    /\ MainFromTo("select", "quitting") /\ ctxDone
    /\ Ask /\ grace' = Grace
    /\ UNCHANGED <<callVars, limit, recordDone, elapsed, tickDue, killer,
                   stopped, shotVars, segments>>

\* ... and killed when it does not within ten seconds.
QuitOrKill ==
    /\ MainFromTo("quitting", "joining")
    /\ ffmpeg = "ended" \/ grace = 0
    /\ ffmpeg' = "ended" /\ recordDone' = TRUE
    /\ UNCHANGED <<callVars, limit, clockVars, stopped, shotVars, segments>>

\* cmd.Wait returned: the stream ended or failed, or "q" or Kill worked.
SeeEnd ==
    /\ MainFromTo("select", "joining") /\ ffmpeg = "ended"
    /\ recordDone' = TRUE
    /\ UNCHANGED <<callVars, limit, ffmpeg, clockVars, stopped, shotVars,
                   segments>>

\* The look at the limits as they are set by now; once one of them stopped
\* the session there is nothing more to do.
LooksAtLimits == main = "select" /\ tickDue /\ tickDue' = FALSE

LimitReached == limit.max > 0 /\ elapsed >= limit.max

\* Mutant: nobody kills a process that is asked because of the limits.
LookAndAsk ==
    /\ LooksAtLimits
    /\ IF stopped.max \/ stopped.window \/ (limit.inWindow /\ ~LimitReached)
       THEN UNCHANGED <<ffmpeg, stopped>>
       ELSE /\ Ask
            /\ stopped' = [max |-> limit.inWindow, window |-> ~limit.inWindow,
                           hit |-> limit.inWindow]
    /\ UNCHANGED <<main, callVars, limit, recordDone, elapsed, grace, killer,
                   shotVars, segments>>

Look ==
    /\ LooksAtLimits
    /\ IF stopped.max \/ stopped.window \/ (limit.inWindow /\ ~LimitReached)
       THEN UNCHANGED <<ffmpeg, killer, stopped>>
       ELSE /\ Ask /\ killer' = Grace
            /\ stopped' = [max |-> limit.inWindow, window |-> ~limit.inWindow,
                           hit |-> limit.inWindow]
    /\ UNCHANGED <<main, callVars, limit, recordDone, elapsed, grace,
                   shotVars, segments>>

\* wg.Wait.
Join ==
    /\ MainFromTo("joining", "cleaning") /\ shots = "none"
    /\ UNCHANGED <<callVars, limit, recordDone, ffmpeg, clockVars, stopped,
                   shotVars, segments>>

\* cleanupScreenshotTempSegments: files that grew in the last two minutes are
\* spared unless force is set.
Cleaned(force) ==
    IF ~ScreenshotsOnly THEN segments
    ELSE IF force THEN {} ELSE segments \ {"cold"}

\* Mutant: the last clean-up spares fresh files, too.
CleanUpSparing ==
    /\ MainFromTo("cleaning", "idle")
    /\ segments' = Cleaned(FALSE)
    /\ cover' = IF cover = "small" THEN "none" ELSE cover
    /\ UNCHANGED <<callVars, limit, recordDone, ffmpeg, clockVars, stopped,
                   shots, tries>>

\* The segments of a session that was for screenshots only go, and a cover
\* under 1 KB; hitMax is returned.
CleanUp ==
    /\ MainFromTo("cleaning", "idle")
    /\ segments' = Cleaned(TRUE)
    /\ cover' = IF cover = "small" THEN "none" ELSE cover
    /\ UNCHANGED <<callVars, limit, recordDone, ffmpeg, clockVars, stopped,
                   shots, tries>>

RecordStreamNext ==
    \/ WaitOff \/ StartFails \/ StartFfmpeg \/ SeeCancelled \/ QuitOrKill
    \/ SeeEnd \/ Look \/ Join \/ CleanUp

-----------------------------------------------------------------------------
(* The screenshot goroutine.                                               *)

\* extractBuiltinCoverFromLocalFile: a picture, too small a file, or none.
TakeCover == cover' \in {cover, "small", "picture"}

\* Every five seconds until the first picture, but twelve times at most.
FirstShot ==
    /\ shots = "first"
    /\ IF recordDone THEN shots' = "none" /\ UNCHANGED <<tries, cover>>
       ELSE IF tries = FirstShots
            THEN shots' = "regular" /\ UNCHANGED <<tries, cover>>
            ELSE /\ tries' = tries + 1 /\ TakeCover
                 /\ shots' \in {shots, "regular"}
    /\ UNCHANGED <<main, callVars, limit, recordDone, ffmpeg, clockVars, stopped,
                   segments>>

\* Then at every interval; without recording the cold segments are removed.
\* Between an interval that is over and a cancelled context select chooses.
Shoot ==
    /\ shots = "regular" /\ TakeCover /\ segments' = Cleaned(FALSE)
    /\ UNCHANGED <<main, callVars, limit, recordDone, ffmpeg, clockVars, stopped,
                   shots, tries>>

EndShots ==
    /\ shots = "regular" /\ recordDone /\ shots' = "none"
    /\ UNCHANGED <<main, callVars, limit, recordDone, ffmpeg, clockVars, stopped,
                   tries, cover, segments>>

-----------------------------------------------------------------------------
(* Others: ffmpeg, the user, the clock.                                    *)

FfmpegEnds ==
    /\ ffmpeg = "runs" \/ (ffmpeg = "asked" /\ ~deaf)
    /\ ffmpeg' = "ended"
    /\ UNCHANGED <<main, callVars, limit, recordDone, clockVars, stopped,
                   shotVars, segments>>

\* A segment is full and the next begins; without writes files grow cold.
SegmentFills ==
    /\ ffmpeg \in {"runs", "asked"}
    /\ segments' = segments \cup {"open", "fresh"}
    /\ UNCHANGED <<main, callVars, limit, recordDone, ffmpeg, clockVars, stopped,
                   shotVars>>

SegmentsCool ==
    /\ "fresh" \in segments /\ segments' = (segments \ {"fresh"}) \cup {"cold"}
    /\ UNCHANGED <<main, callVars, limit, recordDone, ffmpeg, clockVars, stopped,
                   shotVars>>

\* recordCtx is derived from the caller's context.
CancelSession ==
    /\ main # "idle" /\ ~ctxDone /\ ctxDone' = TRUE /\ recordDone' = TRUE
    /\ UNCHANGED <<main, mode, limit, ffmpeg, deaf, clockVars,
                   stopped, shotVars, segments, sessions>>

ChangeLimit ==
    /\ limit' \in [max : Limits, inWindow : BOOLEAN] /\ limit' # limit
    /\ UNCHANGED <<main, callVars, recordDone, ffmpeg, clockVars, stopped,
                   shotVars, segments>>

\* Five seconds pass; a timer that is due goes off before.
TimePasses ==
    /\ main # "idle" /\ killer # 0
    /\ elapsed' = IF elapsed < MaxElapsed THEN elapsed + 1 ELSE elapsed
    /\ tickDue' = (main = "select")
    /\ grace' = IF grace > 0 THEN grace - 1 ELSE 0
    /\ killer' = IF killer > 0 THEN killer - 1 ELSE killer
    /\ UNCHANGED <<main, callVars, limit, recordDone, ffmpeg, stopped, shotVars,
                   segments>>

KillByTimer ==
    /\ killer = 0 /\ killer' = -1
    /\ ffmpeg' = IF ffmpeg = "none" THEN "none" ELSE "ended"
    /\ UNCHANGED <<main, callVars, limit, recordDone, elapsed, tickDue, grace,
                   stopped, shotVars, segments>>

RecordingNext ==
    \/ \E f \in Modes : CallRecordStream(f)
    \/ RecordStreamNext \/ FirstShot \/ Shoot \/ EndShots
    \/ FfmpegEnds \/ SegmentFills \/ SegmentsCool \/ CancelSession
    \/ ChangeLimit \/ TimePasses \/ KillByTimer

-----------------------------------------------------------------------------
\* A session that was for screenshots only leaves no .ts behind, however
\* fresh, and nothing writes or removes files of a session that is over
\* (builtin_ffmpeg.go:598-605).
NoTempLeft == main = "idle" /\ ScreenshotsOnly => segments = {}

\* A session that is cancelled, or stopped by its limit or its window, comes
\* to its end even when ffmpeg does not react (builtin_ffmpeg.go:529-545,
\* 561-592).
SessionsEnd ==
    (main # "idle" /\ (ctxDone \/ stopped.max \/ stopped.window))
        ~> (main = "idle")
=============================================================================
