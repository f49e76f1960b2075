------------------------------- MODULE Monitor ------------------------------
(***************************************************************************)
(* The life of one streamer in internal/recorder: a monitor goroutine that *)
(* probes and records (builtin_monitor.go), the requests that pause,       *)
(* resume, delete, add and reconfigure it (builtin_api.go, export.go), the *)
(* reload of the list file when it was saved by hand (builtin_init.go),    *)
(* and the four maps through which they meet.  Maps are read and written   *)
(* one entry at a time and without a common lock, and so are the steps     *)
(* below.  Streamers share nothing but the file, whose accesses are under  *)
(* one mutex; one streamer stands for all.                                 *)
(***************************************************************************)
EXTENDS Integers, FiniteSets

CONSTANTS Monitors,     \* bound: goroutines alive for the streamer at once
          Requests,     \* HTTP requests handled at the same time
          Ops,          \* the operations people use
          Flags,        \* settings of a streamer
          OffFlags,     \* those with recording and screenshots off
          MaxCommands,  \* bound: requests and edits of the file by hand
          None          \* an empty entry of builtinCancels

AllOps == {"pause", "resume", "delete", "add", "addPaused",
           "setFlags", "restart", "pauseAll", "resumeAll"}

ASSUME FlagsAssumption == Flags # {} /\ OffFlags \subseteq Flags
ASSUME OpsAssumption == Ops \subseteq AllOps \cup {"edit"}
ASSUME NoneAssumption == None \notin Monitors
ASSUME CommandsAssumption == MaxCommands \in Nat

VARIABLES
  line,    \* builtin_urls.txt: the streamer's line, commented out or not
  saved,   \* the file was saved since the reload read it
  state,   \* builtinTaskStates
  active,  \* builtinActiveTasks: a monitor counts as running
  flags,   \* builtinTaskFlags
  mark,    \* builtinConfigRestart: interrupted for new settings
  slot,    \* builtinCancels: the monitor whose context it cancels
  mon,     \* per monitor: position, context cancelled, the flags of its
           \* iteration, cappedThisLive
  req,     \* per request: position; whether the mode changes, or the line
           \* that is added is commented out
  reload,  \* the reload loop: position, what it read of the line and the state
  commands, \* requests and edits so far
  steady,   \* history, per monitor: see FlagsApplied
  looked    \* history: see ReloadStops

fileVars == <<line, saved>>
mapVars == <<state, active, flags, mark, slot>>
otherVars == <<req, reload, commands, looked>>
vars == <<fileVars, mapVars, mon, req, reload, commands, steady, looked>>

Lines == {"absent", "on", "off"}
States == {"none", "running", "paused", "deleted"}
Alive == {m \in Monitors : mon[m].at # "dead"}
InSession == {m \in Monitors : mon[m].at = "session"}

\* Stands where flags are not needed.
DefaultFlags == CHOOSE f \in Flags : TRUE

\* A monitor that has no use for its context and its flags, a request not
\* under way, a reload that needs nothing of what it read.
Between(p, c) ==
    [at |-> p, cancelled |-> FALSE, flags |-> DefaultFlags, capped |-> c]
NoRequest == [at |-> "idle", mode |-> FALSE]
NoReload(p) == [at |-> p, line |-> "absent", state |-> "none"]

MonitorPositions == {"dead", "new", "top", "exit", "open", "flags", "probe",
                     "session", "ended", "waiting", "polling", "forget"}
RequestPositions == {"idle", "pauseCancel", "pauseSave", "resumeSave", "check",
                     "spawn", "deleteCancel", "deleteSave", "deleteForget",
                     "addCheck", "addSave", "addShow", "flagsSave", "flagsMark",
                     "flagsCancel", "restartCancel", "pauseAll",
                     "pauseAllCancel", "resumeAll"}
ReloadPositions == {"idle", "flags", "act", "cancel", "check", "spawn", "sweep",
                    "sweepCancel", "sweepForget"}

MonitorType == [at : MonitorPositions, cancelled : BOOLEAN, flags : Flags,
                capped : BOOLEAN]
RequestType == [at : RequestPositions, mode : BOOLEAN]
ReloadType == [at : ReloadPositions, line : Lines, state : States]

TypeOK ==
    /\ line \in Lines /\ saved \in BOOLEAN
    /\ state \in States /\ active \in BOOLEAN
    /\ flags \in Flags /\ mark \in BOOLEAN /\ slot \in Monitors \cup {None}
    /\ mon \in [Monitors -> MonitorType]
    /\ req \in [Requests -> RequestType]
    /\ reload \in ReloadType
    /\ commands \in 0..MaxCommands
    /\ steady \in [Monitors -> BOOLEAN] /\ looked \in BOOLEAN

\* Start-up: the list is read, the state of a paused streamer is stored, the
\* monitor of another is started (InitBuiltinRecorder).
Init ==
    /\ line \in Lines /\ saved = FALSE
    /\ state = IF line = "off" THEN "paused" ELSE "none"
    /\ active = (line = "on")
    /\ flags \in Flags /\ mark = FALSE /\ slot = None
    /\ mon = [m \in Monitors |->
                Between(IF line = "on" /\ m = CHOOSE n \in Monitors : TRUE
                        THEN "new" ELSE "dead", FALSE)]
    /\ req = [r \in Requests |-> NoRequest]
    /\ reload = NoReload("idle")
    /\ commands = 0
    /\ steady = [m \in Monitors |-> FALSE] /\ looked = FALSE

-----------------------------------------------------------------------------
(* What the requests and the reload share.                                 *)

Unsteady == steady' = [m \in Monitors |-> FALSE]

\* builtinTaskStates.Store.
SetState(s) ==
    /\ state' = s
    /\ IF s = "running" THEN UNCHANGED steady ELSE Unsteady

\* builtinCancels.Load and the call of what it holds.  Elsewhere a monitor
\* does not look at its context again.
Listening == {"flags", "probe", "session", "polling"}

CancelOf(n) ==
    mon' = [m \in Monitors |->
              [mon[m] EXCEPT !.cancelled =
                  @ \/ (m = n /\ mon[m].at \in Listening)]]

CancelSlot == CancelOf(slot)

\* The second half of wrapperStartMonitorIfNotRunning, after the look at
\* builtinActiveTasks: the entry is stored and the goroutine started.
StartMonitor ==
    /\ Alive # Monitors
    /\ active' = TRUE
    /\ mon' = [mon EXCEPT ![CHOOSE m \in Monitors : mon[m].at = "dead"] =
                             Between("new", FALSE)]
    /\ Unsteady

\* syncBuiltinAnchorToTxt, which writes the file even when nothing changes;
\* and updateBuiltinNameInTxt of a probe and persistBuiltinFlagsToTxt, which
\* write it when a name or the flags in the line are new.
SaveLine(l) ==
    /\ line' = IF line = "absent" THEN line ELSE l
    /\ saved' = TRUE

MaySave ==
    saved' \in {saved, saved \/ line # "absent"} /\ UNCHANGED line

\* Record or Screenshot differ (modeChanged).
ModeChanges(f, g) == (f \in OffFlags) # (g \in OffFlags)

-----------------------------------------------------------------------------
(* The monitor goroutine (wrapperStartMonitorIfNotRunning).                *)

MoveTo(m, p) == mon' = [mon EXCEPT ![m].at = p]

\* The same, when it needs its context and its flags no more.
Becomes(m, p, c) == mon' = [mon EXCEPT ![m] = Between(p, c)]

\* The end of an iteration, with cappedThisLive = c.
NextRound(m, c) ==
    /\ Becomes(m, "top", c)
    /\ steady' = [steady EXCEPT ![m] = FALSE]

\* Its first step, some time after the starter went on.
Begin(m) ==
    /\ mon[m].at = "new" /\ MoveTo(m, "top") /\ SetState("running")
    /\ UNCHANGED <<fileVars, active, flags, mark, slot, otherVars>>

\* The top of the loop: the state decides.  A paused monitor looks again.
ReadState(m) ==
    /\ mon[m].at = "top"
    /\ \/ state = "deleted" /\ MoveTo(m, "exit") /\ UNCHANGED steady
       \/ state = "paused" /\ UNCHANGED <<mon, steady>>
       \/ /\ state \notin {"deleted", "paused"} /\ MoveTo(m, "open")
          /\ steady' = [steady EXCEPT ![m] = Alive = {m}]
    /\ UNCHANGED <<fileVars, mapVars, otherVars>>

\* A deleted streamer: the entry is removed, whoever's it is by now.
Exit(m) ==
    /\ mon[m].at = "exit"
    /\ active' = FALSE
    /\ Becomes(m, "dead", FALSE)
    /\ UNCHANGED <<fileVars, state, flags, mark, slot, steady, otherVars>>

\* A new context, published for others to cancel.
Publish(m) ==
    /\ mon[m].at = "open"
    /\ slot' = m
    /\ mon' = [mon EXCEPT ![m].at = "flags", ![m].cancelled = FALSE]
    /\ UNCHANGED <<fileVars, state, active, flags, mark, steady, otherVars>>

\* getBuiltinTaskFlags: the settings this iteration works with.
ReadFlags(m) ==
    /\ mon[m].at = "flags"
    /\ mon' = [mon EXCEPT ![m].at = "probe", ![m].flags = flags]
    /\ UNCHANGED <<fileVars, mapVars, steady, otherVars>>

\* No stream: outside the recording window, a failed probe (the limit of a
\* session stays reached), or offline (it is lifted).
NoStream(m) ==
    /\ mon[m].at = "probe"
    /\ \E c \in {mon[m].capped, FALSE} : Becomes(m, "waiting", c)
    /\ MaySave /\ UNCHANGED <<mapVars, steady, otherVars>>

\* Online, but recorded up to the limit and no new settings: only polled.
Capped(m) ==
    /\ mon[m].at = "probe" /\ mon[m].capped /\ ~mark
    /\ MoveTo(m, "polling")
    /\ MaySave /\ UNCHANGED <<mapVars, steady, otherVars>>

\* Online: RecordStream does nothing under a cancelled context, and ends at
\* once when ffmpeg cannot be started.
Online(m) ==
    /\ mon[m].at = "probe" /\ (mon[m].capped => mark)
    /\ mark' = (mark /\ ~mon[m].capped)
    /\ \E p \in {"session", "ended"} :
          /\ mon[m].cancelled => p = "ended"
          /\ mon' = [mon EXCEPT ![m].at = p, ![m].capped = FALSE]
    /\ MaySave /\ UNCHANGED <<state, active, flags, slot, steady, otherVars>>

\* The stream ends, the recording window closes, ffmpeg fails, the context
\* was cancelled, or the limit of a session was reached (hitMax).  With
\* recording and screenshots off the session is only a wait.
EndSession(m) ==
    /\ mon[m].at = "session"
    /\ \E c \in BOOLEAN :
          /\ c => mon[m].flags \notin OffFlags
          /\ Becomes(m, "ended", c)
    /\ UNCHANGED <<fileVars, mapVars, steady, otherVars>>

\* Interrupted for new settings: start again at once.  Otherwise wait.
Ended(m) ==
    /\ mon[m].at = "ended"
    /\ \/ /\ mark /\ mark' = FALSE
          /\ Becomes(m, "forget", mon[m].capped)
       \/ /\ ~mark /\ UNCHANGED mark
          /\ Becomes(m, "waiting", mon[m].capped)
    /\ UNCHANGED <<fileVars, state, active, flags, slot, steady, otherVars>>

\* Polling ends by its timer or because the context was cancelled; then new
\* settings lift the limit.  The loop goes on without Tail and Forget: the
\* old cancel stays published.
Poll(m) ==
    /\ mon[m].at = "polling"
    /\ \/ NextRound(m, TRUE) /\ UNCHANGED mark
       \/ mon[m].cancelled /\ mark' = FALSE /\ NextRound(m, ~mark)
    /\ UNCHANGED <<fileVars, state, active, flags, slot, otherVars>>

\* The wait is over, by its timer or the context, or was skipped for a
\* streamer paused or deleted: the mark is cleared.
Tail(m) ==
    /\ mon[m].at = "waiting" /\ mark' = FALSE /\ MoveTo(m, "forget")
    /\ UNCHANGED <<fileVars, state, active, flags, slot, steady, otherVars>>

\* The published cancel is removed, whoever's it is by now.
Forget(m) ==
    /\ mon[m].at = "forget" /\ slot' = None /\ NextRound(m, mon[m].capped)
    /\ UNCHANGED <<fileVars, state, active, flags, mark, otherVars>>

MonitorStep(m) ==
    \/ Begin(m) \/ ReadState(m) \/ Exit(m) \/ Publish(m) \/ ReadFlags(m)
    \/ NoStream(m) \/ Capped(m) \/ Online(m) \/ EndSession(m) \/ Ended(m)
    \/ Poll(m) \/ Tail(m) \/ Forget(m)

-----------------------------------------------------------------------------
(* Requests.  Asked(r, op) begins every one.                               *)

GoTo(r, p) == req' = [req EXCEPT ![r].at = p]

Done(r) == req' = [req EXCEPT ![r] = NoRequest]

Asked(r, op) ==
    /\ req[r].at = "idle" /\ op \in Ops
    /\ commands < MaxCommands /\ commands' = commands + 1
    /\ looked' = FALSE
    /\ UNCHANGED reload

\* A later step of a request.
At(r, p) == req[r].at = p /\ UNCHANGED <<reload, commands, looked>>

Pause(r) ==
    /\ Asked(r, "pause") /\ SetState("paused") /\ GoTo(r, "pauseCancel")
    /\ UNCHANGED <<fileVars, active, flags, mark, slot, mon>>

PauseCancel(r) ==
    /\ At(r, "pauseCancel") /\ CancelSlot /\ GoTo(r, "pauseSave")
    /\ UNCHANGED <<fileVars, mapVars, steady>>

PauseSave(r) ==
    /\ At(r, "pauseSave") /\ SaveLine("off") /\ Done(r)
    /\ UNCHANGED <<mapVars, mon, steady>>

Resume(r) ==
    /\ Asked(r, "resume") /\ SetState("running") /\ GoTo(r, "resumeSave")
    /\ UNCHANGED <<fileVars, active, flags, mark, slot, mon>>

ResumeSave(r) ==
    /\ At(r, "resumeSave") /\ SaveLine("on") /\ GoTo(r, "check")
    /\ UNCHANGED <<mapVars, mon, steady>>

\* wrapperStartMonitorIfNotRunning: look, then store and start.
CheckActive(r) ==
    /\ At(r, "check")
    /\ IF active THEN Done(r) ELSE GoTo(r, "spawn")
    /\ UNCHANGED <<fileVars, mapVars, mon, steady>>

Spawn(r) ==
    /\ At(r, "spawn") /\ StartMonitor /\ Done(r)
    /\ UNCHANGED <<fileVars, state, flags, mark, slot>>

Delete(r) ==
    /\ Asked(r, "delete") /\ SetState("deleted") /\ GoTo(r, "deleteCancel")
    /\ UNCHANGED <<fileVars, active, flags, mark, slot, mon>>

DeleteCancel(r) ==
    /\ At(r, "deleteCancel") /\ CancelSlot /\ GoTo(r, "deleteSave")
    /\ UNCHANGED <<fileVars, mapVars, steady>>

DeleteSave(r) ==
    /\ At(r, "deleteSave") /\ SaveLine("absent") /\ GoTo(r, "deleteForget")
    /\ UNCHANGED <<mapVars, mon, steady>>

\* The streamer counts as not monitored from here, whatever its monitor does.
DeleteForget(r) ==
    /\ At(r, "deleteForget") /\ Done(r)
    /\ active' = FALSE
    /\ UNCHANGED <<fileVars, state, flags, mark, slot, mon, steady>>

\* The flags of the line that was typed are stored before anything is
\* checked, also when the streamer turns out to be in the list already.
Add(r, op, f) ==
    /\ Asked(r, op)
    /\ flags' = f /\ Unsteady
    /\ req' = [req EXCEPT ![r] = [at |-> "addCheck", mode |-> op = "addPaused"]]
    /\ UNCHANGED <<fileVars, state, active, mark, slot, mon>>

AddCheck(r) ==
    /\ At(r, "addCheck")
    /\ IF active THEN Done(r) ELSE GoTo(r, "addSave")
    /\ UNCHANGED <<fileVars, mapVars, mon, steady>>

\* A line that is there already - of a streamer without a monitor - is not
\* copied to the new file.
AddSave(r) ==
    /\ At(r, "addSave") /\ GoTo(r, "addShow") /\ saved' = TRUE
    /\ line' = IF line # "absent" THEN "absent"
               ELSE IF req[r].mode THEN "off" ELSE "on"
    /\ UNCHANGED <<mapVars, mon, steady>>

AddShow(r) ==
    /\ At(r, "addShow")
    /\ \/ req[r].mode /\ SetState("paused") /\ Done(r)
       \/ ~req[r].mode /\ GoTo(r, "check") /\ UNCHANGED <<state, steady>>
    /\ UNCHANGED <<fileVars, active, flags, mark, slot, mon>>

SetFlags(r, f) ==
    /\ Asked(r, "setFlags") /\ f # flags
    /\ flags' = f
    /\ req' = [req EXCEPT ![r] = [at |-> "flagsSave",
                                  mode |-> ModeChanges(f, flags)]]
    /\ UNCHANGED <<fileVars, state, active, mark, slot, mon, steady>>

\* As if the request ended when the streamer is not in the list.
FlagsSaveOrQuit(r) ==
    /\ At(r, "flagsSave")
    /\ \/ line = "absent" /\ Done(r)
       \/ line # "absent" /\ GoTo(r, "flagsMark")
    /\ UNCHANGED <<fileVars, mapVars, mon, steady>>

\* persistBuiltinFlagsToTxt.
FlagsSave(r) ==
    /\ At(r, "flagsSave")
    /\ GoTo(r, IF req[r].mode THEN "flagsCancel" ELSE "flagsMark")
    /\ MaySave /\ UNCHANGED <<mapVars, mon, steady>>

FlagsMark(r) ==
    /\ At(r, "flagsMark") /\ mark' = TRUE /\ GoTo(r, "flagsCancel")
    /\ UNCHANGED <<fileVars, state, active, flags, slot, mon, steady>>

FlagsCancel(r) ==
    /\ At(r, "flagsCancel") /\ Done(r)
    /\ IF state = "running" THEN CancelSlot ELSE UNCHANGED mon
    /\ UNCHANGED <<fileVars, mapVars, steady>>

\* RestartActiveRecordings, after a change of the global watermark.
Restart(r) ==
    /\ Asked(r, "restart")
    /\ \/ slot = None /\ UNCHANGED <<mark, req>>
       \/ slot # None /\ mark' = TRUE /\ GoTo(r, "restartCancel")
    /\ UNCHANGED <<fileVars, state, active, flags, slot, mon, steady>>

\* The cancel that was loaded with the entry may by now be replaced, or be of
\* an iteration that is over.
RestartCancel(r) ==
    /\ At(r, "restartCancel") /\ Done(r)
    /\ \E n \in Monitors \cup {None} : CancelOf(n)
    /\ UNCHANGED <<fileVars, mapVars, steady>>

\* apiRecorderControlAll: the file first, then every streamer that has an
\* entry in builtinStatusMap, which is not modelled: there may be one or not.
All(r, op, l) ==
    /\ Asked(r, op) /\ SaveLine(l) /\ GoTo(r, op)
    /\ UNCHANGED <<mapVars, mon, steady>>

PauseAll(r) ==
    /\ At(r, "pauseAll")
    /\ \/ Done(r) /\ UNCHANGED <<state, steady>>
       \/ SetState("paused") /\ GoTo(r, "pauseAllCancel")
    /\ UNCHANGED <<fileVars, active, flags, mark, slot, mon>>

PauseAllCancel(r) ==
    /\ At(r, "pauseAllCancel") /\ CancelSlot /\ Done(r)
    /\ UNCHANGED <<fileVars, mapVars, steady>>

ResumeAll(r) ==
    /\ At(r, "resumeAll")
    /\ \/ Done(r) /\ UNCHANGED <<state, steady>>
       \/ SetState("running") /\ GoTo(r, "check")
    /\ UNCHANGED <<fileVars, active, flags, mark, slot, mon>>

Ask(r) ==
    \/ Pause(r) \/ Resume(r) \/ Delete(r) \/ Restart(r)
    \/ All(r, "pauseAll", "off") \/ All(r, "resumeAll", "on")
    \/ \E f \in Flags :
          SetFlags(r, f) \/ Add(r, "add", f) \/ Add(r, "addPaused", f)

Handle(r) ==
    \/ PauseCancel(r) \/ PauseSave(r) \/ ResumeSave(r) \/ CheckActive(r)
    \/ Spawn(r) \/ DeleteCancel(r) \/ DeleteSave(r) \/ DeleteForget(r)
    \/ AddCheck(r) \/ AddSave(r) \/ AddShow(r) \/ FlagsSave(r)
    \/ FlagsMark(r) \/ FlagsCancel(r) \/ RestartCancel(r) \/ PauseAll(r)
    \/ PauseAllCancel(r) \/ ResumeAll(r)

-----------------------------------------------------------------------------
(* The list edited by hand, and its reload (builtinHotReloadLoop).         *)

Edit ==
    /\ "edit" \in Ops
    /\ commands < MaxCommands /\ commands' = commands + 1
    /\ line' \in Lines /\ saved' = TRUE /\ looked' = FALSE
    /\ UNCHANGED <<mapVars, mon, req, reload, steady>>

\* The list is saved for the sake of another line.
Save ==
    /\ saved' = TRUE
    /\ UNCHANGED <<line, mapVars, mon, steady, otherVars>>

ReloadAt(p) == reload.at = p /\ UNCHANGED <<req, commands>>

\* A step of the reload that starts no monitor and reads no file.
ReloadOn(p) == ReloadAt(p) /\ UNCHANGED looked

ReloadTo(p) == reload' = NoReload(p)

Reloaded == ReloadTo("idle")

\* The line is paused or gone; no request is under way and no monitor about
\* to take its first step.
Settled ==
    /\ line # "on"
    /\ \A r \in Requests : req[r].at = "idle"
    /\ \A m \in Monitors : mon[m].at # "new"

\* The file is newer than the last time.
ReloadRead ==
    /\ ReloadAt("idle") /\ saved
    /\ saved' = FALSE /\ looked' = Settled
    /\ IF line = "absent"
       THEN ReloadTo("sweep")
       ELSE reload' = [at |-> "flags", line |-> line, state |-> "none"]
    /\ UNCHANGED <<line, mapVars, mon, steady>>

\* The flags of the line, whatever was saved there, and a look at the state.
ReloadFlags ==
    /\ ReloadOn("flags")
    /\ reload' = [at |-> "act", line |-> reload.line, state |-> state]
    /\ flags' \in Flags
    /\ IF flags' = flags THEN UNCHANGED steady ELSE Unsteady
    /\ UNCHANGED <<fileVars, state, active, mark, slot, mon>>

\* As if the state were stored only where there is a session to cancel.
ReloadActIfCancel ==
    /\ ReloadOn("act")
    /\ \/ /\ reload.state = "running" /\ reload.line = "off" /\ slot # None
          /\ SetState("paused") /\ ReloadTo("cancel")
       \/ /\ reload.state = "paused" /\ reload.line = "on"
          /\ SetState("running") /\ ReloadTo("check")
       \/ /\ ~(reload.state = "running" /\ reload.line = "off" /\ slot # None)
          /\ ~(reload.state = "paused" /\ reload.line = "on")
          /\ Reloaded /\ UNCHANGED <<state, steady>>
    /\ UNCHANGED <<fileVars, active, flags, mark, slot, mon>>

\* What the line and the state seen call for; a streamer that was deleted
\* keeps its state and is left alone.
ReloadAct ==
    /\ ReloadOn("act")
    /\ \/ /\ reload.state = "none" /\ reload.line = "off"
          /\ SetState("paused") /\ Reloaded
       \/ /\ reload.state = "none" /\ reload.line = "on"
          /\ ReloadTo("check") /\ UNCHANGED <<state, steady>>
       \/ /\ reload.state = "running" /\ reload.line = "off"
          /\ SetState("paused") /\ ReloadTo("cancel")
       \/ /\ reload.state = "paused" /\ reload.line = "on"
          /\ SetState("running") /\ ReloadTo("check")
       \/ /\ <<reload.state, reload.line>> \in
                {"deleted"} \X Lines \cup {<<"running", "on">>,
                                           <<"paused", "off">>}
          /\ Reloaded /\ UNCHANGED <<state, steady>>
    /\ UNCHANGED <<fileVars, active, flags, mark, slot, mon>>

ReloadCancel ==
    /\ ReloadOn("cancel") /\ CancelSlot /\ Reloaded
    /\ UNCHANGED <<fileVars, mapVars, steady>>

ReloadCheck ==
    /\ ReloadOn("check")
    /\ IF active THEN Reloaded ELSE ReloadTo("spawn")
    /\ UNCHANGED <<fileVars, mapVars, mon, steady>>

ReloadSpawn ==
    /\ ReloadAt("spawn") /\ StartMonitor /\ Reloaded /\ looked' = FALSE
    /\ UNCHANGED <<fileVars, state, flags, mark, slot>>

\* A streamer that has a state and no line is deleted.
ReloadSweep ==
    /\ ReloadOn("sweep")
    /\ \/ /\ state \in {"none", "deleted"}
          /\ Reloaded /\ UNCHANGED <<state, steady>>
       \/ /\ state \notin {"none", "deleted"}
          /\ SetState("deleted") /\ ReloadTo("sweepCancel")
    /\ UNCHANGED <<fileVars, active, flags, mark, slot, mon>>

ReloadSweepCancel ==
    /\ ReloadOn("sweepCancel") /\ CancelSlot /\ ReloadTo("sweepForget")
    /\ UNCHANGED <<fileVars, mapVars, steady>>

ReloadSweepForget ==
    /\ ReloadOn("sweepForget") /\ Reloaded
    /\ active' = FALSE
    /\ UNCHANGED <<fileVars, state, flags, mark, slot, mon, steady>>

Reload ==
    \/ ReloadRead \/ ReloadFlags \/ ReloadAct \/ ReloadCancel \/ ReloadCheck
    \/ ReloadSpawn \/ ReloadSweep \/ ReloadSweepCancel \/ ReloadSweepForget

-----------------------------------------------------------------------------
Next ==
    \/ \E m \in Monitors : MonitorStep(m)
    \/ \E r \in Requests : Ask(r) \/ Handle(r)
    \/ Edit \/ Save \/ Reload

Spec == Init /\ [][Next]_vars

-----------------------------------------------------------------------------
\* A session that was left alone since its iteration began - no pause, no
\* deletion, no second monitor, no flags from elsewhere - never goes on under
\* settings that setFlags replaced: its context is cancelled, or the handler
\* is on its way to do so.  The iteration publishes its cancel before it
\* reads the flags, and the handler stores the flags before it looks for a
\* cancel (builtin_monitor.go:48-55, builtin_api.go:360-402).
FlagsApplied ==
    \A m \in InSession :
        steady[m] /\ mon[m].flags # flags /\ ~mon[m].cancelled =>
            \E r \in Requests :
                req[r].at \in {"flagsSave", "flagsMark", "flagsCancel"}

\* Once the reload has read a list in which the streamer is paused or gone,
\* with nothing under way that says otherwise, its pass ends in a state in
\* which no iteration begins - whatever requests, edits, starts and monitors
\* were interleaved before, and as long as no new request, edit or start
\* comes (builtinHotReloadLoop).
ReloadStops == looked /\ reload.at = "idle" => state # "running"

\* At most one monitor records a streamer, not counting those told to stop:
\* that is what the look at builtinActiveTasks is for (builtin_ffmpeg.go:672).
OneRecorder ==
    Cardinality({m \in InSession :
                    ~mon[m].cancelled /\ mon[m].flags \notin OffFlags}) <= 1
=============================================================================
