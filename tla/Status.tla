------------------------------- MODULE Status -------------------------------
(***************************************************************************)
(* What the console is told of one streamer (internal/recorder):           *)
(* builtinStatusMap, which monitors fill through updateBuiltinStatus       *)
(* (builtin_status.go), requests and the reload through copies they change *)
(* and store (builtin_api.go, builtin_init.go), and the screenshot         *)
(* goroutine through a copy with a new picture (builtin_ffmpeg.go).  No    *)
(* lock covers a copy and its store.  Changes are sent to the console      *)
(* twice a second.  When monitors are started and cancelled is the subject *)
(* of Monitor; here a session may end and a monitor start at any time.     *)
(***************************************************************************)
EXTENDS Integers, FiniteSets

CONSTANTS Recorders,    \* monitors alive for the streamer at once
          Askers,       \* requests, or passes of the reload, at once
          MaxAsks,      \* bound: requests
          MaxWrites     \* bound: status updates of the monitors

ASSUME StatusAssumption == /\ Recorders \cap Askers = {}
                           /\ MaxAsks \in Nat /\ MaxWrites \in Nat

VARIABLES
  task,       \* the status in the entry of builtinStatusMap
  order,      \* builtinTaskStates
  active,     \* builtinActiveTasks
  debounce,   \* builtinNotifyDebounce, "live_" and "offline_": younger than
              \* three minutes, older, or none
  doing,      \* per goroutine: position, message or request, the entry it read
  shot,       \* per monitor: its screenshot goroutine and the entry it read
  signal,     \* builtinBroadcastChan holds a signal
  needs,      \* needsBroadcast
  unsent,     \* history: the entry changed since the last broadcast
  asks, writes, \* requests and updates so far
  overlapped  \* history: a request came while another was under way, or one
              \* for a streamer that was deleted

restVars == <<shot, needs, asks, writes, overlapped>>
statusVars == <<task, order, active, debounce, doing, signal, unsent, restVars>>

NoTask == "absent"
Messages == {"watching", "live", "waiting", "stopped"}
Tasks == Messages \cup {NoTask}
Asks == {"pause", "resume", "setFlags", "delete", "add", "addPaused",
         "pauseAll", "resumeAll", "botPause", "botResume", "botDelete"}
\* Those that store a copy they changed.
Copying == Asks \ {"delete", "botDelete", "add", "addPaused"}
Resuming == {"resume", "resumeAll", "botResume"}
Marks == {"none", "recent", "old"}

Doing(p, m) == [at |-> p, msg |-> m, read |-> NoTask]
Resting == Doing("dead", "watching")

StatusTypeOK ==
    /\ task \in Tasks /\ order \in {"none", "running", "paused", "deleted"}
    /\ active \in BOOLEAN
    /\ debounce \in [live : Marks, offline : Marks]
    /\ doing \in [Recorders \cup Askers ->
                    [at : {"dead", "begin", "top", "load", "judge", "store",
                           "session", "exit", "clear", "copy", "put", "show",
                           "order"},
                     msg : Messages \cup Asks, read : Tasks]]
    /\ shot \in [Recorders -> Tasks]
    /\ signal \in BOOLEAN /\ needs \in BOOLEAN /\ unsent \in BOOLEAN
    /\ asks \in 0..MaxAsks /\ writes \in 0..MaxWrites /\ overlapped \in BOOLEAN

StatusInit ==
    /\ task = NoTask /\ order = "none" /\ active = FALSE
    /\ debounce = [live |-> "none", offline |-> "none"]
    /\ doing = [u \in Recorders \cup Askers |-> Resting]
    /\ shot = [m \in Recorders |-> NoTask]
    /\ signal = FALSE /\ needs = FALSE /\ unsent = FALSE
    /\ asks = 0 /\ writes = 0 /\ overlapped = FALSE

Do(u, d) == doing' = [doing EXCEPT ![u] = d]

\* Stores the entry; triggerBuiltinBroadcast follows at once where calls holds.
Put(t, calls) ==
    /\ task' = t
    /\ unsent' = (unsent \/ t # task)
    /\ signal' = (signal \/ calls)

Unput == UNCHANGED <<task, unsent, signal>>

Forgotten == debounce' = [live |-> "none", offline |-> "none"]

-----------------------------------------------------------------------------
(* updateBuiltinStatus, of a monitor or a request.                         *)

LoadTask(u) ==
    /\ doing[u].at = "load"
    /\ Do(u, [doing[u] EXCEPT !.at = "judge", !.read = task])
    /\ UNCHANGED <<active, order, debounce, restVars>>
    /\ Unput

\* The notices, unless one of the kind was sent in the last three minutes or
\* the interruption was for new settings; then the state, which overrules
\* the message for a paused streamer.
JudgeChange(u) ==
    /\ doing[u].at = "judge"
    /\ LET read == doing[u].read
           msg == doing[u].msg
           shown == IF order = "paused" THEN "stopped" ELSE msg
       IN  /\ IF msg = "live" /\ read # "live"
              THEN debounce' = [debounce EXCEPT !.live = "recent"]
              ELSE IF msg \in {"waiting", "stopped"} /\ read = "live"
              THEN debounce' \in {debounce,
                                  [debounce EXCEPT !.offline = "recent"]}
              ELSE UNCHANGED debounce
           /\ Do(u, [at |-> "store", msg |-> msg, read |-> shown])
    /\ UNCHANGED <<active, order, restVars>> /\ Unput

StoreTask(u) ==
    /\ doing[u].at = "store" /\ Put(doing[u].read, TRUE)
    /\ Do(u, CASE u \in Askers /\ doing[u].msg = "watching"
                                      -> Doing("show", "resume")
               [] u \in Askers /\ doing[u].msg = "stopped" -> Resting
               [] u \in Recorders /\ doing[u].msg = "live"
                                      -> Doing("session", "live")
               [] OTHER -> Doing("top", "watching"))
    /\ UNCHANGED <<active, order, debounce, restVars>>

-----------------------------------------------------------------------------
(* A monitor.                                                              *)

\* What may be under way when its goroutine takes its first step.
BeginRecorder(m) ==
    /\ doing[m].at = "begin" /\ order' = "running"
    /\ Do(m, Doing("load", "watching"))
    /\ UNCHANGED <<active, debounce, restVars>> /\ Unput

\* What a probe may find.
Findings == {"watching", "live", "waiting"}

\* Mutant: a paused monitor waits without saying so again.
WatchUnsaid(m) ==
    /\ doing[m].at = "top" /\ writes < MaxWrites /\ order # "paused"
    /\ IF order = "deleted" THEN Do(m, Doing("exit", "watching"))
       ELSE \E msg \in Findings : Do(m, Doing("load", msg))
    /\ writes' = writes + 1
    /\ UNCHANGED <<active, order, debounce, shot, needs, asks, overlapped>>
    /\ Unput

\* The loop: a paused monitor says so every two seconds, another probes and
\* reports what it found.
WatchRound(m) ==
    /\ doing[m].at = "top"
    /\ \/ /\ order = "deleted" /\ Do(m, Doing("exit", "watching"))
          /\ UNCHANGED writes
       \/ /\ order = "paused" /\ Do(m, Doing("load", "stopped"))
          /\ UNCHANGED writes
       \/ /\ order \notin {"deleted", "paused"} /\ writes < MaxWrites
          /\ writes' = writes + 1
          /\ \E msg \in Findings : Do(m, Doing("load", msg))
    /\ UNCHANGED <<active, order, debounce, shot, needs, asks, overlapped>>
    /\ Unput

\* RecordStream ends, its screenshot goroutine before it.
SessionEnds(m) ==
    /\ doing[m].at = "session" /\ shot[m] = NoTask
    /\ Do(m, Doing("load", "waiting"))
    /\ UNCHANGED <<active, order, debounce, restVars>>
    /\ Unput

\* A new picture: the entry is copied ...
ShotCopy(m) ==
    /\ doing[m].at = "session" /\ shot[m] = NoTask /\ task # NoTask
    /\ writes < MaxWrites /\ writes' = writes + 1
    /\ shot' = [shot EXCEPT ![m] = task]
    /\ UNCHANGED <<active, order, debounce, doing, needs, asks, overlapped>>
    /\ Unput

\* ... and stored, over whatever was stored meanwhile.
ShotPut(m) ==
    /\ shot[m] # NoTask /\ Put(shot[m], TRUE)
    /\ shot' = [shot EXCEPT ![m] = NoTask]
    /\ UNCHANGED <<active, order, debounce, doing, needs, asks, writes,
                   overlapped>>

\* Mutant: only the request removes the entry.
LeaveEntry(m) ==
    /\ doing[m].at = "exit" /\ Do(m, Doing("clear", "watching")) /\ Unput
    /\ active' = FALSE
    /\ UNCHANGED <<order, debounce, restVars>>

\* The monitor of a deleted streamer removes the entry, which it may itself
\* have stored after the request removed it; nothing is sent.
RemoveEntry(m) ==
    /\ doing[m].at = "exit" /\ Do(m, Doing("clear", "watching"))
    /\ Put(NoTask, FALSE)
    /\ active' = FALSE
    /\ UNCHANGED <<order, debounce, restVars>>

ClearDebounce(u) ==
    /\ doing[u].at = "clear" /\ Forgotten /\ Do(u, Resting)
    /\ Put(task, u \in Askers)
    /\ UNCHANGED <<active, order, restVars>>

RecorderNext(m) ==
    \/ BeginRecorder(m) \/ WatchRound(m) \/ SessionEnds(m) \/ ShotPut(m)
    \/ RemoveEntry(m) \/ LoadTask(m) \/ JudgeChange(m) \/ StoreTask(m)
    \/ ClearDebounce(m)

-----------------------------------------------------------------------------
(* Requests: apiRecorderControl, apiRecorderControlAll, apiRecorderAdd, the *)
(* reload, which does the same, and tgExecutePreciseControl of the bot.    *)

Asked(r, op) ==
    /\ doing[r].at = "dead" /\ asks < MaxAsks /\ asks' = asks + 1
    /\ overlapped' = (overlapped \/ (order = "deleted" /\ op \in Copying)
                        \/ \E s \in Askers : doing[s].at # "dead")
    /\ UNCHANGED <<active, debounce, shot, needs, writes>> /\ Unput

\* The state is stored first; a request for all streamers, or from the bot,
\* has the entry in hand before.
AskFor(r, op) ==
    /\ Asked(r, op)
    /\ op \in {"add", "addPaused"} => ~active
    /\ CASE op = "pause" -> order' = "paused" /\ Do(r, Doing("copy", op))
         [] op = "resume" -> order' = "running" /\ Do(r, Doing("copy", op))
         [] op = "delete" -> order' = "deleted" /\ Do(r, Doing("exit", op))
         [] op = "botDelete" ->
                task # NoTask /\ order' = "deleted" /\ Do(r, Doing("exit", op))
         [] op = "addPaused" ->
                order' = "paused" /\ Do(r, Doing("load", "stopped"))
         [] op = "add" -> UNCHANGED order /\ Do(r, Doing("load", "watching"))
         [] op = "setFlags" -> UNCHANGED order /\ Do(r, Doing("copy", op))
         [] OTHER -> UNCHANGED order /\ task # NoTask
                     /\ Do(r, [at |-> "order", msg |-> op, read |-> task])

OrderAll(r) ==
    /\ doing[r].at = "order"
    /\ order' = IF doing[r].msg \in Resuming THEN "running" ELSE "paused"
    /\ Do(r, [doing[r] EXCEPT !.at = "put"])
    /\ UNCHANGED <<active, debounce, restVars>> /\ Unput

CopyTask(r) ==
    /\ doing[r].at = "copy"
    /\ Do(r, IF task = NoTask
             THEN Doing("show", doing[r].msg)
             ELSE [doing[r] EXCEPT !.at = "put", !.read = task])
    /\ UNCHANGED <<active, order, debounce, restVars>>
    /\ Unput

\* resumeStatusAfterUnpause, which the bot does not use: it shows a streamer
\* that is being recorded as watched.
Resumed(op, s) == IF s = "stopped" \/ op = "botResume" THEN "watching" ELSE s

PutTask(r) ==
    /\ doing[r].at = "put"
    /\ LET op == doing[r].msg
           s == doing[r].read
           new == IF op \in {"pause", "pauseAll", "botPause"} THEN "stopped"
                  ELSE IF op \in Resuming THEN Resumed(op, s) ELSE s
       IN  /\ Put(new, FALSE)
           /\ Do(r, Doing("show", op))
    /\ UNCHANGED <<active, order, debounce, restVars>>

\* The bot leaves the debounce marks.
RemoveTask(r) ==
    /\ doing[r].at = "exit" /\ Put(NoTask, FALSE)
    /\ Do(r, Doing(IF doing[r].msg = "delete" THEN "clear" ELSE "show",
                   "delete"))
    /\ active' = FALSE
    /\ UNCHANGED <<order, debounce, restVars>>

Starts(r) == doing[r].msg \in Resuming /\ ~active

\* A resumed or added streamer gets a monitor unless one counts as running;
\* the request ends with a signal.
Show(r) ==
    /\ doing[r].at = "show" /\ Put(task, TRUE)
    /\ active' = (active \/ Starts(r))
    /\ \/ ~Starts(r) /\ Do(r, Resting)
       \/ /\ Starts(r)
          /\ \E m \in Recorders :
                /\ doing[m].at = "dead"
                /\ doing' = [doing EXCEPT ![r] = Resting,
                                          ![m] = Doing("begin", "watching")]
    /\ UNCHANGED <<order, debounce, restVars>>

AskerNext(r) ==
    \/ \E op \in Asks : AskFor(r, op)
    \/ OrderAll(r) \/ CopyTask(r) \/ PutTask(r) \/ RemoveTask(r) \/ Show(r)
    \/ LoadTask(r) \/ JudgeChange(r) \/ StoreTask(r) \/ ClearDebounce(r)

-----------------------------------------------------------------------------
(* startBuiltinBroadcastDebouncer, and time.                               *)

TakeSignal ==
    /\ signal /\ signal' = FALSE /\ needs' = TRUE
    /\ UNCHANGED <<active, task, order, debounce, doing, shot, unsent, asks,
                   writes, overlapped>>

\* Mutant: signals that came meanwhile are taken to be served.
SendAndDrain ==
    /\ needs /\ needs' = FALSE /\ signal' = FALSE
    /\ unsent' \in {unsent, FALSE}
    /\ UNCHANGED <<active, task, order, debounce, doing, shot, asks, writes,
                   overlapped>>

SendTasks ==
    /\ needs /\ needs' = FALSE /\ unsent' = FALSE
    /\ UNCHANGED <<active, task, order, debounce, doing, shot, signal, asks,
                   writes, overlapped>>

ThreeMinutesPass ==
    /\ \E k \in {"live", "offline"} :
          debounce[k] = "recent" /\ debounce' = [debounce EXCEPT ![k] = "old"]
    /\ UNCHANGED <<active, order, doing, restVars>> /\ Unput

StatusNext ==
    \/ \E m \in Recorders : RecorderNext(m) \/ ShotCopy(m)
    \/ \E r \in Askers : AskerNext(r)
    \/ TakeSignal \/ SendTasks \/ ThreeMinutesPass

-----------------------------------------------------------------------------
\* A deleted streamer leaves no entry behind when its monitors are gone, even
\* if one of them stored a status after the request removed it - unless
\* another request handled the streamer at the same time or once it was deleted
\* (builtin_monitor.go:33-39, builtin_api.go:431-439).
DeletedIsGone ==
    /\ order = "deleted" /\ ~overlapped
    /\ \A u \in Recorders \cup Askers : doing[u].at = "dead"
    => task = NoTask

\* No change of an entry is lost between the goroutines that store and the
\* one that sends: a broadcast is due, or the request that stored is about to
\* ask for one.  (What a monitor removes of a deleted streamer is not sent.)
ChangesAreSent ==
    unsent /\ task # NoTask =>
        signal \/ needs \/ \E r \in Askers : doing[r].at \in {"show", "clear"}

\* A streamer that stays paused ends up shown as paused, although a picture
\* or an update that was under way may first bring back the old status
\* (builtin_monitor.go:41-45, builtin_status.go:95-99).
PauseIsShown ==
    <>[](order = "paused" /\ \A m \in Recorders : doing[m].at # "dead")
        => <>[](task = "stopped")
=============================================================================
