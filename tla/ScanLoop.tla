------------------------------ MODULE ScanLoop ------------------------------
(***************************************************************************)
(* The main loop of internal/app/run.go and the failure breaker it works   *)
(* beside: one goroutine arms a timer and a one-slot trigger channel and   *)
(* runs a scan on either; the upload workers count failed uploads that     *)
(* follow one another and switch uploading off when there are Threshold of *)
(* them; people start, pause and rescan from the console, and turn the     *)
(* upload switch of the configuration, while all of that happens.  The     *)
(* queue, the files and the hash database have models of their own: here a *)
(* file is waiting, being sent, or sent.                                   *)
(***************************************************************************)
EXTENDS Integers, FiniteSets

CONSTANTS Files,        \* the recordings the scanned directories may hold
          Workers,      \* upload workers
          Threshold,    \* consecutive failures that trip the breaker (30)
          MaxCommands,  \* bound: console commands and recorder triggers
          MaxFails,     \* bound: failed uploads counted without a reset
          None          \* an empty trigger slot, a worker without a file

ASSUME ThresholdAssumption == Threshold \in Nat \ {0}
ASSUME WorkersAssumption == IsFiniteSet(Workers)
ASSUME BoundsAssumption == MaxCommands \in Nat /\ MaxFails \in Nat
ASSUME NoneAssumption == None \notin Files \cup {"start", "rescan", "other"}

VARIABLES
  running,   \* Running: uploading and scanning are switched on
  trigger,   \* TriggerScanCh: the reason in its one slot, or None
  pc,        \* where the main loop stands
  reason,    \* the reason of the RunOnce being executed
  upload,    \* enableUpload, as that RunOnce has read it; FALSE outside
  fails,     \* ConsecFail
  disk,      \* recordings that are complete and were not uploaded
  queue,     \* of those, the ones in the task queue
  wpc,       \* per worker: taking, sending, or about to trip the breaker
  wfile,     \* per worker: the file being sent
  web,       \* the web server has switched running on once (server.go:106)
  enabled,   \* AppCfg().EnableUpload
  asking,    \* requests that have turned a switch and not sent their trigger
  commands,  \* console commands so far
  owed,      \* a trigger was sent while running; no scan or pause since
  streak     \* uploads that failed since a success, a reset or a switch-on

loopVars == <<trigger, pc, reason, upload>>
workVars == <<disk, queue, wpc, wfile>>
userVars == <<web, enabled, asking, commands>>
vars == <<running, fails, loopVars, workVars, userVars, owed, streak>>

Reasons == {"start", "rescan", "other"}
\* The reasons of the requests that turn a switch first.
Switching == {"start", "other"}
Sending == {w \in Workers : wpc[w] = "sending"}
Tripping == {w \in Workers : wpc[w] = "tripping"}

TypeOK ==
    /\ running \in BOOLEAN /\ web \in BOOLEAN
    /\ enabled \in BOOLEAN /\ upload \in BOOLEAN
    /\ asking \subseteq Switching /\ owed \in BOOLEAN
    /\ trigger \in Reasons \cup {None}
    /\ pc \in {"boot", "top", "armed", "parked", "begin", "check", "collect"}
    /\ reason \in Reasons \cup {"auto"}
    /\ fails \in Nat /\ streak \in Nat /\ commands \in 0..MaxCommands
    /\ queue \subseteq disk /\ disk \subseteq Files
    /\ wpc \in [Workers -> {"taking", "sending", "tripping"}]
    /\ wfile \in [Workers -> Files \cup {None}]

Init ==
    /\ running = FALSE /\ web = FALSE /\ asking = {} /\ owed = FALSE
    /\ enabled \in BOOLEAN /\ upload = FALSE
    /\ trigger = None /\ pc = "boot" /\ reason = "auto"
    /\ fails = 0 /\ streak = 0 /\ commands = 0
    /\ disk \in SUBSET Files /\ queue = {}
    /\ wpc = [w \in Workers |-> "taking"]
    /\ wfile = [w \in Workers |-> None]

-----------------------------------------------------------------------------
(* The main loop.                                                          *)

Goto(l) == pc' = l
SwitchOn == running' = TRUE /\ streak' = 0
SwitchOff == running' = FALSE /\ owed' = FALSE
ResetFail == fails' = 0 /\ streak' = 0

\* Before the loop proper: one scan if the web server has been quick enough
\* to switch running on.
Boot ==
    /\ pc = "boot"
    /\ Goto(IF running THEN "begin" ELSE "top")
    /\ UNCHANGED <<running, fails, trigger, reason, upload, workVars, userVars, owed, streak>>

\* The head of the loop reads running once and commits to one of two waits.
Top ==
    /\ pc = "top"
    /\ Goto(IF running THEN "armed" ELSE "parked")
    /\ UNCHANGED <<running, fails, trigger, reason, upload, workVars, userVars, owed, streak>>

\* Mutant: a timer that fires is only armed again.
TimerAgain == pc = "armed" /\ UNCHANGED vars

Timer ==
    /\ pc = "armed"
    /\ reason' = "auto"
    /\ Goto("begin")
    /\ UNCHANGED <<running, fails, trigger, upload, workVars, userVars, owed, streak>>

Triggered ==
    /\ pc = "armed" /\ trigger # None
    /\ reason' = trigger /\ trigger' = None
    /\ Goto("begin")
    /\ UNCHANGED <<running, fails, upload, workVars, userVars, owed, streak>>

\* Mutant: the poll waits again without looking at running.
PollAgain == pc = "parked" /\ UNCHANGED vars

\* While paused the loop polls, and takes a trigger without scanning for it.
Poll ==
    /\ pc = "parked"
    /\ Goto("top")
    /\ UNCHANGED <<running, fails, trigger, reason, upload, workVars, userVars, owed, streak>>

TakenWhileParked ==
    /\ pc = "parked" /\ trigger # None
    /\ trigger' = None
    /\ Goto("top")
    /\ UNCHANGED <<running, fails, reason, upload, workVars, userVars, owed, streak>>

\* RunOnce: the reset and the reading of the configuration come before the
\* pause check, the scan after it.
BeginScan ==
    /\ pc = "begin"
    /\ Goto("check")
    /\ upload' = enabled
    /\ IF reason \in {"start", "rescan"} THEN ResetFail ELSE UNCHANGED <<fails, streak>>
    /\ UNCHANGED <<running, trigger, reason, workVars, userVars, owed>>

CheckRunning ==
    /\ pc = "check"
    /\ Goto(IF running THEN "collect" ELSE "top")
    /\ upload' = (upload /\ running)
    /\ owed' = FALSE
    /\ UNCHANGED <<running, fails, trigger, reason, workVars, userVars, streak>>

\* What the walk is told of a file: it is in the queue or with a worker, or
\* RunOnce read the upload switch as off.
IsQueued(f) == f \in queue \/ (\E w \in Workers : wfile[w] = f) \/ ~upload

\* The walk stops at the first file it visits after a pause; what it has
\* collected by then is still queued.
Collect ==
    /\ pc = "collect"
    /\ \E found \in SUBSET {f \in disk : ~IsQueued(f)} :
          /\ running => found = {f \in disk : ~IsQueued(f)}
          /\ queue' = queue \cup found
    /\ Goto("top") /\ upload' = FALSE
    /\ UNCHANGED <<running, fails, trigger, reason, disk, wpc, wfile, userVars, owed, streak>>

LoopStep ==
    \/ Boot \/ Top \/ Timer \/ Triggered \/ Poll \/ TakenWhileParked
    \/ BeginScan \/ CheckRunning \/ Collect

-----------------------------------------------------------------------------
(* The upload workers.                                                     *)

Idle(w) == wpc[w] = "taking"

Take(w, f) ==
    /\ Idle(w) /\ running /\ f \in queue
    /\ queue' = queue \ {f}
    /\ wpc' = [wpc EXCEPT ![w] = "sending"]
    /\ wfile' = [wfile EXCEPT ![w] = f]
    /\ UNCHANGED <<running, fails, loopVars, disk, userVars, owed, streak>>

Discard(w, f) ==
    /\ Idle(w) /\ ~running /\ f \in queue
    /\ queue' = queue \ {f}
    /\ UNCHANGED <<running, fails, loopVars, disk, wpc, wfile, userVars, owed, streak>>

Sent(w) ==
    /\ wpc[w] = "sending"
    /\ disk' = disk \ {wfile[w]}
    /\ wpc' = [wpc EXCEPT ![w] = "taking"]
    /\ wfile' = [wfile EXCEPT ![w] = None]
    /\ ResetFail
    /\ UNCHANGED <<running, loopVars, queue, userVars, owed>>

\* Mutant: only the failure that reaches the threshold trips the breaker.
TripsOnce(n) == n = Threshold

\* Whether the failure that made the count n is one the breaker acts on.
Trips(n) == n >= Threshold

\* The count is raised and compared in one atomic step; PauseOnFailure is a
\* later one.  The queue forgets the file only when the handler has returned.
NotSent(w) ==
    /\ wpc[w] = "sending" /\ fails < MaxFails
    /\ fails' = fails + 1
    /\ streak' = streak + 1
    /\ IF Trips(fails + 1)
          THEN wpc' = [wpc EXCEPT ![w] = "tripping"] /\ UNCHANGED wfile
          ELSE /\ wpc' = [wpc EXCEPT ![w] = "taking"]
               /\ wfile' = [wfile EXCEPT ![w] = None]
    /\ UNCHANGED <<running, loopVars, disk, queue, userVars, owed>>

PauseOnFailure(w) ==
    /\ wpc[w] = "tripping"
    /\ SwitchOff
    /\ wpc' = [wpc EXCEPT ![w] = "taking"]
    /\ wfile' = [wfile EXCEPT ![w] = None]
    /\ UNCHANGED <<fails, loopVars, disk, queue, userVars, streak>>

WorkerStep(w) ==
    \/ \E f \in Files : Take(w, f) \/ Discard(w, f)
    \/ Sent(w)
    \/ NotSent(w)
    \/ PauseOnFailure(w)

-----------------------------------------------------------------------------
(* The console, the recorder and the web server's own start.               *)

\* A trigger sent to a full slot is dropped.
TriggerScan(r) ==
    /\ trigger' = IF trigger = None THEN r ELSE trigger
    /\ owed' = (owed \/ running)

Command ==
    /\ commands < MaxCommands
    /\ commands' = commands + 1

WebServerStarts ==
    /\ ~web /\ web' = TRUE
    /\ SwitchOn
    /\ UNCHANGED <<fails, loopVars, workVars, enabled, asking, commands, owed>>

\* A request that turns a switch does so in a step of its own and sends the
\* trigger in a later one; two of a kind do not overlap here.
Turns(r) == r \notin asking /\ asking' = asking \cup {r}

\* handleControlStart, up to its trigger.
Start ==
    /\ web /\ Command /\ Turns("start")
    /\ SwitchOn
    /\ UNCHANGED <<fails, loopVars, workVars, web, enabled, owed>>

\* handleConfig, a PUT that turns EnableUpload, up to its trigger.
TurnUpload ==
    /\ web /\ Command /\ Turns("other")
    /\ enabled' = ~enabled
    /\ UNCHANGED <<running, fails, loopVars, workVars, web, owed, streak>>

\* The trigger at the end of both.
RequestTriggers(r) ==
    /\ r \in asking /\ asking' = asking \ {r}
    /\ TriggerScan(r)
    /\ UNCHANGED <<running, fails, pc, reason, upload, workVars, web, enabled,
                   commands, streak>>

\* handleControlPause and handleControlStop.
Pause ==
    /\ web /\ Command
    /\ SwitchOff
    /\ UNCHANGED <<fails, loopVars, workVars, web, enabled, asking, streak>>

\* A rescan or a retry of the failed list asks for "rescan"; a configuration
\* with the same upload switch and a stream going live have other reasons.
Ask(r) ==
    /\ web /\ Command
    /\ TriggerScan(r)
    /\ UNCHANGED <<running, fails, pc, reason, upload, workVars, web, enabled, asking,
                   streak>>

Record(f) ==
    /\ f \notin disk
    /\ \A w \in Workers : wfile[w] # f
    /\ Command
    /\ disk' = disk \cup {f}
    /\ UNCHANGED <<running, fails, loopVars, queue, wpc, wfile, web, enabled, asking,
                   owed, streak>>

Environment ==
    \/ WebServerStarts \/ Start \/ TurnUpload \/ Pause
    \/ \E r \in Switching : RequestTriggers(r)
    \/ \E r \in {"rescan", "other"} : Ask(r)
    \/ \E f \in Files : Record(f)

Next == LoopStep \/ (\E w \in Workers : WorkerStep(w)) \/ Environment

Spec == Init /\ [][Next]_vars

(* The loop's own steps and both waits end: the timer is at most an       *)
(* interval away and the poll five seconds.  A handler ends (the put has a *)
(* deadline) and a remote that is asked again and again answers in the    *)
(* end.  Nothing is assumed of people, nor of which branch a select takes. *)
Fairness ==
    /\ WF_vars(LoopStep)
    /\ \A w \in Workers :
          /\ SF_vars(Sent(w))
          /\ WF_vars(PauseOnFailure(w))
          /\ WF_vars(\E f \in Files : Take(w, f))
    /\ \A r \in Switching : WF_vars(RequestTriggers(r))

FairSpec == Spec /\ Fairness

-----------------------------------------------------------------------------
(* Properties.                                                             *)

\* An outage costs a bounded number of failed uploads: from any moment on,
\* until an upload succeeds, the count is reset or someone switches uploading
\* on again, at most Threshold - 1 failures and one more per worker, however
\* the workers' counting and pausing interleave with each other and with a
\* restart that the breaker's count survived (upload.go:242, run.go:352).
OutageIsBounded == streak <= Threshold - 1 + Cardinality(Workers)

\* A recording on disk is uploaded in the end unless the program is paused or
\* the configuration has uploading off: no interleaving of the loop's two
\* waits, the pause check, a switch read before the walk and turned since,
\* triggers that were dropped and files that workers discarded while paused
\* leaves a file that no scan will offer again (run.go:249, scan.go:34,
\* pool.go:82).
RunningDelivers ==
    \A f \in Files : f \in disk ~> f \notin disk \/ ~running \/ ~enabled

\* A trigger sent while uploading is on is followed by a scan that begins
\* later, or by a pause, even when it finds the slot full or is taken by the
\* paused branch (state.go:104, run.go:271).
TriggersAreServed == owed ~> ~owed
=============================================================================
