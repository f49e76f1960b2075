------------------------------ MODULE TaskQueue ------------------------------
(***************************************************************************)
(* The de-duplicating upload queue and its worker pool                     *)
(* (internal/uploader/queue.go, pool.go), fed by the enqueue loop of a     *)
(* scan (internal/app/scan.go) and paused by the running switch            *)
(* (internal/app/state.go).  Every atomic operation of the Go code - a     *)
(* sync.Map call, a channel operation, an atomic add - is a step of its    *)
(* own, so that the scan and the workers interleave between them.          *)
(***************************************************************************)
EXTENDS Integers, Sequences, FiniteSets

CONSTANTS Paths,        \* the local files a scan may propose
          Workers,      \* the worker goroutines the pool may have alive
          Scanners,     \* the goroutines that run a scan (one, in the program)
          Cap,          \* capacity of the channel
          MaxPauses,    \* bound: how many times uploading is paused
          None          \* no path

ASSUME CapAssumption == Cap \in Nat \ {0}
ASSUME NoneAssumption == None \notin Paths
ASSUME PausesAssumption == MaxPauses \in Nat
ASSUME FiniteAssumption == IsFiniteSet(Workers) /\ IsFiniteSet(Scanners)

VARIABLES
    ch,         \* Queue.ch: the buffered channel, oldest first
    enqueued,   \* Queue.enqueued: the paths that carry a de-duplication mark
    pending,    \* Queue.pending
    todo,       \* [Scanners -> candidates of the current scan not yet offered]
    spc,        \* [Scanners -> where Enqueue is]
    sjob,       \* [Scanners -> the path Enqueue was called with]
    wpc,        \* [Workers -> where WorkerPool.loop is]
    wjob,       \* [Workers -> the path the worker took from the channel]
    manager,    \* the goroutine of WorkerPool.Start
    paused,     \* ~IsRunning()
    cancelled,  \* the context is cancelled
    pauses      \* history: how many times uploading was paused (bounded)

queueVars == <<ch, enqueued, pending>>
scanVars == <<todo, spc, sjob>>
poolVars == <<wpc, wjob, manager>>
switchVars == <<paused, cancelled, pauses>>
vars == <<queueVars, scanVars, poolVars, switchVars>>

-----------------------------------------------------------------------------
\* Every path the channel holds.
Buffered == {ch[i] : i \in DOMAIN ch}

\* The workers that hold a path which still carries its mark.
Holding == {"got", "decide", "drop", "run", "done"}
\* The workers inside the handler, or back from it with the mark still set.
Handling == {"run", "done"}

Live == {w \in Workers : wpc[w] # "absent"}

Init ==
    /\ ch = <<>> /\ enqueued = {} /\ pending = 0
    /\ todo = [s \in Scanners |-> {}]
    /\ spc = [s \in Scanners |-> "idle"]
    /\ sjob = [s \in Scanners |-> None]
    /\ wpc = [w \in Workers |-> "absent"]
    /\ wjob = [w \in Workers |-> None]
    /\ manager = "serving"
    /\ paused \in BOOLEAN      \* the web server switches it on during the start
    /\ cancelled = FALSE
    /\ pauses = 0

-----------------------------------------------------------------------------
(* The scan: it reads the marks once, while it walks the directories, and  *)
(* offers what it found later.  A walk cut short, a directory out of reach *)
(* or uploading disabled by config leaves any smaller set of candidates.   *)

Scan(s) ==
    /\ spc[s] = "idle" /\ todo[s] = {}
    /\ ~paused
    /\ \E found \in SUBSET (Paths \ enqueued) :
          found # {} /\ todo' = [todo EXCEPT ![s] = found]
    /\ UNCHANGED <<queueVars, spc, sjob, poolVars, switchVars>>

\* Enqueue, LoadOrStore: a path already marked is refused at once.
EnqueueMark(s) ==
    /\ spc[s] = "idle"
    /\ \E p \in todo[s] :
          /\ todo' = [todo EXCEPT ![s] = @ \ {p}]
          /\ IF p \in enqueued
             THEN UNCHANGED <<enqueued, spc, sjob>>
             ELSE /\ enqueued' = enqueued \cup {p}
                  /\ spc' = [spc EXCEPT ![s] = "send"]
                  /\ sjob' = [sjob EXCEPT ![s] = p]
    /\ UNCHANGED <<ch, pending, poolVars, switchVars>>

\* Faulty variant: the send is attempted with one path too many.
EnqueueSendOverfills(s) ==
    /\ spc[s] = "send"
    /\ IF Len(ch) <= Cap
       THEN /\ ch' = Append(ch, sjob[s])
            /\ spc' = [spc EXCEPT ![s] = "count"]
       ELSE /\ spc' = [spc EXCEPT ![s] = "refuse"]
            /\ UNCHANGED ch
    /\ UNCHANGED <<enqueued, pending, todo, sjob, poolVars, switchVars>>

\* Enqueue, the non-blocking send.
EnqueueSend(s) ==
    /\ spc[s] = "send"
    /\ IF Len(ch) < Cap
       THEN /\ ch' = Append(ch, sjob[s])
            /\ spc' = [spc EXCEPT ![s] = "count"]
       ELSE /\ spc' = [spc EXCEPT ![s] = "refuse"]
            /\ UNCHANGED ch
    /\ UNCHANGED <<enqueued, pending, todo, sjob, poolVars, switchVars>>

\* Enqueue, the counter is raised only after the path is visible to workers.
EnqueueCount(s) ==
    /\ spc[s] = "count"
    /\ pending' = pending + 1
    /\ spc' = [spc EXCEPT ![s] = "idle"]
    /\ sjob' = [sjob EXCEPT ![s] = None]
    /\ UNCHANGED <<ch, enqueued, todo, poolVars, switchVars>>

\* Faulty variant: a refused path keeps its mark.
EnqueueRefuseForgets(s) ==
    /\ spc[s] = "refuse"
    /\ spc' = [spc EXCEPT ![s] = "idle"]
    /\ sjob' = [sjob EXCEPT ![s] = None]
    /\ UNCHANGED <<queueVars, todo, poolVars, switchVars>>

\* Enqueue, the buffer was full: the mark is taken back.
EnqueueRefuse(s) ==
    /\ spc[s] = "refuse"
    /\ enqueued' = enqueued \ {sjob[s]}
    /\ spc' = [spc EXCEPT ![s] = "idle"]
    /\ sjob' = [sjob EXCEPT ![s] = None]
    /\ UNCHANGED <<ch, pending, todo, poolVars, switchVars>>

ScannerStep(s) ==
    EnqueueMark(s) \/ EnqueueSend(s) \/ EnqueueCount(s) \/ EnqueueRefuse(s)

-----------------------------------------------------------------------------
(* WorkerPool.loop                                                         *)

GoTo(w, from, to) == wpc[w] = from /\ wpc' = [wpc EXCEPT ![w] = to]

\* Faulty variant: the loop blocks in Dequeue without a context.
LeaveNever(w) ==
    /\ GoTo(w, "wait", "absent")
    /\ cancelled /\ ch # <<>>
    /\ UNCHANGED <<queueVars, scanVars, wjob, manager, switchVars>>

\* The check of the context at the top of the loop.
Poll(w) ==
    /\ GoTo(w, "poll", IF cancelled THEN "absent" ELSE "wait")
    /\ UNCHANGED <<queueVars, scanVars, wjob, manager, switchVars>>

\* Dequeue: select may take the path even when the context is cancelled too.
Receive(w) ==
    /\ GoTo(w, "wait", "got")
    /\ ch # <<>>
    /\ wjob' = [wjob EXCEPT ![w] = Head(ch)]
    /\ ch' = Tail(ch)
    /\ UNCHANGED <<enqueued, pending, scanVars, manager, switchVars>>

\* Dequeue returns false and the worker ends.
Leave(w) ==
    /\ GoTo(w, "wait", "absent")
    /\ cancelled
    /\ UNCHANGED <<queueVars, scanVars, wjob, manager, switchVars>>

\* Faulty variant: Dequeue clears the mark as it hands the path out.
DequeueCountUnmarks(w) ==
    /\ GoTo(w, "got", "decide")
    /\ pending' = pending - 1
    /\ enqueued' = enqueued \ {wjob[w]}
    /\ UNCHANGED <<ch, scanVars, wjob, manager, switchVars>>

\* Dequeue lowers the counter after the receive.
DequeueCount(w) ==
    /\ GoTo(w, "got", "decide")
    /\ pending' = pending - 1
    /\ UNCHANGED <<ch, enqueued, scanVars, wjob, manager, switchVars>>

\* paused() is read once; what it says may be out of date from then on.
Decide(w) ==
    /\ GoTo(w, "decide", IF paused THEN "drop" ELSE "run")
    /\ UNCHANGED <<queueVars, scanVars, wjob, manager, switchVars>>

\* Faulty variant: a paused worker lets go of the path without Drop.
DropMarkForgets(w) ==
    /\ GoTo(w, "drop", "dropped")
    /\ UNCHANGED <<queueVars, scanVars, wjob, manager, switchVars>>

\* Drop, LoadAndDelete: the counter is lowered only if there was a mark.
DropMark(w) ==
    /\ IF wjob[w] \in enqueued
       THEN /\ GoTo(w, "drop", "dropped")
            /\ UNCHANGED wjob
       ELSE /\ GoTo(w, "drop", "poll")
            /\ wjob' = [wjob EXCEPT ![w] = None]
    /\ enqueued' = enqueued \ {wjob[w]}
    /\ UNCHANGED <<ch, pending, scanVars, manager, switchVars>>

\* Drop, the second decrement: Dequeue has lowered the counter already.
DropCount(w) ==
    /\ GoTo(w, "dropped", "poll")
    /\ wjob' = [wjob EXCEPT ![w] = None]
    /\ pending' = pending - 1
    /\ UNCHANGED <<ch, enqueued, scanVars, manager, switchVars>>

\* The handler returns: an upload that succeeded, failed or was skipped.
HandlerReturns(w) ==
    /\ GoTo(w, "run", "done")
    /\ UNCHANGED <<queueVars, scanVars, wjob, manager, switchVars>>

Done(w) ==
    /\ GoTo(w, "done", "poll")
    /\ enqueued' = enqueued \ {wjob[w]}
    /\ wjob' = [wjob EXCEPT ![w] = None]
    /\ UNCHANGED <<ch, pending, scanVars, manager, switchVars>>

WorkerStep(w) ==
    \/ Poll(w) \/ Receive(w) \/ Leave(w) \/ DequeueCount(w) \/ Decide(w)
    \/ DropMark(w) \/ DropCount(w) \/ HandlerReturns(w) \/ Done(w)

-----------------------------------------------------------------------------
(* WorkerPool.Start and ensure: the pool grows to the wanted size, which   *)
(* config changes between two ticks, and never shrinks.                    *)

AtLeastOne(desired) == IF desired < 1 THEN 1 ELSE desired

Ensure ==
    /\ manager = "serving"
    /\ \E desired \in 0..Cardinality(Workers), new \in SUBSET (Workers \ Live) :
          /\ Cardinality(Live) + Cardinality(new) = AtLeastOne(desired)
          /\ new # {}
          /\ wpc' = [w \in Workers |-> IF w \in new THEN "poll" ELSE wpc[w]]
    /\ UNCHANGED <<queueVars, scanVars, wjob, manager, switchVars>>

\* The manager notices the cancelled context and waits for the workers.
ManagerDrains ==
    /\ manager = "serving" /\ cancelled
    /\ manager' = "draining"
    /\ UNCHANGED <<queueVars, scanVars, wpc, wjob, switchVars>>

ManagerEnds ==
    /\ manager = "draining" /\ Live = {}
    /\ manager' = "ended"
    /\ UNCHANGED <<queueVars, scanVars, wpc, wjob, switchVars>>

-----------------------------------------------------------------------------
(* SetRunning, from the control API, the bots and the failure breaker.     *)

Pause ==
    /\ ~paused /\ pauses < MaxPauses
    /\ paused' = TRUE /\ pauses' = pauses + 1
    /\ UNCHANGED <<queueVars, scanVars, poolVars, cancelled>>

Resume ==
    /\ paused
    /\ paused' = FALSE
    /\ UNCHANGED <<queueVars, scanVars, poolVars, cancelled, pauses>>

\* The signal handler stops the switch and cancels the context.
Shutdown ==
    /\ ~cancelled
    /\ paused' = TRUE /\ cancelled' = TRUE
    /\ UNCHANGED <<queueVars, scanVars, poolVars, pauses>>

-----------------------------------------------------------------------------
Next ==
    \/ \E s \in Scanners : Scan(s) \/ ScannerStep(s)
    \/ \E w \in Workers : WorkerStep(w)
    \/ Ensure \/ ManagerDrains \/ ManagerEnds
    \/ Pause \/ Resume \/ Shutdown

\* A goroutine that can run does run, the pool's ticker ticks, and an upload
\* ends (it has a 24 h timeout).  Nobody is obliged to scan, pause, resume or
\* shut down.
Fairness ==
    /\ \A s \in Scanners : WF_vars(ScannerStep(s))
    /\ \A w \in Workers : WF_vars(WorkerStep(w))
    /\ WF_vars(Ensure /\ ~cancelled) /\ WF_vars(ManagerDrains) /\ WF_vars(ManagerEnds)

Spec == Init /\ [][Next]_vars
FairSpec == Spec /\ Fairness

-----------------------------------------------------------------------------
(* Properties                                                              *)

\* Types: each variable stays in its range, the buffer within its capacity.
TypeOK ==
    /\ ch \in Seq(Paths) /\ Len(ch) <= Cap
    /\ enqueued \subseteq Paths
    /\ pending \in Int
    /\ todo \in [Scanners -> SUBSET Paths]
    /\ spc \in [Scanners -> {"idle", "send", "count", "refuse"}]
    /\ sjob \in [Scanners -> Paths \cup {None}]
    /\ wpc \in [Workers -> {"absent", "poll", "wait", "got", "decide", "drop",
                             "dropped", "run", "done"}]
    /\ wjob \in [Workers -> Paths \cup {None}]
    /\ manager \in {"serving", "draining", "ended"}
    /\ paused \in BOOLEAN /\ cancelled \in BOOLEAN
    /\ pauses \in Nat

\* The scanners that own a mark: the path is not in the channel, or not any
\* more.
Offering == {s \in Scanners : spc[s] \in {"send", "refuse"}}
Holders == {w \in Workers : wpc[w] \in Holding}

\* A path is in one place at a time: once in the channel, or with one worker,
\* or with one Enqueue about to send or refuse it.  So the same file is never
\* converted, uploaded and removed by two workers at once, whatever scans and
\* workers do in between (queue.go LoadOrStore / Done, pool.go loop).
HeldOnce ==
    /\ \A i, j \in DOMAIN ch : ch[i] = ch[j] => i = j
    /\ \A v, w \in Holders : wjob[v] = wjob[w] => v = w
    /\ \A r, s \in Offering : sjob[r] = sjob[s] => r = s
    /\ \A w \in Holders : wjob[w] \notin Buffered
    /\ \A s \in Offering : sjob[s] \notin Buffered
    /\ \A s \in Offering, w \in Holders : sjob[s] # wjob[w]

\* The marks are exact: a path is marked if and only if it is in one of those
\* places.  A mark left behind would keep a file from ever being uploaded
\* (Enqueue refuses it and the scan skips it); one cleared early would let it
\* be taken twice.
MarksExact ==
    enqueued = Buffered \cup {sjob[s] : s \in Offering} \cup {wjob[w] : w \in Holders}

\* The queue and its pool implement the claim table: a path is claimed while
\* marked, and running from the moment a worker decides to call the handler
\* until Done.
InHandler == {w \in Workers : wpc[w] \in Handling}
Claims == INSTANCE ClaimTable WITH
    claimed <- enqueued,
    running <- {<<w, wjob[w]>> : w \in InHandler}
ImplementsClaimTable == Claims!Spec

\* A marked path does not stay marked for ever while the pool lives: a worker
\* takes it and uploads or drops it, or the full buffer refuses it.
MarkIsReleased == \A p \in Paths : p \in enqueued ~> (p \notin enqueued \/ cancelled)

\* After cancellation every worker leaves, even one blocked on an empty
\* channel, and the manager's Wait returns (pool.go:44-46, 73-81).
CancelDrains == cancelled ~> manager = "ended"

-----------------------------------------------------------------------------
(* What comments of the code say, and the code does not keep to            *)

\* Dequeue has lowered the counter (queue.go:61) and Drop leaves it right
\* (queue.go:65): with no call under way and no path marked, nothing is
\* counted as waiting.
AtRest ==
    /\ \A s \in Scanners : spc[s] = "idle"
    /\ \A w \in Workers : wpc[w] \in {"absent", "poll", "wait"}
PendingIsRight == AtRest /\ enqueued = {} => pending = 0
=============================================================================
