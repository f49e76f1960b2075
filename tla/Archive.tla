------------------------------- MODULE Archive ------------------------------
(***************************************************************************)
(* The life of a recording on this machine: the upload pipeline and the    *)
(* highlight loop share its files and each may delete them, while the      *)
(* process may crash and the configuration change between any two steps.   *)
(***************************************************************************)
EXTENDS Pipeline, Highlight

CONSTANTS UsedConfigs,   \* the configurations the users choose from
          MaxChanges,    \* bound: changes of configuration
          MaxCrashes     \* bound: crashes

ASSUME UsedConfigsAssumption == UsedConfigs \subseteq Configs

VARIABLES changes, crashes   \* history: how many of each so far

boundVars == <<changes, crashes>>
sharedVars == <<diskVars, hashVars, marked, verdictVars, claimed, settingVars,
                excused>>
vars == <<sharedVars, workerVars, loopVars, boundVars>>

Init ==
    /\ made = {} /\ disk = {} /\ remote = {}
    /\ known = {} /\ saved = {}
    /\ marked = {} /\ found = {}
    /\ settled = {} /\ attempts = [f \in Files |-> 0]
    /\ claimed = {}
    /\ cached = FALSE /\ recorder = FALSE
    /\ config \in UsedConfigs
    /\ excused = {}
    /\ wpc = [w \in Workers |-> "idle"]
    /\ wfile = [w \in Workers |-> None] /\ wpath = [w \in Workers |-> None]
    /\ hashed = [w \in Workers |-> FALSE]
    /\ hpc = "start" /\ hfile = None /\ honly = FALSE /\ hclaimed = FALSE
    /\ changes = 0 /\ crashes = 0

-----------------------------------------------------------------------------
(* Around the two components                                               *)

\* ffmpeg closes a segment.
Record(c) ==
    /\ c \notin made
    /\ made' = made \cup {c}
    /\ disk' = disk \cup {<<c, "ts">>}
    /\ UNCHANGED <<remote, hashVars, marked, verdictVars, claimed, settingVars,
                   excused, workerVars, loopVars, boundVars>>

\* InitBuiltinRecorder has loaded the streamers, from the web server's start.
LoadRecorder ==
    /\ ~recorder
    /\ recorder' = TRUE
    /\ UNCHANGED <<diskVars, hashVars, marked, verdictVars, claimed, cached, config,
                   excused, workerVars, loopVars, boundVars>>

ChangeConfig ==
    /\ changes < MaxChanges
    /\ changes' = changes + 1
    /\ config' \in UsedConfigs
    /\ UNCHANGED <<diskVars, hashVars, marked, verdictVars, claimed, cached, recorder,
                   excused, workerVars, loopVars, crashes>>

\* The process ends and starts again.  A PUT under way may yet have reached
\* the remote; the hash file, the verdicts and the files survive.
Crash ==
    /\ crashes < MaxCrashes
    /\ crashes' = crashes + 1
    /\ \E sent \in SUBSET {wpath[w] : w \in {v \in Workers : wpc[v] = "put"}} :
          remote' = remote \cup sent
    /\ known' = saved
    /\ marked' = {} /\ found' = {}
    /\ claimed' = {}
    /\ cached' = FALSE /\ recorder' = FALSE
    /\ wpc' = [w \in Workers |-> "idle"]
    /\ wfile' = [w \in Workers |-> None] /\ wpath' = [w \in Workers |-> None]
    /\ hashed' = [w \in Workers |-> FALSE]
    /\ hpc' = "start" /\ hfile' = None /\ honly' = FALSE /\ hclaimed' = FALSE
    /\ UNCHANGED <<made, disk, saved, verdictVars, config, excused, changes>>

Environment ==
    \/ \E c \in Clips : Record(c)
    \/ LoadRecorder \/ ChangeConfig \/ Crash

Upload(A) == A /\ UNCHANGED <<loopVars, boundVars>>
Loop(A) == A /\ UNCHANGED <<workerVars, boundVars>>

Next == Upload(PipelineNext) \/ Loop(HighlightNext) \/ Environment

Spec == Init /\ [][Next]_vars

\* Scans recur, workers take what is offered, the handler and the loop go on;
\* a pass ends, and passes do visit claims and stable files (their budget
\* exceeds the few files of a run).  The remote does not refuse every upload
\* for ever, nor does making the output directory fail for ever.  Nobody is
\* obliged to record, to sweep or to change the configuration.
Fairness ==
    /\ WF_vars(LoadRecorder)
    /\ WF_vars(Upload(Scan))
    /\ WF_vars(Upload(\E f \in Files : Offer(f)))
    /\ WF_vars(Upload(\E w \in Workers, f \in Files : Begin(w, f)))
    /\ \A w \in Workers : WF_vars(Upload(HandlerStep(w)))
    /\ SF_vars(Upload(\E w \in Workers : Put(w)))
    /\ WF_vars(Loop(LoopStep))
    /\ SF_vars(Loop(\E f \in Files : VisitGone(f) \/ VisitClaimed(f)))
    /\ SF_vars(Loop(\E f \in Files : VisitStable(f)))
    /\ SF_vars(Loop(Settle \/ Fail))
    /\ SF_vars(Loop(EndPass))

FairSpec == Spec /\ Fairness

-----------------------------------------------------------------------------
(* Properties                                                              *)

\* Types: files are files, and each process is at one of its points.
TypeOK ==
    /\ made \subseteq Clips
    /\ disk \subseteq Files /\ remote \subseteq Files
    /\ known \subseteq Files /\ saved \subseteq Files
    /\ marked \subseteq Files /\ found \subseteq Files
    /\ settled \subseteq Files /\ attempts \in [Files -> 0..MaxAttempts]
    /\ claimed \subseteq Files
    /\ cached \in BOOLEAN /\ recorder \in BOOLEAN /\ config \in Configs
    /\ excused \subseteq Clips
    /\ wpc \in [Workers -> {"idle", "convert", "stat", "hash", "open", "put", "save",
                             "ask", "claim", "remove", "removeTS"}]
    /\ wfile \in [Workers -> Files \cup {None}]
    /\ wpath \in [Workers -> Files \cup {None}]
    /\ hashed \in [Workers -> BOOLEAN]
    /\ hpc \in {"start", "idle", "pass", "analyse", "dispose", "judge", "remove"}
    /\ hfile \in Files \cup {None}
    /\ honly \in BOOLEAN /\ hclaimed \in BOOLEAN
    /\ changes \in Nat /\ crashes \in Nat

\* A recording is on the local disk, or on the remote, or was given up on
\* purpose: swept after its retention, or "highlights only" and analysed.
\* The upload pipeline, the highlight loop and the claim reaper all delete
\* files, each on its own evidence; no interleaving of theirs, no failed or
\* doubtful upload and no crash leaves a recording nowhere.
OnDisk(c) == \E k \in Kinds : <<c, k>> \in disk
Stored(c) == \E k \in Kinds : <<c, k>> \in remote
NothingLost == \A c \in made : OnDisk(c) \/ Stored(c) \/ c \in excused

\* A hash in the database, in memory or on disk, is the hash of a file the
\* remote holds: skipping an upload because its hash is known is safe.
HashMeansStored == known \cup saved \subseteq remote

\* A claimed file is one the remote holds: the loop and the reaper may delete
\* it whatever comes of its analysis (highlight.go:379, 395-396).
ClaimMeansStored == claimed \subseteq remote

\* A recording leaves the local disk in the end, through an upload, an
\* analysis or both, unless neither stage disposes of it: it is not offered
\* for upload, EnableUpload being off, or its upload is skipped, and it is not
\* an original that the highlight loop analyses and gives up.
NeverHandled ==
    /\ ~config.upload \/ ShouldSkipUpload
    /\ ~(HighlightTarget /\ OnlyTarget)
RecordingsLeave == \A c \in Clips : OnDisk(c) ~> (~OnDisk(c) \/ NeverHandled)

\* Every claim is released: no file waits for ever for a loop that will not
\* come to it, whatever the configuration has changed to.
ClaimsAreReleased == claimed # {} ~> claimed = {}

-----------------------------------------------------------------------------
(* What comments of the code say, and the code does not keep to            *)

\* With the global switch off, "highlights only" originals are uploaded like
\* any other (highlight.go:570-571), so the loop gives up an original unsent
\* only while uploads of originals are skipped.
UnsentOnlyIfSkipped ==
    [][hpc = "judge" /\ excused' # excused => ShouldSkipUpload]_vars
=============================================================================
