------------------------------ MODULE Highlight -----------------------------
(***************************************************************************)
(* The highlight loop (internal/app/highlight.go): it sweeps files past    *)
(* their retention, drops expired claims, analyses the files the pipeline  *)
(* claimed for it and then those it finds itself, and disposes of each.    *)
(***************************************************************************)
EXTENDS ArchiveState

VARIABLES
    hpc,        \* where the loop is
    hfile,      \* the file being analysed or disposed of
    honly,      \* onlyPrefixes as read at the start of the pass
    hclaimed    \* the file had been claimed, as Dispose found it

loopVars == <<hpc, hfile, honly, hclaimed>>

-----------------------------------------------------------------------------
HGoTo(from, to) == hpc = from /\ hpc' = to

\* The refresh before the first tick.
FirstRefresh ==
    /\ HGoTo("start", "idle")
    /\ cached' = HighlightTarget
    /\ UNCHANGED <<diskVars, hashVars, marked, verdictVars, claimed, recorder, config,
                   excused, hfile, honly, hclaimed>>

\* The retention sweep deletes a file whatever became of it.
Sweep(f) ==
    /\ Sweeps /\ hpc = "idle" /\ f \in disk
    /\ disk' = disk \ {f}
    /\ excused' = excused \cup {ClipOf(f)}
    /\ UNCHANGED <<made, remote, hashVars, marked, verdictVars, claimed, settingVars,
                   loopVars>>

\* A pass begins: expired claims go, with their files, and the targets are
\* refreshed.  Without targets there is nothing else to do.
StartPass ==
    /\ HGoTo("idle", IF HighlightTarget THEN "pass" ELSE "idle")
    /\ \E expired \in SUBSET claimed :
          claimed' = claimed \ expired /\ disk' = disk \ expired
    /\ cached' = HighlightTarget
    /\ honly' = (HighlightTarget /\ OnlyTarget)
    /\ UNCHANGED <<made, remote, hashVars, marked, verdictVars, recorder, config,
                   excused, hfile, hclaimed>>

\* Faulty variant: the claim of a file that is gone is only passed over.
VisitGonePasses(f) ==
    /\ hpc = "pass" /\ f \in claimed /\ f \notin disk
    /\ UNCHANGED <<diskVars, hashVars, marked, verdictVars, claimed, settingVars,
                   excused, loopVars>>

\* highlightPassClaimed, one claim: it is dropped if the file is gone.
VisitGone(f) ==
    /\ hpc = "pass" /\ f \in claimed /\ f \notin disk
    /\ claimed' = claimed \ {f}
    /\ UNCHANGED <<diskVars, hashVars, marked, verdictVars, settingVars, excused,
                   loopVars>>

\* A claimed file is analysed, or disposed of if there is no need to.
VisitClaimed(f) ==
    /\ f \in claimed /\ f \in disk
    /\ HGoTo("pass", IF CanRetry(f) /\ cached THEN "analyse" ELSE "dispose")
    /\ hfile' = f
    /\ UNCHANGED <<diskVars, hashVars, marked, verdictVars, claimed, settingVars,
                   excused, honly, hclaimed>>

\* A stable file the pass finds by itself: one with a verdict is disposed of
\* only if the streamer is "highlights only".
VisitStable(f) ==
    /\ f \in disk
    /\ CanRetry(f) \/ honly
    /\ HGoTo("pass", IF CanRetry(f) THEN "analyse" ELSE "dispose")
    /\ hfile' = f
    /\ UNCHANGED <<diskVars, hashVars, marked, verdictVars, claimed, settingVars,
                   excused, honly, hclaimed>>

\* The pass ends: nothing left, or its budget is spent.  How many files that
\* is, and in which order a pass visits them, is left open.
EndPass ==
    /\ HGoTo("pass", "idle")
    /\ honly' = FALSE
    /\ UNCHANGED <<diskVars, hashVars, marked, verdictVars, claimed, settingVars,
                   excused, hfile, hclaimed>>

-----------------------------------------------------------------------------
\* analyseClip, by its outcomes; each is recorded at once and the disposal of
\* the file follows.
\* A highlight is cut, or none is found.
Settle ==
    /\ HGoTo("analyse", "dispose")
    /\ settled' = settled \cup {hfile}
    /\ attempts' = [attempts EXCEPT ![hfile] = 0]
    /\ UNCHANGED <<diskVars, hashVars, marked, claimed, settingVars,
                   excused, hfile, honly, hclaimed>>

\* highlightRecordFailure: probing or cutting failed.
Fail ==
    /\ HGoTo("analyse", "dispose")
    /\ attempts' = [attempts EXCEPT ![hfile] = @ + 1]
    /\ UNCHANGED <<diskVars, hashVars, marked, settled, claimed, settingVars,
                   excused, hfile, honly, hclaimed>>

\* The output directory could not be made: the count of failures starts anew.
FailMkdir ==
    /\ HGoTo("analyse", "dispose")
    /\ attempts' = [attempts EXCEPT ![hfile] = 0]
    /\ UNCHANGED <<diskVars, hashVars, marked, settled, claimed, settingVars,
                   excused, hfile, honly, hclaimed>>

-----------------------------------------------------------------------------
(* highlightDisposeSource                                                  *)

Dispose ==
    /\ HGoTo("dispose", "judge")
    /\ hclaimed' = (hfile \in claimed)
    /\ claimed' = claimed \ {hfile}
    /\ UNCHANGED <<diskVars, hashVars, marked, verdictVars, settingVars, excused,
                   hfile, honly>>

\* highlightSourceUploaded: the file can be read and its hash is known.
SourceUploaded == hfile \in disk /\ hfile \in known
Concluded == ~CanRetry(hfile)

\* Faulty variant: a verdict is enough to delete a file.
JudgeOnVerdict ==
    /\ HGoTo("judge", IF hclaimed \/ Concluded THEN "remove" ELSE "pass")
    /\ excused' = IF ~hclaimed /\ Concluded /\ OnlyTarget /\ ~SourceUploaded
                 THEN excused \cup {ClipOf(hfile)} ELSE excused
    /\ hfile' = IF hclaimed \/ Concluded THEN hfile ELSE None
    /\ hclaimed' = FALSE
    /\ UNCHANGED <<diskVars, hashVars, marked, verdictVars, claimed, settingVars,
                   honly>>

\* highlightShouldDeleteSource.
ShouldDelete == hclaimed \/ (Concluded /\ (OnlyTarget \/ SourceUploaded))

Judge ==
    /\ HGoTo("judge", IF ShouldDelete THEN "remove" ELSE "pass")
    /\ excused' = IF ~hclaimed /\ Concluded /\ OnlyTarget /\ ~SourceUploaded
                 THEN excused \cup {ClipOf(hfile)} ELSE excused
    /\ hfile' = IF ShouldDelete THEN hfile ELSE None
    /\ hclaimed' = FALSE
    /\ UNCHANGED <<diskVars, hashVars, marked, verdictVars, claimed, settingVars,
                   honly>>

RemoveSource ==
    /\ HGoTo("remove", "pass")
    /\ disk' = disk \ {hfile}
    /\ hfile' = None
    /\ UNCHANGED <<made, remote, hashVars, marked, verdictVars, claimed, settingVars,
                   excused, honly, hclaimed>>

LoopStep ==
    \/ FirstRefresh \/ StartPass \/ Settle \/ Fail \/ FailMkdir
    \/ Dispose \/ Judge \/ RemoveSource

HighlightNext ==
    \/ LoopStep \/ EndPass
    \/ \E f \in Files : Sweep(f) \/ VisitGone(f) \/ VisitClaimed(f) \/ VisitStable(f)
=============================================================================
