------------------------------ MODULE Pipeline ------------------------------
(***************************************************************************)
(* The upload pipeline: the scan that offers finished files, and the       *)
(* handler each worker runs (internal/uploader/pipeline.go, with Upload of *)
(* internal/app/upload.go, TSToMP4 and the hash store).  The queue between *)
(* them is the claim table that TaskQueue is shown to implement.           *)
(***************************************************************************)
EXTENDS ArchiveState

VARIABLES
    found,      \* candidates of the current scan not yet offered
    wpc,        \* [Workers -> where HandleFile is]
    wfile,      \* [Workers -> the path taken from the queue]
    wpath,      \* [Workers -> the path to upload: wfile or its MP4]
    hashed      \* [Workers -> there is a hash to save after the upload]

workerVars == <<found, wpc, wfile, wpath, hashed>>

-----------------------------------------------------------------------------
\* What RunOnce tells the walk of a file: with EnableUpload off every file
\* passes for one that is queued.
IsQueued(f) == f \in marked \/ ~config.upload

\* The walk: files old enough and not marked become candidates.
Scan ==
    /\ found = {}
    /\ \E seen \in SUBSET {f \in disk : ~IsQueued(f)} : found' = seen
    /\ UNCHANGED <<diskVars, hashVars, marked, verdictVars, claimed, settingVars,
                   excused, wpc, wfile, wpath, hashed>>

\* Enqueue of a candidate, which may have been marked or removed meanwhile.
Offer(f) ==
    /\ f \in found
    /\ found' = found \ {f}
    /\ marked' = marked \cup {f}
    /\ UNCHANGED <<diskVars, hashVars, verdictVars, claimed, settingVars,
                   excused, wpc, wfile, wpath, hashed>>

-----------------------------------------------------------------------------
\* The handler goes from one point to another and touches only what follows.
At(w, pc) == wpc[w] = pc
To(w, pc) == wpc' = [wpc EXCEPT ![w] = pc] /\ UNCHANGED <<wfile, wpath, hashed, marked>>

\* The handler returns, and the worker calls Done.
Return(w) ==
    /\ marked' = marked \ {wfile[w]}
    /\ wpc' = [wpc EXCEPT ![w] = "idle"]
    /\ wfile' = [wfile EXCEPT ![w] = None]
    /\ wpath' = [wpath EXCEPT ![w] = None]
    /\ hashed' = [hashed EXCEPT ![w] = FALSE]

\* A worker takes a marked path: "highlights only" originals are skipped, and
\* so is a file that is gone.
Begin(w, f) ==
    /\ At(w, "idle") /\ f \in marked
    /\ \A v \in Workers : wfile[v] # f
    /\ IF ShouldSkipUpload \/ f \notin disk
       THEN /\ marked' = marked \ {f}
            /\ UNCHANGED <<wpc, wfile, wpath, hashed>>
       ELSE /\ wpc' = [wpc EXCEPT ![w] = IF config.convert /\ IsTS(f) THEN "convert" ELSE "hash"]
            /\ wfile' = [wfile EXCEPT ![w] = f]
            /\ wpath' = [wpath EXCEPT ![w] = f]
            /\ UNCHANGED <<hashed, marked>>
    /\ UNCHANGED <<diskVars, hashVars, verdictVars, claimed, settingVars,
                   excused, found>>

\* TSToMP4 succeeds: the MP4 appears, or is replaced, in one rename.
Convert(w) ==
    /\ At(w, "convert") /\ wfile[w] \in disk
    /\ disk' = disk \cup {Mp4Of(wfile[w])}
    /\ wpc' = [wpc EXCEPT ![w] = "stat"]
    /\ UNCHANGED <<made, remote, hashVars, marked, verdictVars, claimed, settingVars,
                   excused, found, wfile, wpath, hashed>>

\* TSToMP4 fails: the .ts itself is uploaded.
ConvertFails(w) ==
    /\ At(w, "convert")
    /\ To(w, "hash")
    /\ UNCHANGED <<diskVars, hashVars, verdictVars, claimed, settingVars,
                   excused, found>>

\* The MP4 is looked up again; if another worker has removed it, the .ts is
\* uploaded instead.
Stat(w) ==
    /\ At(w, "stat")
    /\ wpc' = [wpc EXCEPT ![w] = "hash"]
    /\ wpath' = [wpath EXCEPT ![w] =
                    IF Mp4Of(wfile[w]) \in disk THEN Mp4Of(wfile[w]) ELSE wfile[w]]
    /\ UNCHANGED <<diskVars, hashVars, marked, verdictVars, claimed, settingVars,
                   excused, found, wfile, hashed>>

\* Faulty variant: a file that cannot be read passes for one with a known hash.
HashTrusts(w) ==
    /\ At(w, "hash")
    /\ hashed' = [hashed EXCEPT ![w] = wpath[w] \in disk \ known]
    /\ wpc' = [wpc EXCEPT ![w] = IF wpath[w] \in disk \ known THEN "open" ELSE "ask"]
    /\ UNCHANGED <<diskVars, hashVars, marked, verdictVars, claimed, settingVars,
                   excused, found, wfile, wpath>>

\* FileHash: a file that cannot be read has no hash.  A known hash skips the
\* upload.
Hash(w) ==
    /\ At(w, "hash")
    /\ hashed' = [hashed EXCEPT ![w] = wpath[w] \in disk \ known]
    /\ wpc' = [wpc EXCEPT ![w] = IF wpath[w] \in disk \cap known THEN "ask" ELSE "open"]
    /\ UNCHANGED <<diskVars, hashVars, marked, verdictVars, claimed, settingVars,
                   excused, found, wfile, wpath>>

\* Upload opens the file; it can read it to the end even if it is removed.
Open(w) ==
    /\ At(w, "open")
    /\ IF wpath[w] \in disk THEN To(w, "put") ELSE Return(w)
    /\ UNCHANGED <<diskVars, hashVars, verdictVars, claimed, settingVars,
                   excused, found>>

\* Faulty variant: every answer of the remote counts as a success.
PutAcceptsAll(w) ==
    /\ At(w, "put")
    /\ \E held \in {remote, remote \cup {wpath[w]}} : remote' = held
    /\ To(w, "save")
    /\ UNCHANGED <<made, disk, hashVars, verdictVars, claimed, settingVars,
                   excused, found>>

\* The remote has stored the file, or refuses it because it has that name.
Put(w) ==
    /\ At(w, "put")
    /\ remote' = remote \cup {wpath[w]}
    /\ To(w, "save")
    /\ UNCHANGED <<made, disk, hashVars, verdictVars, claimed, settingVars,
                   excused, found>>

\* The connection breaks or the remote refuses: it may have stored the file.
PutFails(w) ==
    /\ At(w, "put")
    /\ \E held \in {remote, remote \cup {wpath[w]}} : remote' = held
    /\ Return(w)
    /\ UNCHANGED <<made, disk, hashVars, verdictVars, claimed, settingVars,
                   excused, found>>

\* Store.Save: the memory, then a line of the file.  The line may fail to be
\* written; a crash between the two leaves the same.
Save(w) ==
    /\ At(w, "save")
    /\ known' = IF hashed[w] THEN known \cup {wpath[w]} ELSE known
    /\ \/ hashed[w] /\ saved' = saved \cup {wpath[w]}
       \/ (AppendFails \/ ~hashed[w]) /\ UNCHANGED saved
    /\ wpc' = [wpc EXCEPT ![w] = "ask"]
    /\ hashed' = [hashed EXCEPT ![w] = FALSE]
    /\ UNCHANGED <<diskVars, marked, verdictVars, claimed, settingVars, excused,
                   found, wfile, wpath>>

\* highlightClaim, the reads: the file is left to the highlight loop if its
\* streamer is a target, by the cached directories, and it has no verdict.
Ask(w) ==
    /\ At(w, "ask")
    /\ To(w, IF CanRetry(wpath[w]) /\ cached THEN "claim" ELSE "remove")
    /\ UNCHANGED <<diskVars, hashVars, verdictVars, claimed, settingVars,
                   excused, found>>

\* highlightClaim, the store: the claim is stamped with the present.
Claim(w) ==
    /\ At(w, "claim")
    /\ claimed' = claimed \cup {wpath[w]}
    /\ To(w, "removeTS")
    /\ UNCHANGED <<diskVars, hashVars, verdictVars, settingVars, excused, found>>

Remove(w) ==
    /\ At(w, "remove")
    /\ disk' = disk \ {wpath[w]}
    /\ To(w, "removeTS")
    /\ UNCHANGED <<made, remote, hashVars, verdictVars, claimed, settingVars,
                   excused, found>>

\* Faulty variant: the .ts of an uploaded MP4 stays.
RemoveTSForgets(w) ==
    /\ At(w, "removeTS")
    /\ Return(w)
    /\ UNCHANGED <<diskVars, hashVars, verdictVars, claimed, settingVars,
                   excused, found>>

\* The .ts of an uploaded MP4 goes, and HandleFile returns.
RemoveTS(w) ==
    /\ At(w, "removeTS")
    /\ disk' = IF wpath[w] # wfile[w] THEN disk \ {wfile[w]} ELSE disk
    /\ Return(w)
    /\ UNCHANGED <<made, remote, hashVars, verdictVars, claimed, settingVars,
                   excused, found>>

\* What the worker does on its own; the answers of the converter and the
\* remote are the environment's.
HandlerStep(w) ==
    \/ Convert(w) \/ ConvertFails(w) \/ Stat(w) \/ Hash(w) \/ Open(w)
    \/ Put(w) \/ PutFails(w) \/ Save(w) \/ Ask(w) \/ Claim(w)
    \/ Remove(w) \/ RemoveTS(w)

PipelineNext ==
    \/ Scan
    \/ \E f \in Files : Offer(f)
    \/ \E w \in Workers : HandlerStep(w) \/ \E f \in Files : Begin(w, f)
=============================================================================
