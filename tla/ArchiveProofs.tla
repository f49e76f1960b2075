---------------------------- MODULE ArchiveProofs ---------------------------
(***************************************************************************)
(* Proofs about Archive for any clips, workers, configurations and bounds. *)
(***************************************************************************)
EXTENDS Archive, TLAPS

\* What the workers and the loop hold while they are at a file.
Jobs ==
    /\ \A w \in Workers : wpc[w] # "idle" =>
          wfile[w] \in Files /\ wpath[w] \in {wfile[w], Mp4Of(wfile[w])}
    /\ hpc \in {"analyse", "dispose", "judge", "remove"} => hfile \in Files
    /\ hpc = "analyse" => CanRetry(hfile)

Uploaded == {"save", "ask", "claim", "remove", "removeTS"}

\* The evidence on which each of them is about to delete a file.
Evidence ==
    /\ known \cup saved \subseteq remote
    /\ claimed \subseteq remote
    /\ \A w \in Workers : wpc[w] \in Uploaded => wpath[w] \in remote
    /\ hpc = "judge" /\ hclaimed => hfile \in remote
    /\ hpc = "remove" => hfile \in remote \/ ClipOf(hfile) \in excused

\* The inductive invariant: that nothing is lost depends on every deletion
\* having its evidence, and that evidence staying true until the deletion.
IInv == TypeOK /\ Jobs /\ Evidence /\ NothingLost

-----------------------------------------------------------------------------
LEMMA FileShape ==
    ASSUME NEW f \in Files
    PROVE  /\ f = <<ClipOf(f), f[2]>> /\ f[2] \in Kinds /\ ClipOf(f) \in Clips
           /\ Mp4Of(f) \in Files /\ ClipOf(Mp4Of(f)) = ClipOf(f)
BY DEF Files, ClipOf, Mp4Of, Kinds

\* The files S hold the clip c in one form or the other.
Holds(S, c) == \E k \in Kinds : <<c, k>> \in S

LEMMA HeldBy ==
    ASSUME NEW S, NEW f \in Files, f \in S
    PROVE  Holds(S, ClipOf(f))
BY FileShape DEF Holds

\* A step loses nothing if whatever it deletes is of a clip that the remote
\* has or that was given up.
LEMMA KeptIf ==
    ASSUME TypeOK, NothingLost, made' = made,
           remote \subseteq remote', excused \subseteq excused',
           \A f \in disk \ disk' : Holds(remote', ClipOf(f)) \/ ClipOf(f) \in excused'
    PROVE  NothingLost'
<1> SUFFICES ASSUME NEW c \in made PROVE OnDisk(c)' \/ Stored(c)' \/ c \in excused'
  BY DEF NothingLost
<1>1. CASE OnDisk(c)
  <2>1. PICK k \in Kinds : <<c, k>> \in disk
    BY <1>1 DEF OnDisk
  <2>2. ClipOf(<<c, k>>) = c
    BY DEF ClipOf
  <2>3. CASE <<c, k>> \in disk'
    BY <2>3 DEF OnDisk
  <2>4. CASE <<c, k>> \notin disk'
    BY <2>1, <2>2, <2>4 DEF Holds, Stored
  <2>5. QED BY <2>3, <2>4
<1>2. CASE Stored(c)
  BY <1>2 DEF Stored
<1>3. CASE c \in excused
  BY <1>3
<1>4. QED BY <1>1, <1>2, <1>3 DEF NothingLost

-----------------------------------------------------------------------------
(* Types and jobs.                                                         *)

LEMMA InitIInv == Init => IInv
<1> SUFFICES ASSUME Init PROVE IInv
  OBVIOUS
<1>1. TypeOK
  <2>1. config \in Configs /\ attempts \in [Files -> 0..MaxAttempts]
    BY UsedConfigsAssumption, AttemptsAssumption DEF Init
  <2>2. /\ wfile \in [Workers -> Files \cup {None}]
        /\ wpath \in [Workers -> Files \cup {None}]
        /\ hashed \in [Workers -> BOOLEAN]
    BY DEF Init
  <2>3. QED BY <2>1, <2>2 DEF Init, TypeOK
<1>2. Jobs
  BY DEF Init, Jobs
<1>3. Evidence
  BY DEF Init, Evidence, Uploaded
<1>4. NothingLost
  BY DEF Init, NothingLost
<1>5. QED BY <1>1, <1>2, <1>3, <1>4 DEF IInv

\* The worker's steps, from one point of the handler to another.
LEMMA PipelineTypes ==
    ASSUME TypeOK, Jobs, Upload(PipelineNext)
    PROVE  TypeOK' /\ Jobs'
<1> USE NoFileAssumption
    DEF TypeOK, Jobs, At, To, Return, CanRetry, Upload, loopVars, boundVars,
        diskVars, hashVars, verdictVars, settingVars
<1>1. ASSUME Scan PROVE TypeOK' /\ Jobs'
  BY <1>1 DEF Scan
<1>2. ASSUME NEW f \in Files, Offer(f) PROVE TypeOK' /\ Jobs'
  BY <1>2 DEF Offer
<1>3. ASSUME NEW w \in Workers, NEW f \in Files, Begin(w, f) PROVE TypeOK' /\ Jobs'
  BY <1>3 DEF Begin
<1>4. ASSUME NEW w \in Workers, HandlerStep(w) PROVE TypeOK' /\ Jobs'
  <2>1. wpc[w] # "idle"
    BY <1>4 DEF HandlerStep, Convert, ConvertFails, Stat, Hash, Open, Put,
                PutFails, Save, Ask, Claim, Remove, RemoveTS
  <2>2. /\ wfile[w] \in Files /\ wpath[w] \in Files /\ Mp4Of(wfile[w]) \in Files
        /\ wpath[w] \in {wfile[w], Mp4Of(wfile[w])}
    BY <2>1, FileShape
  <2>3. CASE Convert(w) BY <2>2, <2>3 DEF Convert
  <2>4. CASE ConvertFails(w) BY <2>2, <2>4 DEF ConvertFails
  <2>5. CASE Stat(w) BY <2>2, <2>5 DEF Stat
  <2>6. CASE Hash(w) BY <2>2, <2>6 DEF Hash
  <2>7. CASE Open(w) BY <2>2, <2>7 DEF Open
  <2>8. CASE Put(w) BY <2>2, <2>8 DEF Put
  <2>9. CASE PutFails(w) BY <2>2, <2>9 DEF PutFails
  <2>10. CASE Save(w) BY <2>2, <2>10 DEF Save
  <2>11. CASE Ask(w) BY <2>2, <2>11 DEF Ask
  <2>12. CASE Claim(w) BY <2>2, <2>12 DEF Claim
  <2>13. CASE Remove(w) BY <2>2, <2>13 DEF Remove
  <2>14. CASE RemoveTS(w) BY <2>2, <2>14 DEF RemoveTS
  <2>15. QED
    BY <1>4, <2>3, <2>4, <2>5, <2>6, <2>7, <2>8, <2>9, <2>10, <2>11, <2>12,
       <2>13, <2>14 DEF HandlerStep
<1>5. QED
  BY <1>1, <1>2, <1>3, <1>4 DEF PipelineNext

LEMMA HighlightTypes ==
    ASSUME TypeOK, Jobs, Loop(HighlightNext)
    PROVE  TypeOK' /\ Jobs'
<1> USE NoFileAssumption, AttemptsAssumption
    DEF TypeOK, Jobs, HGoTo, CanRetry, Loop, workerVars, boundVars, diskVars,
        hashVars, verdictVars, settingVars, loopVars
<1>1. ASSUME FirstRefresh PROVE TypeOK' /\ Jobs'
  BY <1>1 DEF FirstRefresh, HighlightTarget, WantsHighlight, TriStateOn
<1>2. ASSUME NEW f \in Files, Sweep(f) PROVE TypeOK' /\ Jobs'
  BY <1>2, FileShape DEF Sweep
<1>3. ASSUME StartPass PROVE TypeOK' /\ Jobs'
  BY <1>3 DEF StartPass, HighlightTarget, WantsHighlight, TriStateOn
<1>4. ASSUME NEW f \in Files, VisitGone(f) PROVE TypeOK' /\ Jobs'
  BY <1>4 DEF VisitGone
<1>5. ASSUME NEW f \in Files, VisitClaimed(f) PROVE TypeOK' /\ Jobs'
  BY <1>5 DEF VisitClaimed
<1>6. ASSUME NEW f \in Files, VisitStable(f) PROVE TypeOK' /\ Jobs'
  BY <1>6 DEF VisitStable
<1>7. ASSUME EndPass PROVE TypeOK' /\ Jobs'
  BY <1>7 DEF EndPass
<1>8. ASSUME Settle PROVE TypeOK' /\ Jobs'
  BY <1>8 DEF Settle
<1>9. ASSUME Fail PROVE TypeOK' /\ Jobs'
  <2>1. hfile \in Files /\ attempts[hfile] + 1 \in 0..MaxAttempts
    BY <1>9 DEF Fail
  <2>2. attempts' \in [Files -> 0..MaxAttempts]
    BY <1>9, <2>1 DEF Fail
  <2>3. QED BY <1>9, <2>1, <2>2 DEF Fail
<1>10. ASSUME FailMkdir PROVE TypeOK' /\ Jobs'
  BY <1>10 DEF FailMkdir
<1>11. ASSUME Dispose PROVE TypeOK' /\ Jobs'
  BY <1>11 DEF Dispose
<1>12. ASSUME Judge PROVE TypeOK' /\ Jobs'
  BY <1>12, FileShape DEF Judge
<1>13. ASSUME RemoveSource PROVE TypeOK' /\ Jobs'
  BY <1>13 DEF RemoveSource
<1>14. QED
  BY <1>1, <1>2, <1>3, <1>4, <1>5, <1>6, <1>7, <1>8, <1>9, <1>10, <1>11, <1>12,
     <1>13 DEF HighlightNext, LoopStep

LEMMA EnvironmentTypes ==
    ASSUME TypeOK, Jobs, Environment
    PROVE  TypeOK' /\ Jobs'
<1> USE UsedConfigsAssumption
    DEF TypeOK, Jobs, CanRetry, workerVars, loopVars, boundVars, diskVars,
        hashVars, verdictVars, settingVars
<1>1. ASSUME NEW c \in Clips, Record(c) PROVE TypeOK' /\ Jobs'
  BY <1>1 DEF Record, Files, Kinds
<1>2. CASE LoadRecorder BY <1>2 DEF LoadRecorder
<1>3. CASE ChangeConfig BY <1>3 DEF ChangeConfig
<1>4. CASE Crash
  <2>1. remote' \subseteq Files
    BY <1>4, FileShape DEF Crash
  <2>2. /\ wfile' \in [Workers -> Files \cup {None}]
        /\ wpath' \in [Workers -> Files \cup {None}]
        /\ hashed' \in [Workers -> BOOLEAN]
        /\ wpc' = [w \in Workers |-> "idle"]
    BY <1>4 DEF Crash
  <2>3. crashes' \in Nat /\ known' \subseteq Files /\ hpc' = "start" /\ hfile' = None
    BY <1>4 DEF Crash
  <2>4. QED BY <1>4, <2>1, <2>2, <2>3 DEF Crash
<1>5. QED BY <1>1, <1>2, <1>3, <1>4 DEF Environment

LEMMA StepTypes == TypeOK /\ Jobs /\ [Next]_vars => TypeOK' /\ Jobs'
<1> SUFFICES ASSUME TypeOK, Jobs, [Next]_vars PROVE TypeOK' /\ Jobs'
  OBVIOUS
<1>1. CASE UNCHANGED vars
  BY <1>1 DEF vars, sharedVars, diskVars, hashVars, verdictVars, settingVars,
              workerVars, loopVars, boundVars, TypeOK, Jobs, CanRetry
<1>2. QED
  BY <1>1, PipelineTypes, HighlightTypes, EnvironmentTypes DEF Next

-----------------------------------------------------------------------------
(* Evidence and custody.                                                   *)

LEMMA PipelineKeeps ==
    ASSUME IInv, Upload(PipelineNext)
    PROVE  Evidence' /\ NothingLost'
<1> DEFINE Goal == Evidence' /\ NothingLost'
<1> USE DEF IInv, At, To, Return, Upload, loopVars, boundVars, diskVars, hashVars,
        verdictVars, settingVars, Uploaded
<1>1. UNCHANGED <<hpc, hfile, hclaimed>>
  OBVIOUS
<1>2. UNCHANGED <<made, excused>> /\ remote \subseteq remote'
  BY DEF PipelineNext, Scan, Offer, Begin, HandlerStep, Convert, ConvertFails, Stat,
         Hash, Open, Put, PutFails, Save, Ask, Claim, Remove, RemoveTS
<1> HIDE DEF IInv, Upload
<1>3. ASSUME disk \subseteq disk' PROVE NothingLost'
  BY <1>2, <1>3, KeptIf DEF IInv
<1>4. ASSUME Scan \/ \E f \in Files : Offer(f) PROVE Goal
  <2>1. UNCHANGED <<disk, remote, known, saved, claimed, wpc, wpath>>
    BY <1>4 DEF Scan, Offer
  <2>2. QED BY <1>1, <1>2, <1>3, <2>1 DEF IInv, Evidence
<1>5. ASSUME NEW w \in Workers, NEW f \in Files, Begin(w, f) PROVE Goal
  <2>1. UNCHANGED <<disk, remote, known, saved, claimed>>
    BY <1>5 DEF Begin
  <2>2. \A v \in Workers : wpc'[v] \in Uploaded => wpc[v] \in Uploaded /\ wpath'[v] = wpath[v]
    BY <1>5 DEF Begin, IInv, TypeOK
  <2>3. QED BY <1>1, <1>2, <1>3, <2>1, <2>2 DEF IInv, Evidence
<1>6. ASSUME NEW w \in Workers, HandlerStep(w) PROVE Goal
  <2> DEFINE Others == \A v \in Workers \ {w} : wpc'[v] = wpc[v] /\ wpath'[v] = wpath[v]
  <2>1. wpc[w] # "idle"
    BY <1>6 DEF HandlerStep, Convert, ConvertFails, Stat, Hash, Open, Put,
                PutFails, Save, Ask, Claim, Remove, RemoveTS
  <2>2. /\ wfile[w] \in Files /\ wpath[w] \in Files
        /\ ClipOf(wpath[w]) = ClipOf(wfile[w])
    BY <2>1, FileShape DEF IInv, Jobs
  <2>3. Others
    BY <1>6 DEF HandlerStep, Convert, ConvertFails, Stat, Hash, Open, Put,
                PutFails, Save, Ask, Claim, Remove, RemoveTS, IInv, TypeOK
  <2>4. CASE \/ Convert(w) \/ ConvertFails(w) \/ Stat(w) \/ Open(w)
    <3>1. UNCHANGED <<remote, known, saved, claimed>> /\ disk \subseteq disk'
      BY <2>4 DEF Convert, ConvertFails, Stat, Open
    <3>2. wpc'[w] \notin Uploaded
      BY <2>4 DEF Convert, ConvertFails, Stat, Open, IInv, TypeOK
    <3>3. QED BY <1>1, <1>2, <1>3, <2>3, <3>1, <3>2 DEF IInv, Evidence
  <2>5. CASE Hash(w)
    <3>1. UNCHANGED <<disk, remote, known, saved, claimed, wpath>>
      BY <2>5 DEF Hash
    <3>2. wpc'[w] \in Uploaded => wpath[w] \in known
      BY <2>5 DEF Hash, IInv, TypeOK
    <3>3. QED BY <1>1, <1>2, <1>3, <2>3, <3>1, <3>2 DEF IInv, Evidence
  <2>6. CASE Put(w)
    <3>1. UNCHANGED <<disk, known, saved, claimed, wpath>> /\ wpath[w] \in remote'
      BY <2>6 DEF Put
    <3>2. QED BY <1>1, <1>2, <1>3, <2>3, <3>1 DEF IInv, Evidence
  <2>7. CASE PutFails(w)
    <3>1. UNCHANGED <<disk, known, saved, claimed>>
      BY <2>7 DEF PutFails
    <3>2. wpc'[w] \notin Uploaded
      BY <2>7 DEF PutFails, IInv, TypeOK
    <3>3. QED BY <1>1, <1>2, <1>3, <2>3, <3>1, <3>2 DEF IInv, Evidence
  <2>8. CASE Save(w)
    <3>1. /\ wpath[w] \in remote
          /\ UNCHANGED <<disk, remote, claimed, wpath>>
          /\ known' \subseteq known \cup {wpath[w]}
          /\ saved' \subseteq saved \cup {wpath[w]}
      BY <2>8 DEF Save, IInv, Evidence
    <3>2. QED BY <1>1, <1>2, <1>3, <2>3, <3>1 DEF IInv, Evidence
  <2>9. CASE Ask(w)
    <3>1. wpath[w] \in remote /\ UNCHANGED <<disk, remote, known, saved, claimed, wpath>>
      BY <2>9 DEF Ask, IInv, Evidence
    <3>2. QED BY <1>1, <1>2, <1>3, <2>3, <3>1 DEF IInv, Evidence
  <2>10. CASE Claim(w)
    <3>1. /\ wpath[w] \in remote /\ UNCHANGED <<disk, remote, known, saved, wpath>>
          /\ claimed' = claimed \cup {wpath[w]}
      BY <2>10 DEF Claim, IInv, Evidence
    <3>2. QED BY <1>1, <1>2, <1>3, <2>3, <3>1 DEF IInv, Evidence
  <2>11. CASE Remove(w) \/ RemoveTS(w)
    <3>1. /\ wpath[w] \in remote /\ UNCHANGED <<remote, known, saved, claimed>>
          /\ disk \ disk' \subseteq {wpath[w], wfile[w]}
      BY <2>11 DEF Remove, RemoveTS, IInv, Evidence
    <3>2. wpc'[w] \in Uploaded => wpath'[w] = wpath[w]
      BY <2>11 DEF Remove, RemoveTS, IInv, TypeOK
    <3>3. Evidence'
      BY <1>1, <1>2, <2>3, <3>1, <3>2 DEF IInv, Evidence
    <3>4. Holds(remote', ClipOf(wpath[w]))
      BY <2>2, <3>1, HeldBy
    <3>5. \A f \in disk \ disk' : Holds(remote', ClipOf(f))
      BY <2>2, <3>1, <3>4
    <3>6. NothingLost'
      BY <1>2, <3>5, KeptIf DEF IInv
    <3>7. QED BY <3>3, <3>6
  <2>12. QED
    BY <1>6, <2>4, <2>5, <2>6, <2>7, <2>8, <2>9, <2>10, <2>11 DEF HandlerStep
<1>7. QED
  BY <1>4, <1>5, <1>6 DEF PipelineNext, Upload

LEMMA HighlightKeeps ==
    ASSUME IInv, Loop(HighlightNext)
    PROVE  Evidence' /\ NothingLost'
<1> DEFINE Goal == Evidence' /\ NothingLost'
<1>1. UNCHANGED <<made, remote, known, saved, wpc, wpath>>
  BY DEF Loop, HighlightNext, LoopStep, FirstRefresh, Sweep, StartPass, VisitGone,
         VisitClaimed, VisitStable, EndPass, Settle, Fail, FailMkdir, Dispose, Judge,
         RemoveSource, workerVars, diskVars, hashVars
<1>2. excused \subseteq excused' /\ claimed' \subseteq claimed
  BY DEF Loop, HighlightNext, LoopStep, FirstRefresh, Sweep, StartPass, VisitGone,
         VisitClaimed, VisitStable, EndPass, Settle, Fail, FailMkdir, Dispose, Judge,
         RemoveSource
<1>3. ASSUME disk' = disk PROVE NothingLost'
  BY <1>1, <1>2, <1>3, KeptIf DEF IInv
<1>4. ASSUME NEW f \in Files, Sweep(f) PROVE Goal
  <2>1. /\ UNCHANGED <<hpc, hfile, hclaimed>> /\ ClipOf(f) \in excused'
        /\ disk \ disk' \subseteq {f}
    BY <1>4 DEF Sweep, loopVars
  <2>2. NothingLost'
    BY <1>1, <1>2, <2>1, KeptIf DEF IInv
  <2>3. QED BY <1>1, <1>2, <2>1, <2>2 DEF IInv, Evidence
<1>5. ASSUME StartPass PROVE Goal
  <2>1. /\ disk \ disk' \subseteq claimed
        /\ hpc' \in {"pass", "idle"}
    BY <1>5 DEF StartPass, HGoTo
  <2>2. \A f \in disk \ disk' : Holds(remote', ClipOf(f))
    BY <1>1, <2>1, HeldBy DEF IInv, Evidence, TypeOK
  <2>3. NothingLost'
    BY <1>1, <1>2, <2>2, KeptIf DEF IInv
  <2>4. QED BY <1>1, <1>2, <2>1, <2>3 DEF IInv, Evidence
<1>6. ASSUME RemoveSource PROVE Goal
  <2>1. /\ hpc = "remove" /\ hpc' = "pass" /\ disk \ disk' \subseteq {hfile}
    BY <1>6 DEF RemoveSource, HGoTo
  <2>2. hfile \in Files /\ (hfile \in remote' \/ ClipOf(hfile) \in excused')
    BY <1>1, <1>2, <2>1 DEF IInv, Jobs, Evidence
  <2>3. Holds(remote', ClipOf(hfile)) \/ ClipOf(hfile) \in excused'
    BY <2>2, HeldBy
  <2>4. NothingLost'
    BY <1>1, <1>2, <2>1, <2>3, KeptIf DEF IInv
  <2>5. QED BY <1>1, <1>2, <2>1, <2>4 DEF IInv, Evidence
<1>7. ASSUME Dispose PROVE Goal
  <2>1. /\ UNCHANGED <<disk, hfile>> /\ hpc' = "judge"
        /\ hclaimed' = (hfile \in claimed)
    BY <1>7 DEF Dispose, HGoTo, diskVars
  <2>2. QED BY <1>1, <1>2, <1>3, <2>1 DEF IInv, Evidence
<1>8. ASSUME Judge PROVE Goal
  <2>1. hpc = "judge" /\ hpc' = (IF ShouldDelete THEN "remove" ELSE "pass") /\ disk' = disk
    BY <1>8 DEF Judge, HGoTo, diskVars
  <2>2. CASE ~ShouldDelete
    BY <1>1, <1>2, <1>3, <2>1, <2>2 DEF IInv, Evidence
  <2>3. CASE ShouldDelete
    <3>1. hfile' = hfile
      BY <1>8, <2>3 DEF Judge
    <3>2. hclaimed \/ SourceUploaded => hfile \in remote
      BY <2>1 DEF IInv, Evidence, SourceUploaded
    <3>3. ~hclaimed /\ ~SourceUploaded => ClipOf(hfile) \in excused'
      BY <1>8, <2>3 DEF Judge, ShouldDelete
    <3>4. QED BY <1>1, <1>2, <1>3, <2>1, <2>3, <3>1, <3>2, <3>3 DEF IInv, Evidence
  <2>4. QED BY <2>2, <2>3
<1>9. ASSUME \/ FirstRefresh \/ Settle \/ Fail \/ FailMkdir \/ EndPass
             \/ \E f \in Files : VisitGone(f) \/ VisitClaimed(f) \/ VisitStable(f)
      PROVE  Goal
  <2>1. disk' = disk /\ hpc' \notin {"judge", "remove"}
    BY <1>9 DEF FirstRefresh, Settle, Fail, FailMkdir, EndPass, VisitGone,
                VisitClaimed, VisitStable, HGoTo, diskVars, loopVars
  <2>2. QED BY <1>1, <1>2, <1>3, <2>1 DEF IInv, Evidence
<1>10. QED
  BY <1>4, <1>5, <1>6, <1>7, <1>8, <1>9 DEF Loop, HighlightNext, LoopStep

LEMMA EnvironmentKeeps ==
    ASSUME IInv, Environment
    PROVE  Evidence' /\ NothingLost'
<1>1. ASSUME NEW c \in Clips, Record(c) PROVE Evidence' /\ NothingLost'
  <2>1. /\ made' = made \cup {c} /\ disk' = disk \cup {<<c, "ts">>}
        /\ UNCHANGED <<remote, known, saved, claimed, excused, wpc, wpath, hpc, hfile, hclaimed>>
    BY <1>1 DEF Record, hashVars, workerVars, loopVars
  <2>2. Evidence'
    BY <2>1 DEF IInv, Evidence
  <2>3. NothingLost'
    BY <2>1 DEF IInv, NothingLost, OnDisk, Stored, Kinds
  <2>4. QED BY <2>2, <2>3
<1>2. CASE LoadRecorder \/ ChangeConfig
  <2>1. UNCHANGED <<made, disk, remote, known, saved, claimed, excused, wpc, wpath, hpc,
                    hfile, hclaimed>>
    BY <1>2 DEF LoadRecorder, ChangeConfig, diskVars, hashVars, workerVars, loopVars
  <2>2. QED BY <2>1, KeptIf DEF IInv, Evidence
<1>3. CASE Crash
  <2>1. /\ UNCHANGED <<made, disk, saved, excused>> /\ remote \subseteq remote'
        /\ known' = saved /\ claimed' = {} /\ hpc' = "start"
        /\ wpc' = [w \in Workers |-> "idle"]
    BY <1>3 DEF Crash
  <2>2. Evidence'
    BY <2>1 DEF IInv, Evidence, Uploaded
  <2>3. QED BY <2>1, <2>2, KeptIf DEF IInv
<1>4. QED BY <1>1, <1>2, <1>3 DEF Environment

\* The conjunction is inductive.
THEOREM Inductive == Spec => []IInv
<1>1. IInv /\ [Next]_vars => IInv'
  <2> SUFFICES ASSUME IInv, [Next]_vars PROVE IInv'
    OBVIOUS
  <2>1. TypeOK' /\ Jobs'
    BY StepTypes DEF IInv
  <2>2. CASE UNCHANGED vars
    <3>1. UNCHANGED <<made, disk, remote, known, saved, claimed, excused, wpc, wpath, hpc,
                      hfile, hclaimed>>
      BY <2>2 DEF vars, sharedVars, diskVars, hashVars, workerVars, loopVars
    <3>2. QED BY <2>1, <3>1, KeptIf DEF IInv, Evidence
  <2>3. CASE Next
    BY <2>1, <2>3, PipelineKeeps, HighlightKeeps, EnvironmentKeeps DEF Next, IInv
  <2>4. QED BY <2>2, <2>3
<1>2. QED BY <1>1, InitIInv, PTL DEF Spec

\* Every variable of the archive stays in its range; no file is analysed once
\* it has failed MaxAttempts times (highlight.go:290).
THEOREM TypeCorrect == Spec => []TypeOK
<1>1. IInv => TypeOK
  BY DEF IInv
<1>2. QED BY <1>1, Inductive, PTL

\* No recording is ever lost: it is on the disk, on the remote, or given up on
\* purpose, for any clips, workers and configurations and any number of
\* crashes and changes (pipeline.go:151, highlight.go:358).
THEOREM NeverLost == Spec => []NothingLost
<1>1. IInv => NothingLost
  BY DEF IInv
<1>2. QED BY <1>1, Inductive, PTL

\* A known hash is the hash of a file the remote holds, in memory and in the
\* hash file a restart reads (pipeline.go:117, hashstore/store.go:79).
THEOREM KnownIsStored == Spec => []HashMeansStored
<1>1. IInv => HashMeansStored
  BY DEF IInv, Evidence, HashMeansStored
<1>2. QED BY <1>1, Inductive, PTL

\* A claim is on a file the remote holds (highlight.go:270).
THEOREM ClaimedIsStored == Spec => []ClaimMeansStored
<1>1. IInv => ClaimMeansStored
  BY DEF IInv, Evidence, ClaimMeansStored
<1>2. QED BY <1>1, Inductive, PTL
=============================================================================
