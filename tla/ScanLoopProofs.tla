--------------------------- MODULE ScanLoopProofs ---------------------------
(***************************************************************************)
(* Proofs about ScanLoop for any files, workers, threshold and bounds.     *)
(***************************************************************************)
EXTENDS ScanLoop, FiniteSetTheorems, TLAPS

\* The file a worker is sending is not in the queue as well.
Apart == \A w \in Workers : wfile[w] \notin queue

\* What keeps an outage bounded.  While uploading is on, every failure beyond
\* the threshold belongs to a worker that has yet to trip the breaker; at all
\* times a worker that is sending can add one failure and no more.
BreakerInv ==
    /\ streak <= fails
    /\ streak + Cardinality(Sending) <= Threshold - 1 + Cardinality(Workers)
    /\ running => streak <= Threshold - 1 + Cardinality(Tripping)

IInv == TypeOK /\ Apart /\ BreakerInv

-----------------------------------------------------------------------------
(* Types.                                                                  *)

LEMMA InitTypes == Init => TypeOK /\ Apart
<1> SUFFICES ASSUME Init PROVE TypeOK /\ Apart
  OBVIOUS
<1>1. wpc \in [Workers -> {"taking", "sending", "tripping"}]
  BY DEF Init
<1>2. wfile \in [Workers -> Files \cup {None}]
  BY DEF Init
<1>3. queue \subseteq disk /\ disk \subseteq Files /\ Apart
  BY DEF Init, Apart
<1>4. commands \in 0..MaxCommands
  BY BoundsAssumption DEF Init
<1>5. QED
  BY <1>1, <1>2, <1>3, <1>4 DEF Init, TypeOK, Reasons

LEMMA LoopTypes ==
    ASSUME TypeOK, Apart, LoopStep
    PROVE  TypeOK' /\ Apart'
<1> USE NoneAssumption DEF TypeOK, Apart, Reasons, Goto, ResetFail, userVars, workVars
<1>1. CASE Boot BY <1>1 DEF Boot
<1>2. CASE Top BY <1>2 DEF Top
<1>3. CASE Timer BY <1>3 DEF Timer
<1>4. CASE Triggered BY <1>4 DEF Triggered
<1>5. CASE Poll BY <1>5 DEF Poll
<1>6. CASE TakenWhileParked BY <1>6 DEF TakenWhileParked
<1>7. CASE BeginScan BY <1>7 DEF BeginScan
<1>8. CASE CheckRunning BY <1>8 DEF CheckRunning
<1>9. CASE Collect BY <1>9 DEF Collect, IsQueued
<1>10. QED
  BY <1>1, <1>2, <1>3, <1>4, <1>5, <1>6, <1>7, <1>8, <1>9 DEF LoopStep

LEMMA WorkerTypes ==
    ASSUME TypeOK, Apart, NEW w \in Workers, WorkerStep(w)
    PROVE  TypeOK' /\ Apart'
<1> USE NoneAssumption DEF TypeOK, Apart, Reasons, Idle, ResetFail, SwitchOff, userVars, loopVars
<1>1. ASSUME NEW f \in Files, Take(w, f) PROVE TypeOK' /\ Apart'
  BY <1>1 DEF Take
<1>2. ASSUME NEW f \in Files, Discard(w, f) PROVE TypeOK' /\ Apart'
  BY <1>2 DEF Discard
<1>3. CASE Sent(w) BY <1>3 DEF Sent
<1>4. CASE NotSent(w) BY <1>4 DEF NotSent
<1>5. CASE PauseOnFailure(w) BY <1>5 DEF PauseOnFailure
<1>6. QED BY <1>1, <1>2, <1>3, <1>4, <1>5 DEF WorkerStep

LEMMA EnvironmentTypes ==
    ASSUME TypeOK, Apart, Environment
    PROVE  TypeOK' /\ Apart'
<1> USE BoundsAssumption
    DEF TypeOK, Apart, Reasons, Switching, SwitchOn, SwitchOff, Command, Turns,
        TriggerScan, loopVars, workVars
<1>1. CASE WebServerStarts BY <1>1 DEF WebServerStarts
<1>2. CASE Start BY <1>2 DEF Start
<1>3. CASE TurnUpload
  <2>1. /\ enabled' \in BOOLEAN /\ asking' \subseteq Switching /\ commands' \in 0..MaxCommands
    BY <1>3 DEF TurnUpload
  <2>2. UNCHANGED <<running, fails, trigger, pc, reason, upload, disk, queue, wpc, wfile,
                    web, owed, streak>>
    BY <1>3 DEF TurnUpload
  <2>3. QED BY <2>1, <2>2
<1>4. CASE Pause
  <2>1. running' = FALSE /\ owed' = FALSE /\ commands' \in 0..MaxCommands
    BY <1>4 DEF Pause
  <2>2. UNCHANGED <<fails, trigger, pc, reason, upload, disk, queue, wpc, wfile, web,
                    enabled, asking, streak>>
    BY <1>4 DEF Pause
  <2>3. QED BY <2>1, <2>2
<1>5. ASSUME NEW r \in {"rescan", "other"}, Ask(r) PROVE TypeOK' /\ Apart'
  BY <1>5 DEF Ask
<1>6. ASSUME NEW f \in Files, Record(f) PROVE TypeOK' /\ Apart'
  BY <1>6 DEF Record
<1>7. ASSUME NEW r \in Switching, RequestTriggers(r) PROVE TypeOK' /\ Apart'
  BY <1>7 DEF RequestTriggers
<1>8. QED BY <1>1, <1>2, <1>3, <1>4, <1>5, <1>6, <1>7 DEF Environment

LEMMA StepTypes == TypeOK /\ Apart /\ [Next]_vars => TypeOK' /\ Apart'
<1> SUFFICES ASSUME TypeOK, Apart, [Next]_vars PROVE TypeOK' /\ Apart'
  OBVIOUS
<1>1. CASE UNCHANGED vars
  BY <1>1 DEF vars, loopVars, workVars, userVars, TypeOK, Apart
<1>2. CASE Next
  BY <1>2, LoopTypes, WorkerTypes, EnvironmentTypes DEF Next
<1>3. QED BY <1>1, <1>2

\* Every variable stays in its range, the count of commands within its bound
\* and the queue among the recordings on disk: a worker's success takes its
\* file off the disk, and that file cannot be queued at the time.
THEOREM TypeCorrect == Spec => []TypeOK
<1>1. Spec => [](TypeOK /\ Apart)
  BY InitTypes, StepTypes, PTL DEF Spec
<1>2. QED BY <1>1, PTL

-----------------------------------------------------------------------------
(* Counting workers.                                                       *)

LEMMA SumOfDisjoint ==
    ASSUME NEW S, IsFiniteSet(S), NEW T, IsFiniteSet(T), S \cap T = {}
    PROVE  /\ IsFiniteSet(S \cup T)
           /\ Cardinality(S \cup T) = Cardinality(S) + Cardinality(T)
<1>1. Cardinality(S) \in Nat /\ Cardinality(T) \in Nat
  BY FS_CardinalityType
<1>2. Cardinality(S \cap T) = 0
  BY FS_EmptySet
<1>3. /\ IsFiniteSet(S \cup T)
      /\ Cardinality(S \cup T) = Cardinality(S) + Cardinality(T) - Cardinality(S \cap T)
  BY FS_Union
<1>4. QED BY <1>1, <1>2, <1>3

LEMMA Counts ==
    /\ IsFiniteSet(Sending) /\ Cardinality(Sending) \in Nat
    /\ IsFiniteSet(Tripping) /\ Cardinality(Tripping) \in Nat
    /\ Cardinality(Workers) \in Nat
    /\ Cardinality(Sending) + Cardinality(Tripping) <= Cardinality(Workers)
<1>1. Sending \in SUBSET Workers /\ Tripping \in SUBSET Workers
  BY DEF Sending, Tripping
<1>2. IsFiniteSet(Sending) /\ IsFiniteSet(Tripping)
  BY <1>1, WorkersAssumption, FS_Subset
<1>3. /\ Cardinality(Sending) \in Nat
      /\ Cardinality(Tripping) \in Nat
      /\ Cardinality(Workers) \in Nat
  BY <1>2, WorkersAssumption, FS_CardinalityType
<1>4. Sending \cap Tripping = {}
  BY DEF Sending, Tripping
<1>5. Cardinality(Sending \cup Tripping) = Cardinality(Sending) + Cardinality(Tripping)
  BY <1>2, <1>3, <1>4, FS_EmptySet, SumOfDisjoint
<1>6. Cardinality(Sending \cup Tripping) <= Cardinality(Workers)
  BY <1>1, WorkersAssumption, FS_Subset
<1>7. QED BY <1>2, <1>3, <1>5, <1>6

\* A worker that is taking leaves room for one more to be sending.
LEMMA Room ==
    ASSUME NEW w \in Workers, Idle(w)
    PROVE  Cardinality(Sending) + Cardinality(Tripping) + 1 <= Cardinality(Workers)
<1> DEFINE busy == Sending \cup Tripping
<1>1. busy \cup {w} \in SUBSET Workers /\ w \notin busy
  BY DEF Sending, Tripping, Idle
<1>2. Sending \cap Tripping = {}
  BY DEF Sending, Tripping
<1>3. IsFiniteSet(busy) /\ Cardinality(busy) = Cardinality(Sending) + Cardinality(Tripping)
  BY <1>2, Counts, SumOfDisjoint
<1>4. Cardinality(busy \cup {w}) = Cardinality(busy) + 1
  BY <1>1, <1>3, FS_AddElement
<1>5. Cardinality(busy \cup {w}) <= Cardinality(Workers)
  BY <1>1, WorkersAssumption, FS_Subset
<1>6. QED BY <1>3, <1>4, <1>5

\* How the two sets of workers change with one worker's counter.
LEMMA Moves ==
    ASSUME TypeOK, NEW w \in Workers, NEW to \in {"taking", "sending", "tripping"},
           wpc' = [wpc EXCEPT ![w] = to]
    PROVE  /\ Sending' = IF to = "sending" THEN Sending \cup {w} ELSE Sending \ {w}
           /\ Tripping' = IF to = "tripping" THEN Tripping \cup {w} ELSE Tripping \ {w}
BY DEF TypeOK, Sending, Tripping

-----------------------------------------------------------------------------
(* The breaker.                                                            *)

LEMMA InitBreaker == Init => BreakerInv
<1> SUFFICES ASSUME Init PROVE BreakerInv
  OBVIOUS
<1>1. Sending = {}
  BY DEF Init, Sending
<1>2. Cardinality(Sending) = 0
  BY <1>1, FS_EmptySet
<1>3. QED
  BY <1>2, Counts, ThresholdAssumption DEF Init, BreakerInv

\* Steps that neither fail nor begin an upload: the streak may be reset.
LEMMA OtherSteps ==
    ASSUME TypeOK, BreakerInv, UNCHANGED wpc,
           \/ UNCHANGED <<streak, fails>>
           \/ streak' = 0 /\ fails' \in Nat,
           running' => running \/ streak' = 0
    PROVE  BreakerInv'
<1>1. Sending' = Sending /\ Tripping' = Tripping
  BY DEF Sending, Tripping
<1>2. QED
  BY <1>1, Counts, ThresholdAssumption DEF BreakerInv, TypeOK

LEMMA TakeBreaker ==
    ASSUME TypeOK, BreakerInv, NEW w \in Workers, NEW f \in Files, Take(w, f)
    PROVE  BreakerInv'
<1>1. /\ wpc' = [wpc EXCEPT ![w] = "sending"]
      /\ w \notin Sending /\ w \notin Tripping
      /\ running /\ UNCHANGED <<running, streak, fails>>
  BY DEF Take, Idle, Sending, Tripping
<1>2. Sending' = Sending \cup {w} /\ Tripping' = Tripping \ {w}
  BY <1>1, Moves
<1>3. /\ Cardinality(Sending') = Cardinality(Sending) + 1
      /\ Cardinality(Tripping') = Cardinality(Tripping)
  BY <1>1, <1>2, Counts, FS_AddElement, FS_RemoveElement
<1>4. Cardinality(Sending) + Cardinality(Tripping) + 1 <= Cardinality(Workers)
  BY Room DEF Take
<1>5. QED
  BY <1>1, <1>2, <1>3, <1>4, Counts, ThresholdAssumption DEF BreakerInv, TypeOK

LEMMA SentBreaker ==
    ASSUME TypeOK, BreakerInv, NEW w \in Workers, Sent(w)
    PROVE  BreakerInv'
<1>1. /\ wpc' = [wpc EXCEPT ![w] = "taking"]
      /\ w \in Sending /\ w \notin Tripping
      /\ streak' = 0 /\ fails' = 0
  BY DEF Sent, ResetFail, Sending, Tripping
<1>2. Sending' = Sending \ {w} /\ Tripping' = Tripping \ {w}
  BY <1>1, Moves
<1>3. /\ Cardinality(Sending') = Cardinality(Sending) - 1
      /\ Cardinality(Tripping') = Cardinality(Tripping)
  BY <1>1, <1>2, Counts, FS_RemoveElement
<1>4. QED
  BY <1>1, <1>3, Counts, ThresholdAssumption DEF BreakerInv

\* A failure below the threshold keeps the streak below it, because the count
\* is never lower than the streak; any other failure makes a worker that trips.
LEMMA NotSentBreaker ==
    ASSUME TypeOK, BreakerInv, NEW w \in Workers, NotSent(w)
    PROVE  BreakerInv'
<1>1. /\ w \in Sending /\ w \notin Tripping
      /\ running' = running /\ streak' = streak + 1 /\ fails' = fails + 1
      /\ streak \in Nat /\ fails \in Nat
  BY DEF NotSent, Sending, Tripping, TypeOK
<1>2. CASE Trips(fails + 1)
  <2>1. wpc' = [wpc EXCEPT ![w] = "tripping"]
    BY <1>2 DEF NotSent
  <2>2. Sending' = Sending \ {w} /\ Tripping' = Tripping \cup {w}
    BY <2>1, Moves
  <2>3. /\ Cardinality(Sending') = Cardinality(Sending) - 1
        /\ Cardinality(Tripping') = Cardinality(Tripping) + 1
    BY <1>1, <2>2, Counts, FS_AddElement, FS_RemoveElement
  <2>4. QED
    BY <1>1, <2>3, Counts, ThresholdAssumption DEF BreakerInv
<1>3. CASE ~Trips(fails + 1)
  <2>1. wpc' = [wpc EXCEPT ![w] = "taking"] /\ fails + 1 < Threshold
    BY <1>1, <1>3, ThresholdAssumption DEF NotSent, Trips
  <2>2. Sending' = Sending \ {w} /\ Tripping' = Tripping \ {w}
    BY <2>1, Moves
  <2>3. /\ Cardinality(Sending') = Cardinality(Sending) - 1
        /\ Cardinality(Tripping') = Cardinality(Tripping)
    BY <1>1, <2>2, Counts, FS_RemoveElement
  <2>4. QED
    BY <1>1, <2>1, <2>3, Counts, ThresholdAssumption DEF BreakerInv
<1>4. QED BY <1>2, <1>3

LEMMA PauseBreaker ==
    ASSUME TypeOK, BreakerInv, NEW w \in Workers, PauseOnFailure(w)
    PROVE  BreakerInv'
<1>1. /\ wpc' = [wpc EXCEPT ![w] = "taking"]
      /\ w \notin Sending
      /\ running' = FALSE /\ UNCHANGED <<streak, fails>>
  BY DEF PauseOnFailure, SwitchOff, Sending
<1>2. Sending' = Sending \ {w}
  BY <1>1, Moves
<1>3. Sending' = Sending
  BY <1>1, <1>2
<1>4. QED
  BY <1>1, <1>3 DEF BreakerInv

LEMMA LoopBreaker ==
    ASSUME TypeOK, BreakerInv, LoopStep
    PROVE  BreakerInv'
<1>1. UNCHANGED <<running, wpc>>
  BY DEF LoopStep, Boot, Top, Timer, Triggered, Poll, TakenWhileParked,
         BeginScan, CheckRunning, Collect, workVars
<1>2. UNCHANGED <<streak, fails>> \/ (streak' = 0 /\ fails' \in Nat)
  BY DEF LoopStep, Boot, Top, Timer, Triggered, Poll, TakenWhileParked,
         BeginScan, CheckRunning, Collect, ResetFail
<1>3. QED BY <1>1, <1>2, OtherSteps

LEMMA EnvironmentBreaker ==
    ASSUME TypeOK, BreakerInv, Environment
    PROVE  BreakerInv'
<1>1. UNCHANGED <<wpc, fails>>
  BY DEF Environment, WebServerStarts, Start, TurnUpload, RequestTriggers, Pause, Ask,
         Record, workVars
<1>2. streak' = streak \/ streak' = 0
  BY DEF Environment, WebServerStarts, Start, TurnUpload, RequestTriggers, Pause, Ask,
         Record, SwitchOn
<1>3. running' => running \/ streak' = 0
  BY DEF Environment, WebServerStarts, Start, TurnUpload, RequestTriggers, Pause, Ask,
         Record, SwitchOn, SwitchOff
<1>4. fails \in Nat
  BY DEF TypeOK
<1>5. QED BY <1>1, <1>2, <1>3, <1>4, OtherSteps

LEMMA StepBreaker == TypeOK /\ BreakerInv /\ [Next]_vars => BreakerInv'
<1> SUFFICES ASSUME TypeOK, BreakerInv, [Next]_vars PROVE BreakerInv'
  OBVIOUS
<1>1. CASE UNCHANGED vars
  BY <1>1, OtherSteps DEF vars, workVars
<1>2. ASSUME NEW w \in Workers, WorkerStep(w) PROVE BreakerInv'
  <2>1. ASSUME NEW f \in Files, Discard(w, f) PROVE BreakerInv'
    BY <2>1, OtherSteps DEF Discard
  <2>2. QED
    BY <1>2, <2>1, TakeBreaker, SentBreaker, NotSentBreaker, PauseBreaker DEF WorkerStep
<1>3. QED
  BY <1>1, <1>2, LoopBreaker, EnvironmentBreaker DEF Next

\* The conjunction is inductive.
THEOREM Inductive == Spec => []IInv
<1>1. Init => IInv
  BY InitTypes, InitBreaker DEF IInv
<1>2. IInv /\ [Next]_vars => IInv'
  BY StepTypes, StepBreaker DEF IInv
<1>3. QED BY <1>1, <1>2, PTL DEF Spec

\* For any threshold and any number of workers an outage costs at most
\* Threshold - 1 failed uploads and one more per worker before uploading
\* stops, also when the breaker's count survived the restart (run.go:352).
THEOREM OutageBounded == Spec => []OutageIsBounded
<1>1. ASSUME IInv PROVE OutageIsBounded
  <2>1. streak \in Nat
    BY <1>1 DEF IInv, TypeOK
  <2>2. streak + Cardinality(Sending) <= Threshold - 1 + Cardinality(Workers)
    BY <1>1 DEF IInv, BreakerInv
  <2>3. QED
    BY <2>1, <2>2, Counts, ThresholdAssumption DEF OutageIsBounded
<1>2. QED BY <1>1, Inductive, PTL
=============================================================================
