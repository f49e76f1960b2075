--------------------------- MODULE TaskQueueProofs ---------------------------
(***************************************************************************)
(* Proofs about TaskQueue for any paths, workers, scanners and capacity.   *)
(***************************************************************************)
EXTENDS TaskQueue, FiniteSetTheorems, TLAPS

\* A goroutine that owns a mark, or is about to give it back, names a path.
Jobs ==
    /\ \A s \in Scanners : spc[s] # "idle" => sjob[s] \in Paths
    /\ \A w \in Workers : wpc[w] \in Holding \cup {"dropped"} => wjob[w] \in Paths

\* The inductive invariant: HeldOnce alone is not inductive, because a new
\* claim is exclusive only if no unmarked path is held anywhere (MarksExact).
IInv == TypeOK /\ Jobs /\ HeldOnce /\ MarksExact

-----------------------------------------------------------------------------
(* Two facts about sequences without repetition.                           *)

Injective(q) == \A i, j \in DOMAIN q : q[i] = q[j] => i = j
Elements(q) == {q[i] : i \in DOMAIN q}

\* Appending a new element to a sequence without repetition.
LEMMA AppendNew ==
    ASSUME NEW S, NEW q \in Seq(S), NEW e \in S,
           Injective(q), e \notin Elements(q)
    PROVE  /\ Append(q, e) \in Seq(S)
           /\ Len(Append(q, e)) = Len(q) + 1
           /\ Elements(Append(q, e)) = Elements(q) \cup {e}
           /\ Injective(Append(q, e))
BY DEF Injective, Elements

\* Taking the head of a sequence without repetition.
LEMMA TailOfInjective ==
    ASSUME NEW S, NEW q \in Seq(S), q # <<>>, Injective(q)
    PROVE  /\ Head(q) \in S
           /\ Tail(q) \in Seq(S)
           /\ Len(Tail(q)) = Len(q) - 1
           /\ Head(q) \in Elements(q)
           /\ Elements(Tail(q)) = Elements(q) \ {Head(q)}
           /\ Injective(Tail(q))
<1> DEFINE t == Tail(q)
<1>1. Len(q) \in Nat /\ Len(q) # 0 /\ DOMAIN q = 1..Len(q) /\ Head(q) = q[1]
  OBVIOUS
<1>2. /\ t \in Seq(S) /\ Len(t) = Len(q) - 1
      /\ DOMAIN t = 1..(Len(q) - 1) /\ \A i \in DOMAIN t : t[i] = q[i + 1]
  BY <1>1
<1>3. Injective(t)
  BY <1>1, <1>2 DEF Injective
<1>4. Elements(t) \subseteq Elements(q) \ {q[1]}
  BY <1>1, <1>2 DEF Elements, Injective
<1>5. ASSUME NEW i \in DOMAIN q, q[i] # q[1] PROVE q[i] \in Elements(t)
  <2>1. i - 1 \in DOMAIN t /\ t[i - 1] = q[i]
    BY <1>1, <1>2, <1>5
  <2>2. QED BY <2>1 DEF Elements
<1>6. QED
  BY <1>1, <1>2, <1>3, <1>4, <1>5 DEF Elements

-----------------------------------------------------------------------------
LEMMA InitIInv == Init => IInv
<1> SUFFICES ASSUME Init PROVE IInv
  OBVIOUS
<1>1. TypeOK
  <2>1. ch \in Seq(Paths) /\ Len(ch) <= Cap
    BY CapAssumption DEF Init
  <2>2. paused \in BOOLEAN /\ cancelled \in BOOLEAN
    BY Zenon DEF Init
  <2>3. QED
    BY <2>1, <2>2 DEF Init, TypeOK
<1>2. Offering = {} /\ Holders = {} /\ Buffered = {}
  BY DEF Init, Offering, Holders, Holding, Buffered
<1>3. Jobs
  BY DEF Init, Jobs, Holding
<1>4. HeldOnce /\ MarksExact
  BY <1>2 DEF Init, HeldOnce, MarksExact
<1>5. QED
  BY <1>1, <1>3, <1>4 DEF IInv

-----------------------------------------------------------------------------
(* Each action preserves IInv.                                             *)

\* A scan only reads the marks: nothing that IInv speaks of moves but todo.
LEMMA ScanStep ==
    ASSUME IInv, NEW s \in Scanners, Scan(s)
    PROVE  IInv'
<1>1. TypeOK'
  BY DEF IInv, TypeOK, Scan, queueVars, poolVars, switchVars
<1>2. Offering' = Offering /\ Holders' = Holders /\ Buffered' = Buffered
  BY DEF Scan, queueVars, poolVars, Offering, Holders, Buffered
<1>3. (Jobs /\ HeldOnce /\ MarksExact)'
  BY <1>2 DEF IInv, Jobs, HeldOnce, MarksExact, Scan, queueVars, poolVars
<1>4. QED
  BY <1>1, <1>3 DEF IInv

\* LoadOrStore: the new owner of a mark is the only one, as the path was
\* unmarked.
LEMMA EnqueueMarkStep ==
    ASSUME IInv, NEW s \in Scanners, EnqueueMark(s)
    PROVE  IInv'
<1> USE DEF IInv
<1>1. PICK p \in todo[s] :
          /\ todo' = [todo EXCEPT ![s] = @ \ {p}]
          /\ IF p \in enqueued
             THEN UNCHANGED <<enqueued, spc, sjob>>
             ELSE /\ enqueued' = enqueued \cup {p}
                  /\ spc' = [spc EXCEPT ![s] = "send"]
                  /\ sjob' = [sjob EXCEPT ![s] = p]
  BY DEF EnqueueMark
<1>2. p \in Paths
  BY DEF TypeOK
<1>3. /\ UNCHANGED <<ch, pending, poolVars, switchVars>>
      /\ spc[s] = "idle"
  BY DEF EnqueueMark
<1>4. TypeOK'
  BY <1>1, <1>2, <1>3 DEF TypeOK, poolVars, switchVars
<1>5. Holders' = Holders /\ Buffered' = Buffered /\ wjob' = wjob
  BY <1>3 DEF Holders, Buffered, poolVars
<1>6. CASE p \in enqueued
  <2>1. UNCHANGED <<enqueued, spc, sjob>>
    BY <1>1, <1>6
  <2>2. Offering' = Offering
    BY <2>1 DEF Offering
  <2>3. (Jobs /\ HeldOnce /\ MarksExact)'
    BY <2>1, <2>2, <1>3, <1>5 DEF Jobs, HeldOnce, MarksExact, poolVars
  <2>4. QED BY <1>4, <2>3
<1>7. CASE p \notin enqueued
  <2>1. /\ enqueued' = enqueued \cup {p}
        /\ spc' = [spc EXCEPT ![s] = "send"]
        /\ sjob' = [sjob EXCEPT ![s] = p]
    BY <1>1, <1>7
  <2>2. /\ Offering' = Offering \cup {s} /\ s \notin Offering
        /\ sjob'[s] = p
        /\ \A r \in Offering : sjob'[r] = sjob[r]
    BY <2>1, <1>3 DEF Offering, TypeOK
  <2>3. Jobs'
    BY <2>1, <1>2, <1>3, <1>5 DEF Jobs, TypeOK, poolVars
  <2>4. /\ p \notin Buffered
        /\ \A r \in Offering : sjob[r] # p
        /\ \A w \in Holders : wjob[w] # p
    BY <1>7 DEF MarksExact
  <2>5. HeldOnce'
    BY <2>2, <2>4, <1>3, <1>5 DEF HeldOnce
  <2>6. MarksExact'
    BY <2>1, <2>2, <1>5 DEF MarksExact
  <2>7. QED BY <1>4, <2>3, <2>5, <2>6
<1>8. QED
  BY <1>6, <1>7

\* The send moves the path from the scanner to the channel, or leaves it with
\* the scanner to be refused.
LEMMA EnqueueSendStep ==
    ASSUME IInv, NEW s \in Scanners, EnqueueSend(s)
    PROVE  IInv'
<1> USE DEF IInv
<1>1. /\ UNCHANGED <<enqueued, pending, todo, sjob, poolVars, switchVars>>
      /\ spc[s] = "send" /\ s \in Offering
      /\ sjob[s] \in Paths /\ sjob[s] \notin Buffered
  BY DEF EnqueueSend, Offering, Jobs, HeldOnce
<1>2. Holders' = Holders /\ wjob' = wjob
  BY <1>1 DEF Holders, poolVars
<1>3. CASE Len(ch) < Cap
  <2>1. ch' = Append(ch, sjob[s]) /\ spc' = [spc EXCEPT ![s] = "count"]
    BY <1>3 DEF EnqueueSend
  <2>2. /\ ch' \in Seq(Paths) /\ Len(ch') = Len(ch) + 1
        /\ Buffered' = Buffered \cup {sjob[s]}
        /\ \A i, j \in DOMAIN ch' : ch'[i] = ch'[j] => i = j
    <3>1. ch \in Seq(Paths) /\ Injective(ch) /\ sjob[s] \notin Elements(ch)
      BY <1>1 DEF TypeOK, HeldOnce, Injective, Buffered, Elements
    <3>2. QED
      BY <2>1, <3>1, <1>1, AppendNew DEF Injective, Buffered, Elements
  <2>3. Offering' = Offering \ {s}
    BY <2>1 DEF Offering, TypeOK
  <2>4. TypeOK'
    BY <2>1, <2>2, <1>1, <1>3, CapAssumption DEF TypeOK, poolVars, switchVars
  <2>5. Jobs'
    BY <2>1, <1>1, <1>2 DEF Jobs, TypeOK, poolVars
  <2>6. HeldOnce'
    BY <2>2, <2>3, <1>1, <1>2 DEF HeldOnce
  <2>7. MarksExact'
    BY <2>2, <2>3, <1>1, <1>2 DEF MarksExact
  <2>8. QED BY <2>4, <2>5, <2>6, <2>7
<1>4. CASE ~(Len(ch) < Cap)
  <2>1. ch' = ch /\ spc' = [spc EXCEPT ![s] = "refuse"]
    BY <1>4 DEF EnqueueSend
  <2>2. Offering' = Offering /\ Buffered' = Buffered
    BY <2>1, <1>1 DEF Offering, Buffered, TypeOK
  <2>3. TypeOK'
    BY <2>1, <1>1 DEF TypeOK, poolVars, switchVars
  <2>4. Jobs'
    BY <2>1, <1>1, <1>2 DEF Jobs, TypeOK, poolVars
  <2>5. (HeldOnce /\ MarksExact)'
    BY <2>1, <2>2, <1>1, <1>2 DEF HeldOnce, MarksExact
  <2>6. QED BY <2>3, <2>4, <2>5
<1>5. QED
  BY <1>3, <1>4

\* The counter plays no part in who owns what.
LEMMA EnqueueCountStep ==
    ASSUME IInv, NEW s \in Scanners, EnqueueCount(s)
    PROVE  IInv'
<1> USE DEF IInv
<1>1. /\ spc[s] = "count" /\ pending' = pending + 1
      /\ spc' = [spc EXCEPT ![s] = "idle"] /\ sjob' = [sjob EXCEPT ![s] = None]
      /\ UNCHANGED <<ch, enqueued, todo, poolVars, switchVars>>
  BY DEF EnqueueCount
<1>2. TypeOK'
  BY <1>1 DEF TypeOK, poolVars, switchVars
<1>3. /\ Offering' = Offering /\ Holders' = Holders /\ Buffered' = Buffered
      /\ \A r \in Offering : sjob'[r] = sjob[r]
  BY <1>1 DEF Offering, Holders, Buffered, TypeOK, poolVars
<1>4. Jobs'
  BY <1>1 DEF Jobs, TypeOK, poolVars
<1>5. (HeldOnce /\ MarksExact)'
  BY <1>1, <1>3 DEF HeldOnce, MarksExact, poolVars
<1>6. QED BY <1>2, <1>4, <1>5

\* Taking back the mark of a refused path frees no other owner's path.
LEMMA EnqueueRefuseStep ==
    ASSUME IInv, NEW s \in Scanners, EnqueueRefuse(s)
    PROVE  IInv'
<1> USE DEF IInv
<1>1. /\ spc[s] = "refuse" /\ enqueued' = enqueued \ {sjob[s]}
      /\ spc' = [spc EXCEPT ![s] = "idle"] /\ sjob' = [sjob EXCEPT ![s] = None]
      /\ UNCHANGED <<ch, pending, todo, poolVars, switchVars>>
  BY DEF EnqueueRefuse
<1>2. TypeOK'
  BY <1>1 DEF TypeOK, poolVars, switchVars
<1>3. /\ s \in Offering /\ Offering' = Offering \ {s}
      /\ Holders' = Holders /\ Buffered' = Buffered
      /\ \A r \in Offering \ {s} : sjob'[r] = sjob[r]
  BY <1>1 DEF Offering, Holders, Buffered, TypeOK, poolVars
<1>4. Jobs'
  BY <1>1 DEF Jobs, TypeOK, poolVars
<1>5. HeldOnce'
  BY <1>1, <1>3 DEF HeldOnce, poolVars
<1>6. MarksExact'
  <2>1. /\ sjob[s] \notin Buffered
        /\ \A r \in Offering \ {s} : sjob[r] # sjob[s]
        /\ \A w \in Holders : wjob[w] # sjob[s]
    BY <1>3 DEF HeldOnce
  <2>2. enqueued' = Buffered \cup {sjob[r] : r \in Offering \ {s}}
                             \cup {wjob[w] : w \in Holders}
    BY <1>1, <1>3, <2>1 DEF MarksExact
  <2>3. QED BY <2>2, <1>1, <1>3 DEF MarksExact, poolVars
<1>7. QED BY <1>2, <1>4, <1>5, <1>6

-----------------------------------------------------------------------------
(* The worker's actions.  Most only move the worker between two places of  *)
(* its loop at which it owns the same path, or none.                       *)

\* A step of a worker that changes neither what is marked and buffered nor
\* what this worker owns.
LEMMA WorkerMoves ==
    ASSUME IInv, NEW w \in Workers, NEW to,
           to \in {"absent", "poll", "wait", "got", "decide", "drop",
                   "dropped", "run", "done"},
           to \in Holding <=> wpc[w] \in Holding,
           to = "dropped" => wjob[w] \in Paths,
           wpc' = [wpc EXCEPT ![w] = to],
           pending' \in Int, pauses' = pauses,
           UNCHANGED <<ch, enqueued, scanVars, manager, paused, cancelled>>,
           \/ wjob' = wjob
           \/ wjob' = [wjob EXCEPT ![w] = None] /\ to \notin Holding \cup {"dropped"}
    PROVE  IInv'
<1> USE DEF IInv
<1>1. wjob' \in [Workers -> Paths \cup {None}]
  BY DEF TypeOK
<1>2. TypeOK'
  BY <1>1 DEF TypeOK, scanVars
<1>3. /\ Offering' = Offering /\ Buffered' = Buffered /\ Holders' = Holders
      /\ sjob' = sjob
      /\ \A v \in Holders : wjob'[v] = wjob[v]
  BY DEF TypeOK, Offering, Buffered, Holders, scanVars
<1>4. Jobs'
  BY DEF Jobs, TypeOK, scanVars, Holding
<1>5. (HeldOnce /\ MarksExact)'
  BY <1>3 DEF HeldOnce, MarksExact
<1>6. QED BY <1>2, <1>4, <1>5

\* The worker becomes the owner of the oldest path of the channel.
LEMMA ReceiveStep ==
    ASSUME IInv, NEW w \in Workers, Receive(w)
    PROVE  IInv'
<1> USE DEF IInv
<1>1. /\ wpc[w] = "wait" /\ wpc' = [wpc EXCEPT ![w] = "got"]
      /\ wjob' = [wjob EXCEPT ![w] = Head(ch)] /\ ch' = Tail(ch) /\ ch # <<>>
      /\ UNCHANGED <<enqueued, pending, scanVars, manager, switchVars>>
  BY DEF Receive, GoTo
<1>2. /\ Head(ch) \in Paths /\ ch' \in Seq(Paths) /\ Len(ch') = Len(ch) - 1
      /\ Head(ch) \in Buffered /\ Buffered' = Buffered \ {Head(ch)}
      /\ \A i, j \in DOMAIN ch' : ch'[i] = ch'[j] => i = j
  <2>1. ch \in Seq(Paths) /\ Injective(ch)
    BY DEF TypeOK, HeldOnce, Injective
  <2>2. Elements(ch) = Buffered /\ Elements(ch') = Buffered'
    BY DEF Elements, Buffered
  <2>3. /\ Head(ch) \in Paths /\ ch' \in Seq(Paths) /\ Len(ch') = Len(ch) - 1
        /\ Head(ch) \in Elements(ch) /\ Elements(ch') = Elements(ch) \ {Head(ch)}
        /\ Injective(ch')
    BY <2>1, <1>1, TailOfInjective
  <2>4. QED
    BY <2>2, <2>3 DEF Injective
<1>3. TypeOK'
  BY <1>1, <1>2, CapAssumption DEF TypeOK, scanVars, switchVars
<1>4. /\ w \notin Holders /\ Holders' = Holders \cup {w}
      /\ Offering' = Offering /\ sjob' = sjob
      /\ wjob'[w] = Head(ch) /\ \A v \in Holders : wjob'[v] = wjob[v]
  BY <1>1 DEF Holders, Holding, Offering, TypeOK, scanVars
<1>5. Jobs'
  BY <1>1, <1>2 DEF Jobs, TypeOK, scanVars, Holding
<1>6. HeldOnce'
  BY <1>2, <1>4 DEF HeldOnce
<1>7. MarksExact'
  BY <1>1, <1>2, <1>4 DEF MarksExact
<1>8. QED BY <1>3, <1>5, <1>6, <1>7

\* The worker stops owning its path and the mark goes with it: by Drop or by
\* Done.
LEMMA WorkerReleases ==
    ASSUME IInv, NEW w \in Workers, NEW to,
           wpc[w] \in Holding,
           \/ to = "poll" /\ wjob' = [wjob EXCEPT ![w] = None]
           \/ to = "dropped" /\ wjob' = wjob,
           wpc' = [wpc EXCEPT ![w] = to],
           enqueued' = enqueued \ {wjob[w]},
           UNCHANGED <<ch, pending, scanVars, manager, switchVars>>
    PROVE  IInv'
<1> USE DEF IInv
<1>1. w \in Holders /\ wjob[w] \in Paths
  BY DEF Holders, Jobs, Holding
<1>2. TypeOK'
  BY DEF TypeOK, scanVars, switchVars
<1>3. /\ Holders' = Holders \ {w} /\ Offering' = Offering /\ Buffered' = Buffered
      /\ sjob' = sjob /\ \A v \in Holders \ {w} : wjob'[v] = wjob[v]
  BY DEF TypeOK, Holders, Holding, Offering, Buffered, scanVars
<1>4. Jobs'
  BY <1>1 DEF Jobs, TypeOK, scanVars, Holding
<1>5. HeldOnce'
  BY <1>3 DEF HeldOnce
<1>6. MarksExact'
  <2>1. /\ wjob[w] \notin Buffered
        /\ \A s \in Offering : sjob[s] # wjob[w]
        /\ \A v \in Holders \ {w} : wjob[v] # wjob[w]
    BY <1>1 DEF HeldOnce
  <2>2. enqueued' = Buffered \cup {sjob[s] : s \in Offering}
                             \cup {wjob[v] : v \in Holders \ {w}}
    BY <1>1, <2>1 DEF MarksExact
  <2>3. QED BY <2>2, <1>3 DEF MarksExact
<1>7. QED BY <1>2, <1>4, <1>5, <1>6

LEMMA WorkerStepIInv ==
    ASSUME IInv, NEW w \in Workers, WorkerStep(w)
    PROVE  IInv'
<1> USE DEF IInv
<1>1. CASE Poll(w)
  BY <1>1, WorkerMoves DEF Poll, GoTo, TypeOK, queueVars, switchVars, Holding
<1>2. CASE Receive(w)
  BY <1>2, ReceiveStep
<1>3. CASE Leave(w)
  BY <1>3, WorkerMoves DEF Leave, GoTo, TypeOK, queueVars, switchVars, Holding
<1>4. CASE DequeueCount(w)
  <2>1. /\ wpc[w] = "got" /\ wpc' = [wpc EXCEPT ![w] = "decide"]
        /\ wjob' = wjob
        /\ pending' = pending - 1
        /\ UNCHANGED <<ch, enqueued, scanVars, manager, switchVars>>
    BY <1>4 DEF DequeueCount, GoTo
  <2>2. pending' \in Int
    BY <1>4, <2>1 DEF DequeueCount, TypeOK
  <2>3. QED
    BY <2>1, <2>2, WorkerMoves DEF switchVars, Holding
<1>5. CASE Decide(w)
  BY <1>5, WorkerMoves DEF Decide, GoTo, TypeOK, queueVars, switchVars, Holding
<1>6. CASE DropMark(w)
  <2>1. wpc[w] = "drop" /\ wpc[w] \in Holding
    BY <1>6 DEF DropMark, GoTo, Holding
  <2>2. wjob[w] \in enqueued
    BY <2>1 DEF MarksExact, Holders
  <2>3. QED
    BY <1>6, <2>1, <2>2, WorkerReleases DEF DropMark, GoTo
<1>7. CASE DropCount(w)
  <2>1. /\ wpc[w] = "dropped" /\ wpc' = [wpc EXCEPT ![w] = "poll"]
        /\ wjob' = [wjob EXCEPT ![w] = None]
        /\ pending' = pending - 1
        /\ UNCHANGED <<ch, enqueued, scanVars, manager, switchVars>>
    BY <1>7 DEF DropCount, GoTo
  <2>2. pending' \in Int
    BY <1>7, <2>1 DEF DropCount, TypeOK
  <2>3. QED
    BY <2>1, <2>2, WorkerMoves DEF switchVars, Holding
<1>8. CASE HandlerReturns(w)
  BY <1>8, WorkerMoves DEF HandlerReturns, GoTo, TypeOK, queueVars, switchVars, Holding
<1>9. CASE Done(w)
  <2>1. wpc[w] = "done" /\ wpc[w] \in Holding
    BY <1>9 DEF Done, GoTo, Holding
  <2>2. QED
    BY <1>9, <2>1, WorkerReleases DEF Done, GoTo
<1>10. QED
  BY <1>1, <1>2, <1>3, <1>4, <1>5, <1>6, <1>7, <1>8, <1>9 DEF WorkerStep

-----------------------------------------------------------------------------
\* New workers own nothing.
LEMMA EnsureStep ==
    ASSUME IInv, Ensure
    PROVE  IInv'
<1> USE DEF IInv
<1>1. PICK new \in SUBSET (Workers \ Live) :
         wpc' = [w \in Workers |-> IF w \in new THEN "poll" ELSE wpc[w]]
  BY DEF Ensure
<1>2. UNCHANGED <<queueVars, scanVars, wjob, manager, switchVars>>
  BY DEF Ensure
<1>3. TypeOK'
  BY <1>1, <1>2 DEF TypeOK, queueVars, scanVars, switchVars
<1>4. /\ Holders' = Holders /\ Offering' = Offering /\ Buffered' = Buffered
  BY <1>1, <1>2 DEF Holders, Holding, Live, Offering, Buffered, queueVars, scanVars
<1>5. Jobs'
  BY <1>1, <1>2 DEF Jobs, Holding, Live, scanVars
<1>6. (HeldOnce /\ MarksExact)'
  BY <1>2, <1>4 DEF HeldOnce, MarksExact, queueVars, scanVars
<1>7. QED BY <1>3, <1>5, <1>6

\* The manager's end and the switches touch neither queue nor workers.
LEMMA ControlStep ==
    ASSUME IInv, ManagerDrains \/ ManagerEnds \/ Pause \/ Resume \/ Shutdown
    PROVE  IInv'
<1> USE DEF IInv
<1>1. UNCHANGED <<queueVars, scanVars, wpc, wjob>>
  BY DEF ManagerDrains, ManagerEnds, Pause, Resume, Shutdown, poolVars
<1>2. TypeOK'
  <2>1. CASE ManagerDrains \/ ManagerEnds
    BY <2>1, <1>1 DEF ManagerDrains, ManagerEnds, TypeOK, queueVars, scanVars, switchVars
  <2>2. CASE Pause \/ Resume \/ Shutdown
    <3>1. /\ manager' = manager /\ pauses' \in Nat
      BY <2>2 DEF Pause, Resume, Shutdown, poolVars, TypeOK
    <3>2. paused' \in BOOLEAN /\ cancelled' \in BOOLEAN
      BY <2>2, Zenon DEF Pause, Resume, Shutdown, TypeOK
    <3>3. QED
      BY <1>1, <3>1, <3>2 DEF TypeOK, queueVars, scanVars
  <2>3. QED BY <2>1, <2>2
<1>3. /\ Holders' = Holders /\ Offering' = Offering /\ Buffered' = Buffered
  BY <1>1 DEF Holders, Offering, Buffered, queueVars, scanVars
<1>4. (Jobs /\ HeldOnce /\ MarksExact)'
  BY <1>1, <1>3 DEF Jobs, HeldOnce, MarksExact, queueVars, scanVars
<1>5. QED BY <1>2, <1>4

LEMMA StepIInv == IInv /\ [Next]_vars => IInv'
<1> SUFFICES ASSUME IInv, [Next]_vars PROVE IInv'
  OBVIOUS
<1>1. ASSUME NEW s \in Scanners, Scan(s) PROVE IInv'
  BY <1>1, ScanStep
<1>2. ASSUME NEW s \in Scanners, ScannerStep(s) PROVE IInv'
  BY <1>2, EnqueueMarkStep, EnqueueSendStep, EnqueueCountStep, EnqueueRefuseStep
     DEF ScannerStep
<1>3. ASSUME NEW w \in Workers, WorkerStep(w) PROVE IInv'
  BY <1>3, WorkerStepIInv
<1>4. CASE Ensure
  BY <1>4, EnsureStep
<1>5. CASE ManagerDrains \/ ManagerEnds \/ Pause \/ Resume \/ Shutdown
  BY <1>5, ControlStep
<1>6. CASE UNCHANGED vars
  <2>1. Holders' = Holders /\ Offering' = Offering /\ Buffered' = Buffered
    BY <1>6 DEF vars, queueVars, scanVars, poolVars, Holders, Offering, Buffered
  <2>2. QED
    BY <1>6, <2>1 DEF vars, queueVars, scanVars, poolVars, switchVars, IInv,
       TypeOK, Jobs, HeldOnce, MarksExact
<1>7. QED
  BY <1>1, <1>2, <1>3, <1>4, <1>5, <1>6 DEF Next

\* IInv holds in every reachable state.
THEOREM Inductive == Spec => []IInv
BY InitIInv, StepIInv, PTL DEF Spec

\* Type correctness, for any number of paths, scanners and workers.
THEOREM TypeCorrect == Spec => []TypeOK
<1>1. IInv => TypeOK
  BY DEF IInv
<1>2. QED BY <1>1, Inductive, PTL

\* No file is ever in two places of the upload queue, nor with two workers:
\* the de-duplication of queue.go is sound for every interleaving.
THEOREM Exclusive == Spec => []HeldOnce
<1>1. IInv => HeldOnce
  BY DEF IInv
<1>2. QED BY <1>1, Inductive, PTL

\* No mark outlives its owner and no owner is without its mark.
THEOREM MarksAreExact == Spec => []MarksExact
<1>1. IInv => MarksExact
  BY DEF IInv
<1>2. QED BY <1>1, Inductive, PTL

-----------------------------------------------------------------------------
(* The counter of waiting uploads.                                         *)

Got == {w \in Workers : wpc[w] = "got"}
Counting == {s \in Scanners : spc[s] = "count"}

\* Those who are between a step on the channel and the count of it.
LEMMA UnderWay ==
    ASSUME TypeOK
    PROVE  /\ IsFiniteSet(Got) /\ Cardinality(Got) \in Nat
           /\ IsFiniteSet(Counting) /\ Cardinality(Counting) \in Nat
<1>1. IsFiniteSet(Got) /\ IsFiniteSet(Counting)
  BY FiniteAssumption, FS_Subset DEF FiniteAssumption, Got, Counting
<1> QED
  BY <1>1, FS_CardinalityType

\* Enqueue counts a path after its send and Dequeue uncounts it after the
\* receive; but for those, the counter is at most what the channel holds.
NeverOver == pending <= Len(ch) + Cardinality(Got) - Cardinality(Counting)

\* The steps of a scanner: its send and its count are apart from each other.
LEMMA ScannerCounts ==
    ASSUME TypeOK, NeverOver, NEW s \in Scanners, Scan(s) \/ ScannerStep(s)
    PROVE  NeverOver'
<1>1. Got' = Got
  BY DEF Scan, ScannerStep, EnqueueMark, EnqueueSend, EnqueueCount, EnqueueRefuse,
         poolVars, Got
<1>2. CASE Scan(s)
  BY <1>2 DEF Scan, queueVars, poolVars, NeverOver, Got, Counting
<1>3. ASSUME NEW u \in {"idle", "send", "count", "refuse"},
             spc' = [spc EXCEPT ![s] = u]
      PROVE  /\ spc[s] # "count" /\ u = "count" =>
                    Cardinality(Counting)' = Cardinality(Counting) + 1
             /\ spc[s] = "count" /\ u # "count" =>
                    Cardinality(Counting)' = Cardinality(Counting) - 1
             /\ spc[s] # "count" /\ u # "count" => Counting' = Counting
  <2>1. CASE spc[s] # "count" /\ u = "count"
    <3>1. Counting' = Counting \cup {s} /\ s \notin Counting
      BY <1>3, <2>1 DEF TypeOK, Counting
    <3> QED
      BY <2>1, <3>1, UnderWay, FS_AddElement
  <2>2. CASE spc[s] = "count" /\ u # "count"
    <3>1. Counting' = Counting \ {s} /\ s \in Counting
      BY <1>3, <2>2 DEF TypeOK, Counting
    <3> QED
      BY <2>2, <3>1, UnderWay, FS_RemoveElement
  <2>3. CASE spc[s] # "count" /\ u # "count"
    BY <1>3, <2>3 DEF TypeOK, Counting
  <2> QED
    BY <2>1, <2>2, <2>3
<1>4. CASE EnqueueMark(s)
  <2>1. UNCHANGED <<ch, pending>> /\ spc[s] = "idle"
        /\ (spc' = spc \/ spc' = [spc EXCEPT ![s] = "send"])
    BY <1>4 DEF EnqueueMark
  <2>2. Counting' = Counting
    BY <1>3, <2>1 DEF Counting
  <2> QED
    BY <1>1, <2>1, <2>2 DEF NeverOver
<1>5. CASE EnqueueSend(s)
  <2>1. CASE Len(ch) < Cap
    <3>1. /\ ch' = Append(ch, sjob[s]) /\ UNCHANGED pending
          /\ spc[s] = "send" /\ spc' = [spc EXCEPT ![s] = "count"]
      BY <1>5, <2>1 DEF EnqueueSend
    <3>2. Cardinality(Counting)' = Cardinality(Counting) + 1
      BY <1>3, <3>1
    <3>3. Len(ch)' = Len(ch) + 1 /\ Len(ch) \in Nat
      BY <3>1 DEF TypeOK
    <3> QED
      BY <1>1, <3>1, <3>2, <3>3, UnderWay DEF NeverOver, TypeOK
  <2>2. CASE ~(Len(ch) < Cap)
    <3>1. /\ UNCHANGED <<ch, pending>>
          /\ spc[s] = "send" /\ spc' = [spc EXCEPT ![s] = "refuse"]
      BY <1>5, <2>2 DEF EnqueueSend
    <3>2. Counting' = Counting
      BY <1>3, <3>1
    <3> QED
      BY <1>1, <3>1, <3>2 DEF NeverOver
  <2> QED
    BY <2>1, <2>2
<1>6. CASE EnqueueCount(s)
  <2>1. /\ pending' = pending + 1 /\ UNCHANGED ch
        /\ spc[s] = "count" /\ spc' = [spc EXCEPT ![s] = "idle"]
    BY <1>6 DEF EnqueueCount
  <2>2. Cardinality(Counting)' = Cardinality(Counting) - 1
    BY <1>3, <2>1
  <2>3. Len(ch) \in Nat
    BY DEF TypeOK
  <2> QED
    BY <1>1, <2>1, <2>2, <2>3, UnderWay DEF NeverOver, TypeOK
<1>7. CASE EnqueueRefuse(s)
  <2>1. /\ UNCHANGED <<ch, pending>>
        /\ spc[s] = "refuse" /\ spc' = [spc EXCEPT ![s] = "idle"]
    BY <1>7 DEF EnqueueRefuse
  <2>2. Counting' = Counting
    BY <1>3, <2>1
  <2> QED
    BY <1>1, <2>1, <2>2 DEF NeverOver
<1> QED
  BY <1>2, <1>4, <1>5, <1>6, <1>7 DEF ScannerStep

\* The steps of a worker: it takes from the channel first and counts then, and
\* for what it drops it lowers the counter a second time.
LEMMA WorkerCounts ==
    ASSUME TypeOK, NeverOver, NEW w \in Workers, WorkerStep(w)
    PROVE  NeverOver'
<1> DEFINE Places == {"absent", "poll", "wait", "got", "decide", "drop",
                      "dropped", "run", "done"}
<1>1. Counting' = Counting
  BY DEF WorkerStep, Poll, Receive, Leave, DequeueCount, Decide, DropMark,
         DropCount, HandlerReturns, Done, scanVars, Counting
<1>2. ASSUME NEW u \in Places, wpc' = [wpc EXCEPT ![w] = u]
      PROVE  /\ wpc[w] # "got" /\ u = "got" =>
                    Cardinality(Got)' = Cardinality(Got) + 1
             /\ wpc[w] = "got" /\ u # "got" =>
                    Cardinality(Got)' = Cardinality(Got) - 1
             /\ wpc[w] # "got" /\ u # "got" => Got' = Got
  <2>1. CASE wpc[w] # "got" /\ u = "got"
    <3>1. Got' = Got \cup {w} /\ w \notin Got
      BY <1>2, <2>1 DEF TypeOK, Got
    <3> QED
      BY <2>1, <3>1, UnderWay, FS_AddElement
  <2>2. CASE wpc[w] = "got" /\ u # "got"
    <3>1. Got' = Got \ {w} /\ w \in Got
      BY <1>2, <2>2 DEF TypeOK, Got
    <3> QED
      BY <2>2, <3>1, UnderWay, FS_RemoveElement
  <2>3. CASE wpc[w] # "got" /\ u # "got"
    BY <1>2, <2>3 DEF TypeOK, Got
  <2> QED
    BY <2>1, <2>2, <2>3
<1>3. CASE Receive(w)
  <2>1. /\ wpc[w] = "wait" /\ wpc' = [wpc EXCEPT ![w] = "got"]
        /\ ch # <<>> /\ ch' = Tail(ch) /\ UNCHANGED pending
    BY <1>3 DEF Receive, GoTo
  <2>2. Cardinality(Got)' = Cardinality(Got) + 1
    BY <1>2, <2>1
  <2>3. Len(ch)' = Len(ch) - 1 /\ Len(ch) \in Nat
    BY <2>1 DEF TypeOK
  <2> QED
    BY <1>1, <2>1, <2>2, <2>3, UnderWay DEF NeverOver, TypeOK
<1>4. CASE DequeueCount(w)
  <2>1. /\ wpc[w] = "got" /\ wpc' = [wpc EXCEPT ![w] = "decide"]
        /\ pending' = pending - 1 /\ UNCHANGED ch
    BY <1>4 DEF DequeueCount, GoTo
  <2>2. Cardinality(Got)' = Cardinality(Got) - 1
    BY <1>2, <2>1
  <2>3. Len(ch) \in Nat
    BY DEF TypeOK
  <2> QED
    BY <1>1, <2>1, <2>2, <2>3, UnderWay DEF NeverOver, TypeOK
<1>5. CASE DropCount(w)
  <2>1. /\ wpc[w] = "dropped" /\ wpc' = [wpc EXCEPT ![w] = "poll"]
        /\ pending' = pending - 1 /\ UNCHANGED ch
    BY <1>5 DEF DropCount, GoTo
  <2>2. Got' = Got
    BY <1>2, <2>1
  <2>3. Len(ch) \in Nat
    BY DEF TypeOK
  <2> QED
    BY <1>1, <2>1, <2>2, <2>3, UnderWay DEF NeverOver, TypeOK
<1>6. CASE \/ Poll(w) \/ Leave(w) \/ Decide(w) \/ DropMark(w)
           \/ HandlerReturns(w) \/ Done(w)
  <2>1. UNCHANGED <<ch, pending>>
    BY <1>6 DEF Poll, Leave, Decide, DropMark, HandlerReturns, Done, queueVars
  <2>2. PICK u \in Places \ {"got"} : wpc' = [wpc EXCEPT ![w] = u] /\ wpc[w] # "got"
    BY <1>6 DEF Poll, Leave, Decide, DropMark, HandlerReturns, Done, GoTo
  <2>3. Got' = Got
    BY <1>2, <2>2
  <2> QED
    BY <1>1, <2>1, <2>3 DEF NeverOver
<1> QED
  BY <1>3, <1>4, <1>5, <1>6 DEF WorkerStep

\* For any finite number of goroutines and in every state, Pending never shows
\* more than is waiting: it is at most the length of the channel but for the
\* operations under way (queue.go:29-70).  That it may show less, and for ever,
\* is the finding about Drop.
THEOREM NeverOverstates == Spec => []NeverOver
<1>1. Init => NeverOver
  <2> SUFFICES ASSUME Init PROVE NeverOver
    OBVIOUS
  <2>1. Got = {} /\ Counting = {}
    BY DEF Init, Got, Counting
  <2> QED
    BY <2>1, FS_EmptySet DEF Init, NeverOver
<1>2. IInv /\ NeverOver /\ [Next]_vars => NeverOver'
  <2> SUFFICES ASSUME TypeOK, NeverOver, [Next]_vars PROVE NeverOver'
    BY DEF IInv
  <2>1. CASE Ensure
    <3>1. UNCHANGED <<ch, pending>> /\ Counting' = Counting
      BY <2>1 DEF Ensure, queueVars, scanVars, Counting
    <3>2. Got' = Got
      BY <2>1 DEF Ensure, Got, Live
    <3> QED
      BY <3>1, <3>2 DEF NeverOver
  <2>2. CASE \/ ManagerDrains \/ ManagerEnds \/ Pause \/ Resume \/ Shutdown
             \/ UNCHANGED vars
    BY <2>2 DEF ManagerDrains, ManagerEnds, Pause, Resume, Shutdown, vars,
                queueVars, scanVars, poolVars, NeverOver, Got, Counting
  <2> QED
    BY <2>1, <2>2, ScannerCounts, WorkerCounts DEF Next
<1> QED
  BY <1>1, <1>2, Inductive, PTL DEF Spec

-----------------------------------------------------------------------------
(* TaskQueue implements ClaimTable.                                        *)

Running == {<<w, wjob[w]>> : w \in InHandler}

\* Under IInv a handled path is marked, and a path owned outside the handler
\* is not handled by anybody.
LEMMA HandledPaths ==
    ASSUME IInv
    PROVE  /\ InHandler \subseteq Holders
           /\ \A w \in InHandler : wjob[w] \in Paths /\ wjob[w] \in enqueued
           /\ \A w \in InHandler, v \in Holders : wjob[v] = wjob[w] => v = w
           /\ \A w \in InHandler, s \in Offering : sjob[s] # wjob[w]
<1>1. InHandler \subseteq Holders
  BY DEF InHandler, Holders, Handling, Holding
<1>2. QED
  BY <1>1 DEF IInv, Jobs, MarksExact, HeldOnce, Holders

\* A step that leaves the marks and the workers in the handler alone.
LEMMA Stutters ==
    ASSUME enqueued' = enqueued, InHandler' = InHandler,
           \A w \in InHandler : wjob'[w] = wjob[w]
    PROVE  UNCHANGED Claims!ctVars
<1>1. Running' = Running
  BY DEF Running
<1>2. QED BY <1>1 DEF Claims!ctVars, Running

\* EnqueueMark claims the path, or does nothing.
LEMMA MarkClaims ==
    ASSUME IInv, NEW s \in Scanners, EnqueueMark(s)
    PROVE  [Claims!Next]_(Claims!ctVars)
<1>1. PICK p \in todo[s] :
          IF p \in enqueued THEN UNCHANGED <<enqueued, spc, sjob>>
                            ELSE enqueued' = enqueued \cup {p}
  BY DEF EnqueueMark
<1>2. p \in Paths
  BY DEF IInv, TypeOK
<1>3. InHandler' = InHandler /\ wjob' = wjob
  BY DEF EnqueueMark, poolVars, InHandler
<1>4. CASE p \in enqueued
  BY <1>1, <1>3, <1>4, Stutters
<1>5. CASE p \notin enqueued
  <2>1. Claims!Claim(p)
    BY <1>1, <1>3, <1>5 DEF Claims!Claim
  <2>2. QED BY <2>1, <1>2 DEF Claims!Next
<1>6. QED BY <1>4, <1>5

\* EnqueueRefuse abandons the claim.
LEMMA RefuseAbandons ==
    ASSUME IInv, NEW s \in Scanners, EnqueueRefuse(s)
    PROVE  Claims!Next
<1>1. /\ s \in Offering /\ sjob[s] \in Paths /\ sjob[s] \in enqueued
      /\ enqueued' = enqueued \ {sjob[s]}
  BY DEF EnqueueRefuse, IInv, Jobs, MarksExact, Offering
<1>2. InHandler' = InHandler /\ wjob' = wjob
  BY DEF EnqueueRefuse, poolVars, InHandler
<1>3. \A w \in Workers : <<w, sjob[s]>> \notin Running
  BY <1>1, HandledPaths DEF Running
<1>4. Claims!Abandon(sjob[s])
  BY <1>1, <1>2, <1>3 DEF Claims!Abandon, Claims!Busy, Running
<1>5. QED BY <1>1, <1>4 DEF Claims!Next

\* A worker that decides to run the handler starts; one that drops abandons.
LEMMA DecideStarts ==
    ASSUME IInv, NEW w \in Workers, Decide(w)
    PROVE  [Claims!Next]_(Claims!ctVars)
<1>1. /\ wpc[w] = "decide" /\ w \in Holders /\ w \notin InHandler
      /\ enqueued' = enqueued /\ wjob' = wjob
      /\ wpc' = [wpc EXCEPT ![w] = IF paused THEN "drop" ELSE "run"]
  BY DEF Decide, GoTo, Holders, Holding, InHandler, Handling, queueVars
<1>2. wjob[w] \in Paths /\ wjob[w] \in enqueued
  BY <1>1 DEF IInv, Jobs, MarksExact, Holders, Holding
<1>3. CASE paused
  <2>1. InHandler' = InHandler
    BY <1>1, <1>3 DEF InHandler, Handling, IInv, TypeOK
  <2>2. QED BY <2>1, <1>1, Stutters
<1>4. CASE ~paused
  <2>1. InHandler' = InHandler \cup {w}
    BY <1>1, <1>4 DEF InHandler, Handling, IInv, TypeOK
  <2>2. PICK p \in Paths : p = wjob[w]
    BY <1>2
  <2>3. Running' = Running \cup {<<w, p>>}
    BY <1>1, <2>1, <2>2 DEF Running
  <2>4. \A v \in Workers : <<v, p>> \notin Running
    BY <1>1, <2>2, HandledPaths DEF Running
  <2>5. \A q \in Paths : <<w, q>> \notin Running
    BY <1>1 DEF Running
  <2>6. Claims!Start(w, p)
    BY <1>1, <1>2, <2>2, <2>3, <2>4, <2>5
       DEF Claims!Start, Claims!Busy, Claims!Engaged, Running
  <2>7. QED BY <2>6 DEF Claims!Next
<1>5. QED BY <1>3, <1>4

LEMMA DropAbandons ==
    ASSUME IInv, NEW w \in Workers, DropMark(w)
    PROVE  Claims!Next
<1>1. /\ wpc[w] = "drop" /\ w \in Holders /\ w \notin InHandler
      /\ enqueued' = enqueued \ {wjob[w]}
  BY DEF DropMark, GoTo, Holders, Holding, InHandler, Handling
<1>2. wjob[w] \in Paths /\ wjob[w] \in enqueued
  BY <1>1 DEF IInv, Jobs, MarksExact, Holders, Holding
<1>3. wjob' = wjob /\ wpc' = [wpc EXCEPT ![w] = "dropped"]
  BY <1>2 DEF DropMark, GoTo
<1>4. InHandler' = InHandler
  BY <1>1, <1>3 DEF InHandler, Handling, IInv, TypeOK
<1>5. \A v \in Workers : <<v, wjob[w]>> \notin Running
  BY <1>1, HandledPaths DEF Running
<1>6. Claims!Abandon(wjob[w])
  BY <1>1, <1>2, <1>3, <1>4, <1>5 DEF Claims!Abandon, Claims!Busy, Running
<1>7. QED BY <1>2, <1>6 DEF Claims!Next

\* Done ends the work and the claim together.
LEMMA DoneFinishes ==
    ASSUME IInv, NEW w \in Workers, Done(w)
    PROVE  Claims!Next
<1>1. /\ wpc[w] = "done" /\ w \in InHandler
      /\ enqueued' = enqueued \ {wjob[w]}
      /\ wpc' = [wpc EXCEPT ![w] = "poll"]
      /\ wjob' = [wjob EXCEPT ![w] = None]
  BY DEF Done, GoTo, InHandler, Handling
<1>2. PICK p \in Paths : p = wjob[w]
  BY <1>1, HandledPaths
<1>3. /\ InHandler' = InHandler \ {w}
      /\ \A v \in InHandler \ {w} : wjob'[v] = wjob[v]
  BY <1>1 DEF InHandler, Handling, IInv, TypeOK
<1>4. Running' = Running \ {<<w, p>>}
  BY <1>1, <1>2, <1>3 DEF Running
<1>5. Claims!Finish(w, p)
  BY <1>1, <1>2, <1>4 DEF Claims!Finish, Running
<1>6. QED BY <1>5 DEF Claims!Next

LEMMA StepRefines == IInv /\ [Next]_vars => [Claims!Next]_(Claims!ctVars)
<1> SUFFICES ASSUME IInv, [Next]_vars PROVE [Claims!Next]_(Claims!ctVars)
  OBVIOUS
<1>1. ASSUME NEW s \in Scanners, Scan(s) \/ EnqueueSend(s) \/ EnqueueCount(s)
      PROVE UNCHANGED Claims!ctVars
  <2>1. UNCHANGED <<enqueued, wpc, wjob>>
    BY <1>1 DEF Scan, EnqueueSend, EnqueueCount, queueVars, poolVars
  <2>2. QED BY <2>1, Stutters DEF InHandler
<1>2. ASSUME NEW s \in Scanners, EnqueueMark(s) \/ EnqueueRefuse(s)
      PROVE [Claims!Next]_(Claims!ctVars)
  BY <1>2, MarkClaims, RefuseAbandons
<1>3. ASSUME NEW w \in Workers, Decide(w) \/ DropMark(w) \/ Done(w)
      PROVE [Claims!Next]_(Claims!ctVars)
  BY <1>3, DecideStarts, DropAbandons, DoneFinishes
<1>4. ASSUME NEW w \in Workers,
             \/ Poll(w) \/ Receive(w) \/ Leave(w) \/ DequeueCount(w)
             \/ DropCount(w) \/ HandlerReturns(w)
      PROVE UNCHANGED Claims!ctVars
  <2>1. /\ enqueued' = enqueued
        /\ InHandler' = InHandler
        /\ \A v \in InHandler : wjob'[v] = wjob[v]
    BY <1>4 DEF Poll, Receive, Leave, DequeueCount, DropCount, HandlerReturns,
       GoTo, InHandler, Handling, queueVars, IInv, TypeOK
  <2>2. QED BY <2>1, Stutters
<1>5. ASSUME Ensure PROVE UNCHANGED Claims!ctVars
  <2>1. PICK new \in SUBSET (Workers \ Live) :
           wpc' = [w \in Workers |-> IF w \in new THEN "poll" ELSE wpc[w]]
    BY <1>5 DEF Ensure
  <2>2. enqueued' = enqueued /\ wjob' = wjob /\ InHandler' = InHandler
    BY <1>5, <2>1 DEF Ensure, queueVars, InHandler, Handling, Live
  <2>3. QED BY <2>2, Stutters
<1>6. ASSUME \/ ManagerDrains \/ ManagerEnds \/ Pause \/ Resume \/ Shutdown
             \/ UNCHANGED vars
      PROVE UNCHANGED Claims!ctVars
  <2>1. UNCHANGED <<enqueued, wpc, wjob>>
    BY <1>6 DEF ManagerDrains, ManagerEnds, Pause, Resume, Shutdown, vars,
       queueVars, poolVars
  <2>2. QED BY <2>1, Stutters DEF InHandler
<1>7. QED
  BY <1>1, <1>2, <1>3, <1>4, <1>5, <1>6 DEF Next, ScannerStep, WorkerStep

\* The queue and its workers implement the claim table: every behaviour of
\* theirs, seen through the marks and the running handlers, is one of it.
THEOREM Refinement == Spec => ImplementsClaimTable
<1>1. Init => Claims!Init
  BY DEF Init, Claims!Init, InHandler, Handling
<1>2. QED
  BY <1>1, StepRefines, Inductive, PTL DEF Spec, Claims!Spec, ImplementsClaimTable
=============================================================================
