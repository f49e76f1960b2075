--------------------------- MODULE StorageProofs ----------------------------
(***************************************************************************)
(* Proofs about what is kept: the records on the disk and their move to    *)
(* the new files, the settings, the executable, and the counts of the      *)
(* reports by mail.                                                        *)
(***************************************************************************)
EXTENDS Records, ConfigStore, SelfUpdate, Reports, FunctionTheorems,
        FiniteSetTheorems, SequenceTheorems, TLAPS

-----------------------------------------------------------------------------
(* Records.                                                                *)

RecordsSpec == RecordsInit /\ [][RecordsNext]_recordVars

SaverState == [at : {"tick", "flush", "write", "ended"}, snap : Seq(Uploads)]

\* Every store has its list, its mark, its saver and its files.
StoresAreWhole ==
    /\ memory \in [Stores -> Seq(Uploads)] /\ dirty \in [Stores -> BOOLEAN]
    /\ saver \in [Stores -> SaverState] /\ stoppable \in [Stores -> BOOLEAN]
    /\ oldFile \in [Stores -> {None, SetToSeq(Earlier)}]
    /\ newFile \in [Stores -> {None, Broken} \cup Seq(Uploads)]
    /\ failed \in [Stores -> BOOLEAN]

\* The success log, wherever it is, holds no more than the ring keeps.
LogIsBounded ==
    /\ Len(memory["success"]) <= MostKept
    /\ Len(saver["success"].snap) <= MostKept
    /\ Whole(newFile["success"]) => Len(newFile["success"]) <= MostKept

\* An upload is between its record and the mark of the store.
Marking(s) == \E u \in Uploads :
    upload[u] = (IF s = "success" THEN "mark" ELSE "countMark")

\* What came after the snapshot of a saver is marked, or is about to be.
MarkSurvives ==
    Alive => \A s \in Stores : saver[s].at = "write" =>
        saver[s].snap = memory[s] \/ dirty[s] \/ Marking(s)

\* Once the old file is gone, the new one, the list in memory and the snapshot
\* about to be written have the earlier records.
MovedIsKept ==
    \A s \in Stores :
        \/ oldFile[s] = SetToSeq(Earlier)
        \/ /\ Whole(newFile[s]) /\ KeepsEarlier(s, newFile[s])
           /\ Alive => /\ KeepsEarlier(s, memory[s])
                       /\ saver[s].at = "write" => KeepsEarlier(s, saver[s].snap)

StoresAreTyped ==
    /\ process \in {"off", "moving", "loading", "up", "stopping"}
    /\ starts \in 0..MaxStarts /\ upload \in [Uploads -> UploadStages]
    /\ StoresAreWhole /\ LogIsBounded
    => RecordsTypeOK

RecordsInvariant ==
    /\ RecordsTypeOK /\ StoresAreWhole /\ LogIsBounded
    /\ UnsavedIsMarked /\ MarkSurvives /\ MovedIsKept

\* A list of records is a file that is there and parses.
LEMMA ListsAreWhole == \A f \in Seq(Uploads) : Whole(f)
<1> SUFFICES ASSUME NEW f \in Seq(Uploads), f \in {None, Broken} PROVE FALSE
  BY DEF Whole
<1>1. Len(f) = 1 /\ f[1] \in {"none", "broken"}
  BY DEF None, Broken
<1>2. f[1] \in Uploads
  BY <1>1, ElementOfSeq
<1> QED
  BY <1>1, <1>2, RecordsAssumption DEF RecordsAssumption

\* The file of the older version lists its records, each once.
LEMMA EarlierListed ==
    /\ SetToSeq(Earlier) \in Seq(Uploads) /\ ToSet(SetToSeq(Earlier)) = Earlier
    /\ Len(SetToSeq(Earlier)) = Cardinality(Earlier)
    /\ Cardinality(Earlier) \in Nat
<1> DEFINE n == Cardinality(Earlier)
           q == SetToSeq(Earlier)
<1> HIDE DEF n, q
<1>1. IsFiniteSet(Earlier)
  BY RecordsAssumption, FS_Subset DEF RecordsAssumption
<1>2. n \in Nat /\ ExistsBijection(1..n, Earlier)
  BY <1>1, FS_CardinalityType DEF n
<1>3. PICK b : b \in Bijection(1..n, Earlier)
  BY <1>2 DEF ExistsBijection
<1>4. b \in [1..n -> Earlier] /\ IsInjective(b)
  BY <1>3 DEF Bijection, Injection
<1>5. q \in [1..n -> Earlier] /\ IsInjective(q)
  BY <1>4 DEF SetToSeq, n, q
<1>6. q \in Injection(1..n, Earlier)
  BY <1>5 DEF Injection
<1>7. Cardinality(1..n) = n
  BY <1>2, FS_Interval
<1>8. q \in Surjection(1..n, Earlier)
  BY <1>1, <1>6, <1>7, FS_Injection DEF n
<1>9. \A x \in Earlier : \E i \in 1..n : q[i] = x
  BY <1>8 DEF Surjection
<1>10. q \in Seq(Earlier) /\ Len(q) = n /\ DOMAIN q = 1..n
  BY <1>2, <1>5
<1>11. q \in Seq(Uploads)
  BY <1>10, RecordsAssumption, SeqMonotonic DEF RecordsAssumption
<1>12. ToSet(q) = Earlier
  BY <1>5, <1>9, <1>10 DEF ToSet
<1> QED
  BY <1>2, <1>10, <1>11, <1>12 DEF q, n

\* What a ring of Cap records is after one more: a list, full if it dropped any.
LEMMA YoungestOfAppend ==
    ASSUME NEW f \in Seq(Uploads), NEW u \in Uploads
    PROVE  LET g == Youngest(Append(f, u), Cap)
           IN  /\ g \in Seq(Uploads) /\ Len(g) <= Cap
               /\ g = Append(f, u) \/ Len(g) = Cap
<1> DEFINE a == Append(f, u)
           m == Len(a) - Cap + 1
<1>1. /\ a \in Seq(Uploads) /\ Len(a) \in Nat /\ Len(a) = Len(f) + 1
      /\ Cap \in Nat \ {0}
  BY AppendProperties, RecordsAssumption DEF RecordsAssumption
<1>2. CASE Len(a) > Cap
  <2>1. m \in Int /\ m \in 1..Len(a) /\ Len(a) - m + 1 = Cap /\ m <= Len(a)
    BY <1>1, <1>2
  <2>2. \A i \in m..Len(a) : a[i] \in Uploads
    BY <1>1, <2>1, ElementOfSeq
  <2>3. SubSeq(a, m, Len(a)) \in Seq(Uploads) /\ Len(SubSeq(a, m, Len(a))) = Cap
    <3> HIDE DEF m, a
    <3> QED
      BY <1>1, <2>1, <2>2, SubSeqProperties
  <2> QED
    BY <1>1, <1>2, <2>3 DEF Youngest
<1>3. CASE ~(Len(a) > Cap)
  BY <1>1, <1>3 DEF Youngest
<1> QED
  BY <1>2, <1>3

\* No record of the older version is dropped by a list that grows, or by a ring
\* that is not full after it.
LEMMA KeptWhenGrowing ==
    ASSUME NEW f \in Seq(Uploads), NEW u \in Uploads, NEW s \in Stores,
           KeepsEarlier(s, f)
    PROVE  /\ KeepsEarlier(s, Append(f, u))
           /\ s = "success" => KeepsEarlier(s, Youngest(Append(f, u), Cap))
<1>1. /\ Append(f, u) \in Seq(Uploads) /\ Len(Append(f, u)) = Len(f) + 1
      /\ \A i \in 1..Len(f) : Append(f, u)[i] = f[i]
      /\ Len(f) \in Nat /\ DOMAIN f = 1..Len(f)
      /\ DOMAIN Append(f, u) = 1..Len(f) + 1
  BY AppendProperties, LenProperties
<1>2. ToSet(f) \subseteq ToSet(Append(f, u))
  BY <1>1 DEF ToSet
<1>3. KeepsEarlier(s, Append(f, u))
  BY <1>1, <1>2, RecordsAssumption DEF KeepsEarlier, RecordsAssumption
<1>4. Cap \in Nat
  BY RecordsAssumption DEF RecordsAssumption
<1> QED
  BY <1>3, <1>4, YoungestOfAppend DEF KeepsEarlier

\* The first start finds the files of the older version at the old place.
LEMMA RecordsInitially == RecordsInit => RecordsInvariant
<1> SUFFICES ASSUME RecordsInit PROVE RecordsInvariant
  OBVIOUS
<1>1. /\ <<>> \in Seq(Uploads) /\ Len(<<>>) = 0 /\ 0 <= MostKept
      /\ 0 \in 0..MaxStarts /\ None \in {None}
  BY RecordsAssumption, EarlierListed DEF RecordsAssumption, MostKept
<1>2. SaverRests \in SaverState /\ SaverRests.at = "tick" /\ SaverRests.snap = <<>>
  BY <1>1 DEF SaverRests, SaverState
<1>3. ~Whole(None)
  BY DEF Whole
<1>4. StoresAreWhole
  BY <1>1, <1>2 DEF RecordsInit, StoresAreWhole
<1>5. LogIsBounded
  BY <1>1, <1>2, <1>3 DEF RecordsInit, LogIsBounded, Stores
<1>6. UnsavedIsMarked /\ MarkSurvives /\ MovedIsKept
  BY DEF RecordsInit, UnsavedIsMarked, MarkSurvives, MovedIsKept, Alive
<1>7. upload \in [Uploads -> UploadStages]
  BY DEF RecordsInit, UploadStages
<1>8. RecordsTypeOK
  BY <1>1, <1>2, <1>4, <1>5, <1>7, EarlierListed
  DEF RecordsInit, RecordsTypeOK, StoresAreWhole, LogIsBounded, SaverState
<1> QED
  BY <1>4, <1>5, <1>6, <1>8 DEF RecordsInvariant

\* The type of the records follows from the types of the stores.
LEMMA RecordsTyped == StoresAreTyped
BY EarlierListed
DEF StoresAreTyped, RecordsTypeOK, StoresAreWhole, LogIsBounded, SaverState

\* Moving the files and starting over touch neither list nor mark.
LEMMA MovingPreserves ==
    ASSUME RecordsInvariant, NEW s \in Stores, Rename(s) \/ Copy(s)
    PROVE  RecordsInvariant'
<1>1. /\ StoresAreWhole /\ LogIsBounded /\ MovedIsKept /\ RecordsTypeOK
  BY DEF RecordsInvariant
<1>2. /\ Movable(s) /\ oldFile[s] # None /\ process = "moving"
      /\ UNCHANGED <<process, starts, upload, memoryVars>>
  BY DEF Rename, Copy, Movable
<1>3. oldFile[s] = SetToSeq(Earlier) /\ oldFile[s] \in Seq(Uploads)
  BY <1>1, <1>2, EarlierListed DEF StoresAreWhole
<1>4. /\ Whole(oldFile[s]) /\ KeepsEarlier(s, oldFile[s])
      /\ Len(oldFile[s]) <= MostKept /\ ~Whole(Broken)
  BY <1>3, EarlierListed, ListsAreWhole, RecordsAssumption
  DEF KeepsEarlier, MostKept, Whole, RecordsAssumption
<1>5. \/ newFile' = [newFile EXCEPT ![s] = oldFile[s]]
      \/ newFile' = [newFile EXCEPT ![s] = Broken] /\ oldFile' = oldFile
  BY DEF Rename, Copy
<1>6. /\ \/ oldFile' = oldFile
         \/ oldFile' = [oldFile EXCEPT ![s] = None]
      /\ failed' = failed \/ failed' = [failed EXCEPT ![s] = TRUE]
  BY DEF Rename, Copy
<1>7. StoresAreWhole'
  BY <1>1, <1>2, <1>3, <1>5, <1>6 DEF StoresAreWhole, memoryVars
<1>8. LogIsBounded'
  BY <1>1, <1>2, <1>4, <1>5 DEF LogIsBounded, StoresAreWhole, memoryVars, Stores
<1>9. ~Alive /\ ~Alive'
  BY <1>2 DEF Alive
<1>10. MovedIsKept'
  <2> SUFFICES ASSUME NEW t \in Stores, oldFile'[t] # SetToSeq(Earlier)
               PROVE  Whole(newFile'[t]) /\ KeepsEarlier(t, newFile'[t])
    BY <1>9 DEF MovedIsKept
  <2>1. CASE t = s
    BY <1>1, <1>3, <1>4, <1>5, <2>1 DEF StoresAreWhole
  <2>2. CASE t # s
    BY <1>1, <1>2, <1>5, <1>6, <2>2 DEF MovedIsKept, StoresAreWhole
  <2> QED
    BY <2>1, <2>2
<1>11. StoresAreTyped'
  BY RecordsTyped, PTL
<1>12. RecordsTypeOK'
  BY <1>1, <1>2, <1>7, <1>8, <1>11 DEF RecordsTypeOK, StoresAreTyped
<1> QED
  BY <1>7, <1>8, <1>9, <1>10, <1>12
  DEF RecordsInvariant, UnsavedIsMarked, MarkSurvives

\* The start and the end of the process: what is loaded is what the file has.
LEMMA StartingPreserves ==
    ASSUME RecordsInvariant, Start \/ Moved \/ Load \/ Signal \/ ProcessEnds
    PROVE  RecordsInvariant'
<1>1. /\ StoresAreWhole /\ LogIsBounded /\ MovedIsKept /\ RecordsTypeOK
      /\ UnsavedIsMarked /\ MarkSurvives
  BY DEF RecordsInvariant
<1>2. /\ <<>> \in Seq(Uploads) /\ Len(<<>>) = 0 /\ 0 <= MostKept
      /\ SaverRests \in SaverState /\ SaverRests.at = "tick"
      /\ SaverRests.snap = <<>>
  BY RecordsAssumption, EarlierListed
  DEF RecordsAssumption, MostKept, SaverRests, SaverState
<1>3. UNCHANGED <<oldFile, newFile>>
  BY DEF Start, Moved, Load, Signal, ProcessEnds, diskVars
<1>4. ASSUME NEW s \in Stores
      PROVE  /\ LoadOf(s) \in Seq(Uploads)
             /\ LoadOf("success") = <<>> \/ Whole(newFile["success"])
             /\ LoadOf(s) = <<>> \/ LoadOf(s) = newFile[s]
  BY <1>1, <1>2 DEF LoadOf, StoresAreWhole, Whole
<1>5. CASE Start \/ Moved
  <2>1. /\ UNCHANGED <<upload, memoryVars, failed>> /\ ~Alive /\ ~Alive'
        /\ process' \in {"moving", "loading"} /\ starts' \in 0..MaxStarts
    <3>1. starts \in 0..MaxStarts /\ MaxStarts \in Nat
      BY <1>1, RecordsAssumption DEF RecordsTypeOK, RecordsAssumption
    <3>2. CASE Start
      BY <3>1, <3>2 DEF Start, Alive, diskVars
    <3>3. CASE Moved
      BY <3>1, <3>3 DEF Moved, Alive, diskVars
    <3> QED
      BY <1>5, <3>2, <3>3
  <2>2. StoresAreWhole' /\ LogIsBounded'
    BY <1>1, <1>3, <2>1 DEF StoresAreWhole, LogIsBounded, memoryVars
  <2>3. MovedIsKept'
    BY <1>1, <1>3, <2>1 DEF MovedIsKept
  <2>4. StoresAreTyped'
    BY RecordsTyped, PTL
  <2>5. RecordsTypeOK'
    BY <1>1, <2>1, <2>2, <2>4 DEF RecordsTypeOK, StoresAreTyped
  <2> QED
    BY <2>1, <2>2, <2>3, <2>5 DEF RecordsInvariant, UnsavedIsMarked, MarkSurvives
<1>6. CASE Load
  <2>1. /\ process' = "up" /\ UNCHANGED <<starts, upload>> /\ Alive'
        /\ memory' = [s \in Stores |-> LoadOf(s)]
        /\ saver' = [s \in Stores |-> SaverRests]
    BY <1>6 DEF Load, Alive
  <2>2. /\ StoresAreWhole' /\ \A s \in Stores : LoadOf(s)' = LoadOf(s)
    BY <1>1, <1>2, <1>3, <1>4, <1>6, <2>1 DEF Load, StoresAreWhole, LoadOf
  <2>3. LogIsBounded'
    <3>1. Len(LoadOf("success")) <= MostKept
      BY <1>1, <1>2 DEF LoadOf, LogIsBounded
    <3> QED
      BY <1>1, <1>2, <1>3, <2>1, <3>1 DEF LogIsBounded, Stores
  <2>4. MovedIsKept'
    <3> SUFFICES ASSUME NEW s \in Stores, oldFile[s] # SetToSeq(Earlier)
                 PROVE  /\ Whole(newFile[s]) /\ KeepsEarlier(s, newFile[s])
                        /\ KeepsEarlier(s, memory'[s])
                        /\ saver'[s].at # "write"
      BY <1>3 DEF MovedIsKept
    <3>1. Whole(newFile[s]) /\ KeepsEarlier(s, newFile[s])
      BY <1>1 DEF MovedIsKept
    <3>2. memory'[s] = newFile[s]
      BY <2>1, <3>1 DEF LoadOf
    <3> QED
      BY <1>2, <2>1, <3>1, <3>2
  <2>5. UnsavedIsMarked' /\ MarkSurvives'
    BY <1>2, <2>1, <2>2 DEF UnsavedIsMarked, MarkSurvives
  <2>6. StoresAreTyped'
    BY RecordsTyped, PTL
  <2>7. RecordsTypeOK'
    BY <1>1, <2>1, <2>2, <2>3, <2>6 DEF RecordsTypeOK, StoresAreTyped
  <2> QED
    BY <2>2, <2>3, <2>4, <2>5, <2>7 DEF RecordsInvariant
<1>7. CASE Signal
  <2>1. /\ process = "up" /\ process' = "stopping" /\ Alive /\ Alive'
        /\ UNCHANGED <<starts, upload, memoryVars, diskVars>>
    BY <1>7 DEF Signal, Alive
  <2>2. RecordsTypeOK' /\ StoresAreWhole' /\ LogIsBounded'
    BY <1>1, <2>1
    DEF RecordsTypeOK, StoresAreWhole, LogIsBounded, memoryVars, diskVars
  <2>3. MovedIsKept'
    BY <1>1, <2>1 DEF MovedIsKept, memoryVars, diskVars
  <2>4. UnsavedIsMarked' /\ MarkSurvives'
    BY <1>1, <2>1
    DEF UnsavedIsMarked, MarkSurvives, Marking, LoadOf, memoryVars, diskVars
  <2> QED
    BY <2>2, <2>3, <2>4 DEF RecordsInvariant
<1>8. CASE ProcessEnds
  <2>1. /\ process' = "off" /\ UNCHANGED <<starts, failed>> /\ ~Alive'
        /\ memory' = [s \in Stores |-> <<>>]
        /\ saver' = [s \in Stores |-> SaverRests]
        /\ upload' \in [Uploads -> UploadStages]
    BY <1>8 DEF ProcessEnds, Alive, diskVars, UploadStages
  <2>2. StoresAreWhole'
    BY <1>1, <1>2, <1>3, <1>8, <2>1 DEF ProcessEnds, StoresAreWhole
  <2>3. LogIsBounded'
    BY <1>1, <1>2, <1>3, <2>1 DEF LogIsBounded, Stores
  <2>4. MovedIsKept'
    BY <1>1, <1>3, <2>1 DEF MovedIsKept
  <2>5. StoresAreTyped'
    BY RecordsTyped, PTL
  <2>6. RecordsTypeOK'
    BY <1>1, <2>1, <2>2, <2>3, <2>5 DEF RecordsTypeOK, StoresAreTyped
  <2> QED
    BY <2>1, <2>2, <2>3, <2>4, <2>6 DEF RecordsInvariant, UnsavedIsMarked, MarkSurvives
<1> QED
  BY <1>5, <1>6, <1>7, <1>8

\* The end of an upload: while its record is in no mark, the upload itself is
\* on its way to mark it.
LEMMA UploadsPreserve ==
    ASSUME RecordsInvariant, NEW u \in Uploads,
           Finish(u) \/ AddRecord(u) \/ MarkRecord(u) \/ BumpDir(u) \/ MarkDir(u)
    PROVE  RecordsInvariant'
<1>1. /\ StoresAreWhole /\ LogIsBounded /\ MovedIsKept /\ RecordsTypeOK
      /\ UnsavedIsMarked /\ MarkSurvives
  BY DEF RecordsInvariant
<1>2. /\ Alive /\ Alive'
      /\ UNCHANGED <<process, starts, saver, stoppable, oldFile, newFile, failed>>
  BY DEF Finish, AddRecord, MarkRecord, BumpDir, MarkDir, Upload, diskVars, Alive
<1>3. upload \in [Uploads -> UploadStages]
  BY <1>1 DEF RecordsTypeOK
<1>4. upload' \in [Uploads -> UploadStages]
  BY <1>3 DEF Finish, AddRecord, MarkRecord, BumpDir, MarkDir, Upload, UploadStages
<1>5. ASSUME NEW s \in Stores
      PROVE  /\ memory[s] \in Seq(Uploads) /\ LoadOf(s)' = LoadOf(s)
  BY <1>1, <1>2 DEF StoresAreWhole, LoadOf
<1>6. /\ memory' \in [Stores -> Seq(Uploads)]
      /\ Len(memory'["success"]) <= MostKept
      /\ \A s \in Stores : KeepsEarlier(s, memory[s]) => KeepsEarlier(s, memory'[s])
  <2>1. CASE AddRecord(u)
    <3> DEFINE g == Youngest(Append(memory["success"], u), Cap)
    <3>1. memory["success"] \in Seq(Uploads) /\ "success" \in Stores
      BY <1>5 DEF Stores
    <3>2. g \in Seq(Uploads) /\ Len(g) <= Cap
      BY <3>1, YoungestOfAppend
    <3>3. KeepsEarlier("success", memory["success"]) => KeepsEarlier("success", g)
      BY <3>1, KeptWhenGrowing
    <3>4. memory' = [memory EXCEPT !["success"] = g]
      BY <2>1 DEF AddRecord
    <3>5. Cap <= MostKept /\ Cap \in Nat /\ MostKept \in Nat
      BY RecordsAssumption, EarlierListed DEF MostKept, RecordsAssumption
    <3>6. Len(g) \in Nat
      BY <3>2, LenProperties
    <3> HIDE DEF g
    <3> QED
      BY <1>1, <3>1, <3>2, <3>3, <3>4, <3>5, <3>6 DEF StoresAreWhole
  <2>2. CASE BumpDir(u)
    <3> DEFINE g == Append(memory["dirs"], u)
    <3>1. memory["dirs"] \in Seq(Uploads) /\ "dirs" \in Stores
      BY <1>5 DEF Stores
    <3>2. g \in Seq(Uploads)
      BY <3>1
    <3>3. KeepsEarlier("dirs", memory["dirs"]) => KeepsEarlier("dirs", g)
      BY <3>1, KeptWhenGrowing
    <3>4. memory' = [memory EXCEPT !["dirs"] = g]
      BY <2>2 DEF BumpDir
    <3> HIDE DEF g
    <3> QED
      BY <1>1, <3>1, <3>2, <3>3, <3>4 DEF StoresAreWhole, LogIsBounded, Stores
  <2>3. CASE Finish(u) \/ MarkRecord(u) \/ MarkDir(u)
    <3>1. memory' = memory
      BY <2>3 DEF Finish, MarkRecord, MarkDir
    <3> QED
      BY <1>1, <3>1 DEF StoresAreWhole, LogIsBounded
  <2> QED
    BY <2>1, <2>2, <2>3
<1>7. dirty' \in [Stores -> BOOLEAN]
  BY <1>1 DEF StoresAreWhole, Finish, AddRecord, MarkRecord, BumpDir, MarkDir
<1>8. StoresAreWhole' /\ LogIsBounded'
  BY <1>1, <1>2, <1>6, <1>7 DEF StoresAreWhole, LogIsBounded
<1>9. MovedIsKept'
  BY <1>1, <1>2, <1>6 DEF MovedIsKept
<1>10. ASSUME NEW s \in Stores
       PROVE  \/ memory'[s] = memory[s] /\ (dirty[s] \/ Marking(s) =>
                                              dirty'[s] \/ Marking(s)')
              \/ Marking(s)'
  <2>1. CASE Finish(u)
    <3>1. memory' = memory /\ dirty' = dirty
      BY <2>1 DEF Finish
    <3>2. Marking(s) => Marking(s)'
      BY <1>3, <2>1 DEF Finish, Upload, Marking, UploadStages
    <3> QED
      BY <3>1, <3>2
  <2>2. CASE AddRecord(u)
    <3>1. upload' = [upload EXCEPT ![u] = "mark"] /\ dirty' = dirty
          /\ upload[u] = "append"
      BY <2>2 DEF AddRecord, Upload
    <3>2. CASE s = "success"
      BY <1>3, <3>1, <3>2 DEF Marking
    <3>3. CASE s # "success"
      <4>1. memory'[s] = memory[s]
        BY <1>1, <2>2, <3>3 DEF AddRecord, StoresAreWhole
      <4>2. Marking(s) => Marking(s)'
        BY <1>3, <3>1, <3>3 DEF Marking
      <4> QED
        BY <3>1, <4>1, <4>2
    <3> QED
      BY <3>2, <3>3
  <2>3. CASE MarkRecord(u)
    <3>1. /\ upload' = [upload EXCEPT ![u] = "count"] /\ memory' = memory
          /\ upload[u] = "mark" /\ dirty' = [dirty EXCEPT !["success"] = TRUE]
      BY <2>3 DEF MarkRecord, Upload
    <3>2. CASE s = "success"
      BY <1>1, <3>1, <3>2 DEF StoresAreWhole
    <3>3. CASE s # "success"
      <4>1. dirty'[s] = dirty[s]
        BY <1>1, <3>1, <3>3 DEF StoresAreWhole
      <4>2. Marking(s) => Marking(s)'
        BY <1>3, <3>1, <3>3 DEF Marking
      <4> QED
        BY <3>1, <4>1, <4>2
    <3> QED
      BY <3>2, <3>3
  <2>4. CASE BumpDir(u)
    <3>1. /\ upload' = [upload EXCEPT ![u] = "countMark"] /\ dirty' = dirty
          /\ upload[u] = "count"
      BY <2>4 DEF BumpDir, Upload
    <3>2. CASE s = "dirs"
      BY <1>3, <3>1, <3>2 DEF Marking
    <3>3. CASE s # "dirs"
      <4>1. memory'[s] = memory[s] /\ s = "success"
        BY <1>1, <2>4, <3>3 DEF BumpDir, StoresAreWhole, Stores
      <4>2. Marking(s) => Marking(s)'
        BY <1>3, <3>1, <4>1 DEF Marking
      <4> QED
        BY <3>1, <4>1, <4>2
    <3> QED
      BY <3>2, <3>3
  <2>5. CASE MarkDir(u)
    <3>1. /\ upload' = [upload EXCEPT ![u] = "done"] /\ memory' = memory
          /\ upload[u] = "countMark" /\ dirty' = [dirty EXCEPT !["dirs"] = TRUE]
      BY <2>5 DEF MarkDir, Upload
    <3>2. CASE s = "dirs"
      BY <1>1, <3>1, <3>2 DEF StoresAreWhole
    <3>3. CASE s # "dirs"
      <4>1. dirty'[s] = dirty[s] /\ s = "success"
        BY <1>1, <3>1, <3>3 DEF StoresAreWhole, Stores
      <4>2. Marking(s) => Marking(s)'
        BY <1>3, <3>1, <4>1 DEF Marking
      <4> QED
        BY <3>1, <4>1, <4>2
    <3> QED
      BY <3>2, <3>3
  <2> QED
    BY <2>1, <2>2, <2>3, <2>4, <2>5
<1>11. UnsavedIsMarked'
  <2> SUFFICES ASSUME NEW s \in Stores
               PROVE  \/ memory'[s] = LoadOf(s)'
                      \/ dirty'[s] \/ failed'[s] \/ Marking(s)'
                      \/ saver'[s].at = "flush"
                      \/ saver'[s].at = "write" /\ saver'[s].snap = memory'[s]
    BY DEF UnsavedIsMarked, Marking
  <2>1. \/ memory[s] = LoadOf(s)
        \/ dirty[s] \/ failed[s] \/ Marking(s)
        \/ saver[s].at = "flush"
        \/ saver[s].at = "write" /\ saver[s].snap = memory[s]
    BY <1>1, <1>2 DEF UnsavedIsMarked, Marking
  <2> QED
    BY <1>2, <1>5, <1>10, <2>1
<1>12. MarkSurvives'
  BY <1>1, <1>2, <1>10 DEF MarkSurvives
<1>13. StoresAreTyped'
  BY RecordsTyped, PTL
<1>14. RecordsTypeOK'
  BY <1>1, <1>2, <1>4, <1>8, <1>13 DEF RecordsTypeOK, StoresAreTyped
<1> QED
  BY <1>8, <1>9, <1>11, <1>12, <1>14 DEF RecordsInvariant

\* The loops: a mark is taken before the snapshot, so what comes after the
\* snapshot is marked again, and what is written is what was in memory.
LEMMA SaversPreserve ==
    ASSUME RecordsInvariant, NEW s \in Stores,
           TakeDirty(s) \/ SnapshotRecords(s) \/ AtomicWrite(s) \/ SaverEnds(s)
    PROVE  RecordsInvariant'
<1>1. /\ StoresAreWhole /\ LogIsBounded /\ MovedIsKept /\ RecordsTypeOK
      /\ UnsavedIsMarked /\ MarkSurvives
  BY DEF RecordsInvariant
<1>2. /\ Alive /\ Alive'
      /\ UNCHANGED <<process, starts, upload, memory, stoppable, oldFile>>
  BY DEF TakeDirty, SnapshotRecords, AtomicWrite, SaverEnds, SaverFromTo, diskVars,
         Alive
<1>3. \A t \in Stores : Marking(t)' <=> Marking(t)
  BY <1>2 DEF Marking
<1>4. /\ memory[s] \in Seq(Uploads) /\ saver[s].snap \in Seq(Uploads)
      /\ <<>> \in Seq(Uploads) /\ Len(<<>>) = 0 /\ 0 <= MostKept
  BY <1>1, RecordsAssumption, EarlierListed
  DEF StoresAreWhole, SaverState, MostKept, RecordsAssumption
<1>5. CASE TakeDirty(s) \/ SnapshotRecords(s) \/ SaverEnds(s)
  <2>1. PICK r \in SaverState :
          /\ saver' = [saver EXCEPT ![s] = r]
          /\ \/ r.at # "write" /\ r.snap = <<>>
             \/ r.at = "write" /\ r.snap = memory[s]
          /\ UNCHANGED <<newFile, failed>>
          /\ \/ dirty' = dirty /\ saver[s].at # "write" /\ r.at # "flush"
                /\ (saver[s].at = "flush" => r.at = "write")
             \/ dirty' = [dirty EXCEPT ![s] = FALSE] /\ r.at = "flush"
    <3>1. CASE TakeDirty(s)
      <4>1. [at |-> "flush", snap |-> <<>>] \in SaverState
        BY <1>4 DEF SaverState
      <4> QED
        BY <3>1, <4>1 DEF TakeDirty, SaverFromTo, diskVars
    <3>2. CASE SnapshotRecords(s)
      <4>1. [at |-> "write", snap |-> memory[s]] \in SaverState
        BY <1>4 DEF SaverState
      <4> QED
        BY <3>2, <4>1 DEF SnapshotRecords, SaverFromTo, diskVars
    <3>3. CASE SaverEnds(s)
      <4>1. [at |-> "ended", snap |-> <<>>] \in SaverState
        BY <1>4 DEF SaverState
      <4> QED
        BY <3>3, <4>1 DEF SaverEnds, SaverFromTo, diskVars
    <3> QED
      BY <1>5, <3>1, <3>2, <3>3
  <2>2. /\ saver'[s] = r
        /\ \A t \in Stores \ {s} : saver'[t] = saver[t] /\ dirty'[t] = dirty[t]
    BY <1>1, <2>1 DEF StoresAreWhole
  <2>3. StoresAreWhole'
    BY <1>1, <1>2, <2>1 DEF StoresAreWhole
  <2>4. LogIsBounded'
    <3>1. Len(saver'["success"].snap) <= MostKept
      BY <1>1, <1>4, <2>1, <2>2 DEF LogIsBounded, Stores
    <3> QED
      BY <1>1, <1>2, <2>1, <3>1 DEF LogIsBounded
  <2>5. MovedIsKept'
    BY <1>1, <1>2, <2>1, <2>2 DEF MovedIsKept
  <2>6. MarkSurvives'
    <3> SUFFICES ASSUME NEW t \in Stores, saver'[t].at = "write"
                 PROVE  saver'[t].snap = memory[t] \/ dirty'[t] \/ Marking(t)
      BY <1>2, <1>3 DEF MarkSurvives
    <3>1. CASE t = s
      BY <2>1, <2>2, <3>1
    <3>2. CASE t # s
      BY <1>1, <1>2, <2>2, <3>2 DEF MarkSurvives
    <3> QED
      BY <3>1, <3>2
  <2>7. UnsavedIsMarked'
    <3>1. \A t \in Stores : LoadOf(t)' = LoadOf(t)
      BY <2>1 DEF LoadOf
    <3> SUFFICES ASSUME NEW t \in Stores
                 PROVE  \/ memory[t] = LoadOf(t)
                        \/ dirty'[t] \/ failed[t] \/ Marking(t)
                        \/ saver'[t].at = "flush"
                        \/ saver'[t].at = "write" /\ saver'[t].snap = memory[t]
      BY <1>2, <1>3, <2>1, <3>1 DEF UnsavedIsMarked, Marking
    <3>2. \/ memory[t] = LoadOf(t)
          \/ dirty[t] \/ failed[t] \/ Marking(t)
          \/ saver[t].at = "flush"
          \/ saver[t].at = "write" /\ saver[t].snap = memory[t]
      BY <1>1, <1>2 DEF UnsavedIsMarked, Marking
    <3>3. CASE t = s
      BY <2>1, <2>2, <3>2, <3>3
    <3>4. CASE t # s
      BY <2>2, <3>2, <3>4
    <3> QED
      BY <3>3, <3>4
  <2>8. StoresAreTyped'
    BY RecordsTyped, PTL
  <2>9. RecordsTypeOK'
    BY <1>1, <1>2, <2>3, <2>4, <2>8 DEF RecordsTypeOK, StoresAreTyped
  <2> QED
    BY <2>3, <2>4, <2>5, <2>6, <2>7, <2>9 DEF RecordsInvariant
<1>6. CASE AtomicWrite(s)
  <2>1. /\ saver[s].at = "write" /\ dirty' = dirty
        /\ saver' = [saver EXCEPT ![s] = SaverRests]
        /\ \/ newFile' = [newFile EXCEPT ![s] = saver[s].snap]
              /\ failed' = [failed EXCEPT ![s] = FALSE]
           \/ failed' = [failed EXCEPT ![s] = TRUE] /\ newFile' = newFile
    BY <1>6 DEF AtomicWrite, SaverFromTo
  <2>2. SaverRests \in SaverState /\ SaverRests.at = "tick" /\ SaverRests.snap = <<>>
    BY <1>4 DEF SaverRests, SaverState
  <2>3. /\ saver'[s] = SaverRests
        /\ \A t \in Stores \ {s} : /\ saver'[t] = saver[t] /\ newFile'[t] = newFile[t]
                                   /\ failed'[t] = failed[t]
    BY <1>1, <2>1 DEF StoresAreWhole
  <2>4. Whole(saver[s].snap)
    BY <1>4, ListsAreWhole
  <2>5. StoresAreWhole'
    BY <1>1, <1>2, <1>4, <2>1, <2>2 DEF StoresAreWhole
  <2>6. LogIsBounded'
    <3>1. Len(saver'["success"].snap) <= MostKept
      BY <1>1, <1>4, <2>2, <2>3 DEF LogIsBounded, Stores
    <3>2. newFile'["success"] \in {newFile["success"], saver["success"].snap}
      BY <1>1, <2>1 DEF StoresAreWhole, Stores
    <3>3. Whole(newFile'["success"]) => Len(newFile'["success"]) <= MostKept
      BY <1>1, <3>2 DEF LogIsBounded
    <3> QED
      BY <1>1, <1>2, <3>1, <3>3 DEF LogIsBounded
  <2>7. MovedIsKept'
    <3> SUFFICES ASSUME NEW t \in Stores, oldFile[t] # SetToSeq(Earlier)
                 PROVE  /\ Whole(newFile'[t]) /\ KeepsEarlier(t, newFile'[t])
                        /\ KeepsEarlier(t, memory[t])
                        /\ saver'[t].at = "write" => KeepsEarlier(t, saver'[t].snap)
      BY <1>2 DEF MovedIsKept
    <3>1. /\ Whole(newFile[t]) /\ KeepsEarlier(t, newFile[t])
          /\ KeepsEarlier(t, memory[t])
          /\ saver[t].at = "write" => KeepsEarlier(t, saver[t].snap)
      BY <1>1, <1>2 DEF MovedIsKept
    <3>2. CASE t = s
      <4>1. newFile'[s] = newFile[s] \/ newFile'[s] = saver[s].snap
        BY <1>1, <2>1 DEF StoresAreWhole
      <4> QED
        BY <2>1, <2>2, <2>3, <2>4, <3>1, <3>2, <4>1
    <3>3. CASE t # s
      BY <2>3, <3>1, <3>3
    <3> QED
      BY <3>2, <3>3
  <2>8. MarkSurvives'
    <3> SUFFICES ASSUME NEW t \in Stores, saver'[t].at = "write"
                 PROVE  saver'[t].snap = memory[t] \/ dirty[t] \/ Marking(t)
      BY <1>2, <1>3, <2>1 DEF MarkSurvives
    <3>1. t # s
      BY <2>2, <2>3
    <3> QED
      BY <1>1, <1>2, <2>3, <3>1 DEF MarkSurvives
  <2>9. UnsavedIsMarked'
    <3> SUFFICES ASSUME NEW t \in Stores
                 PROVE  \/ memory[t] = LoadOf(t)'
                        \/ dirty[t] \/ failed'[t] \/ Marking(t)
                        \/ saver'[t].at = "flush"
                        \/ saver'[t].at = "write" /\ saver'[t].snap = memory[t]
      BY <1>2, <1>3, <2>1 DEF UnsavedIsMarked, Marking
    <3>1. CASE t = s
      <4>1. saver[s].snap = memory[s] \/ dirty[s] \/ Marking(s)
        BY <1>1, <1>2, <2>1 DEF MarkSurvives
      <4>2. CASE newFile' = [newFile EXCEPT ![s] = saver[s].snap]
        <5>1. LoadOf(s)' = saver[s].snap
          BY <1>1, <2>4, <4>2 DEF LoadOf, StoresAreWhole
        <5> QED
          BY <3>1, <4>1, <5>1
      <4>3. CASE failed' = [failed EXCEPT ![s] = TRUE]
        BY <1>1, <3>1, <4>3 DEF StoresAreWhole
      <4> QED
        BY <2>1, <4>2, <4>3
    <3>2. CASE t # s
      <4>1. LoadOf(t)' = LoadOf(t)
        BY <2>3, <3>2 DEF LoadOf
      <4>2. \/ memory[t] = LoadOf(t)
            \/ dirty[t] \/ failed[t] \/ Marking(t)
            \/ saver[t].at = "flush"
            \/ saver[t].at = "write" /\ saver[t].snap = memory[t]
        BY <1>1, <1>2 DEF UnsavedIsMarked, Marking
      <4> QED
        BY <2>3, <3>2, <4>1, <4>2
    <3> QED
      BY <3>1, <3>2
  <2>10. StoresAreTyped'
    BY RecordsTyped, PTL
  <2>11. RecordsTypeOK'
    BY <1>1, <1>2, <2>5, <2>6, <2>10 DEF RecordsTypeOK, StoresAreTyped
  <2> QED
    BY <2>5, <2>6, <2>7, <2>8, <2>9, <2>11 DEF RecordsInvariant
<1> QED
  BY <1>5, <1>6

\* Every step of the moves, the uploads, the loops and the process keeps it.
LEMMA RecordsPreserve ==
    RecordsInvariant /\ [RecordsNext]_recordVars => RecordsInvariant'
<1> SUFFICES ASSUME RecordsInvariant, [RecordsNext]_recordVars
             PROVE  RecordsInvariant'
  OBVIOUS
<1>1. CASE RecordsNext
  BY <1>1, StartingPreserves, MovingPreserves, SaversPreserve, UploadsPreserve
  DEF RecordsNext
<1>2. CASE UNCHANGED recordVars
  <2>1. RecordsTypeOK' /\ StoresAreWhole' /\ LogIsBounded'
    BY <1>2 DEF recordVars, RecordsInvariant, RecordsTypeOK, StoresAreWhole,
                LogIsBounded
  <2>2. MovedIsKept' /\ UnsavedIsMarked' /\ MarkSurvives'
    BY <1>2 DEF recordVars, RecordsInvariant, MovedIsKept, UnsavedIsMarked,
                MarkSurvives, Marking, Alive, LoadOf
  <2> QED
    BY <2>1, <2>2 DEF RecordsInvariant
<1> QED
  BY <1>1, <1>2

\* Whatever the order of additions, marks, snapshots and writes, and however
\* many uploads end at once, what is in memory and not in the file is marked,
\* about to be, or in the hands of the loop - unless the last write failed
\* (Add, bumpDir, TakeDirty, Flush).
THEOREM UnsavedIsMarkedAlways == RecordsSpec => []UnsavedIsMarked
<1>1. RecordsInvariant => UnsavedIsMarked
  BY DEF RecordsInvariant
<1> QED
  BY <1>1, RecordsInitially, RecordsPreserve, PTL DEF RecordsSpec

\* The records of an older version survive every interrupted or failed move,
\* every failed write and every end of the process, in one file or the other
\* (moveFile, migrateLegacyDataFiles, Load, Flush).
THEOREM EarlierIsKeptAlways == RecordsSpec => []EarlierIsKept
<1>1. RecordsInvariant => EarlierIsKept
  BY DEF RecordsInvariant, MovedIsKept, EarlierIsKept
<1> QED
  BY <1>1, RecordsInitially, RecordsPreserve, PTL DEF RecordsSpec

\* The type invariant of the records, in memory and in their files.
THEOREM RecordsTypeCorrect == RecordsSpec => []RecordsTypeOK
<1>1. RecordsInvariant => RecordsTypeOK
  BY DEF RecordsInvariant
<1> QED
  BY <1>1, RecordsInitially, RecordsPreserve, PTL DEF RecordsSpec

-----------------------------------------------------------------------------
(* ConfigStore.                                                            *)

ConfigSpec == ConfigInit /\ [][ConfigNext]_configVars

\* The sections of the store, of the file and of what a writer has read.
LEMMA ConfigSections ==
    /\ \A c \in Config : c.main \in Version /\ c.builtin \in Builtin
    /\ \A c \in Config, m \in Version : [c EXCEPT !.main = m] \in Config
    /\ \A c \in Config, b \in Builtin : [c EXCEPT !.builtin = b] \in Config
    /\ \A b \in Builtin, v \in Version :
          /\ [b EXCEPT !.settings = v] \in Builtin
          /\ [b EXCEPT !.cookies = v] \in Builtin
          /\ b.settings \in Version
    /\ \A c \in Config, v \in Version :
          /\ [c EXCEPT !.builtin.settings = v] \in Config
          /\ [c EXCEPT !.builtin.settings = v].main = c.main
    /\ \A c \in Config, b \in Builtin : [c EXCEPT !.builtin = b].main = c.main
    /\ \A c \in Config, m \in Version : [c EXCEPT !.main = m].main = m
BY DEF Config, Builtin

\* The numbers of the changes, the defaults among them.
LEMMA ConfigDefaults ==
    /\ 0 \in Version /\ Version \subseteq Int
    /\ DefaultBuiltin \in Builtin /\ Default \in Config /\ Default.main = 0
    /\ NoLegacy \notin Version
<1>1. 0 \in Version /\ Version \subseteq Int /\ NoLegacy \notin Version
  BY ConfigAssumption DEF ConfigAssumption, Version, NoLegacy
<1>2. DefaultBuiltin \in Builtin
  BY <1>1 DEF DefaultBuiltin, Builtin
<1>3. Default \in Config /\ Default.main = 0
  BY <1>1, <1>2 DEF Default, Config
<1> QED
  BY <1>1, <1>2, <1>3

WriterState == [at : WriterPlaces, change : Version, seen : Config]

ConfigInvariant == ConfigTypeOK /\ MainSettingsStay

\* Before the first start there are the defaults.
LEMMA ConfigInitially == ConfigInit => ConfigInvariant
<1> SUFFICES ASSUME ConfigInit PROVE ConfigInvariant
  OBVIOUS
<1>1. Resting0 \in WriterState
  BY ConfigDefaults DEF Resting0, WriterState, WriterPlaces
<1>2. writers \in [Writers -> WriterState]
  BY <1>1 DEF ConfigInit
<1>3. 0 \in 0..MaxBoots
  BY ConfigAssumption DEF ConfigAssumption
<1>4. ConfigTypeOK
  BY <1>2, <1>3, ConfigDefaults DEF ConfigInit, ConfigTypeOK, WriterState
<1>5. MainSettingsStay
  BY DEF ConfigInit, MainSettingsStay
<1> QED
  BY <1>4, <1>5 DEF ConfigInvariant

\* Every step of the start and of every writer keeps it.  Only Replace gives
\* the main section a value: Update takes over what lies in the store.
LEMMA ConfigPreserves ==
    ConfigInvariant /\ [ConfigNext]_configVars => ConfigInvariant'
<1> SUFFICES ASSUME ConfigInvariant, [ConfigNext]_configVars
             PROVE  ConfigInvariant'
  OBVIOUS
<1> USE ConfigAssumption DEF ConfigAssumption, ConfigInvariant, ConfigTypeOK,
                             MainSettingsStay
<1>1. Resting0 \in WriterState
  BY ConfigDefaults DEF Resting0, WriterState, WriterPlaces
<1>2. CASE LoadFromDisk
  <2>1. boots' \in 0..MaxBoots
    BY <1>2 DEF LoadFromDisk
  <2>2. json.main \in Version /\ DefaultBuiltin \in Builtin
    BY ConfigSections, ConfigDefaults
  <2> QED
    BY <1>2, <2>1, <2>2 DEF LoadFromDisk
<1>3. CASE Merge
  <2>1. CASE legacy = NoLegacy
    BY <1>3, <2>1 DEF Merge
  <2>2. CASE legacy # NoLegacy
    <3>1. legacy \in Version /\ cfg' = [cfg EXCEPT !.builtin.settings = legacy]
      BY <1>3, <2>2 DEF Merge
    <3>2. cfg' \in Config /\ cfg'.main = cfg.main
      <4> HIDE DEF ConfigInvariant
      <4>1. cfg \in Config
        BY DEF ConfigInvariant
      <4> QED
        BY <3>1, <4>1, ConfigSections
    <3> QED
      BY <1>3, <2>2, <3>2 DEF Merge
  <2> QED
    BY <2>1, <2>2
<1>4. CASE SaveMerged
  BY <1>4 DEF SaveMerged
<1>5. CASE InitBuiltinRecorder
  BY <1>5, ConfigSections DEF InitBuiltinRecorder
<1>6. CASE EndProcess
  BY <1>1, <1>6, ConfigSections, ConfigDefaults DEF EndProcess, WriterState
<1>7. CASE \E w \in Writers : Writing(w)
  <2> PICK w \in Writers : Writing(w)
    BY <1>7
  <2>1. /\ writers \in [Writers -> WriterState] /\ writers[w].at \in WriterPlaces
        /\ writers[w].change \in Version /\ writers[w].seen \in Config
    BY DEF WriterState
  <2>2. ASSUME NEW p \in WriterPlaces, NEW c \in Config
        PROVE  /\ Go(w, p) => writers' \in [Writers -> WriterState]
               /\ Saw(w, p, c) => writers' \in [Writers -> WriterState]
    BY <2>1 DEF Go, Saw, WriterState
  <2>3. ASSUME NEW p \in WriterPlaces, NEW c \in Config, Change(w, p, c)
        PROVE  /\ writers' \in [Writers -> WriterState]
               /\ changes' \in Version /\ changes + 1 \in Version
    <3>1. changes + 1 \in Version
      BY <2>3 DEF Change, Version
    <3> QED
      BY <2>1, <2>3, <3>1 DEF Change, WriterState
  <2>4. CASE BeginPut(w)
    <3>1. writers' \in [Writers -> WriterState] /\ changes' \in Version
      BY <2>3, <2>4 DEF BeginPut, WriterPlaces
    <3> QED
      BY <2>4, <3>1 DEF BeginPut, WriterState
  <2>5. CASE Replace(w)
    <3>1. writers' \in [Writers -> WriterState]
      BY <2>2, <2>5, ConfigDefaults DEF Replace, WriterPlaces
    <3> QED
      BY <2>1, <2>5, <3>1, ConfigSections DEF Replace, WriterState
  <2>6. CASE BeginUpdate(w)
    <3>1. [Default EXCEPT !.builtin = published] \in Config
      BY ConfigSections, ConfigDefaults
    <3>2. writers' \in [Writers -> WriterState] /\ changes' \in Version
      BY <2>3, <2>6, <3>1 DEF BeginUpdate, WriterPlaces
    <3> QED
      BY <2>6, <3>2 DEF BeginUpdate, WriterState
  <2>7. CASE UpdateConfig(w)
    <3>1. writers' \in [Writers -> WriterState]
      BY <2>2, <2>7, ConfigDefaults DEF UpdateConfig, WriterPlaces
    <3>2. published' \in Builtin
      BY <2>1, <2>7, ConfigSections DEF UpdateConfig
    <3> QED
      BY <2>7, <3>1, <3>2 DEF UpdateConfig, WriterState
  <2>8. CASE PersistConfig(w)
    <3>1. writers' \in [Writers -> WriterState]
      BY <2>2, <2>8, ConfigSections DEF PersistConfig, WriterPlaces
    <3> QED
      BY <2>8, <3>1 DEF PersistConfig, WriterState
  <2>9. CASE Update(w)
    <3>1. writers' \in [Writers -> WriterState]
      BY <2>2, <2>9, ConfigDefaults DEF Update, WriterPlaces
    <3> QED
      BY <2>1, <2>9, <3>1, ConfigSections DEF Update, WriterState
  <2>10. CASE SaveGet(w)
    <3>1. writers' \in [Writers -> WriterState]
      BY <2>2, <2>10 DEF SaveGet, WriterPlaces
    <3> QED
      BY <2>10, <3>1 DEF SaveGet, WriterState
  <2>11. CASE SaveWrite(w)
    <3>1. writers' \in [Writers -> WriterState]
      BY <1>1, <2>1, <2>11 DEF SaveWrite
    <3> QED
      BY <2>1, <2>11, <3>1 DEF SaveWrite, WriterState
  <2>12. CASE TelegramChange(w)
    <3>1. /\ writers' \in [Writers -> WriterState] /\ changes' \in Version
          /\ changes + 1 \in Version
      BY <2>3, <2>12, ConfigDefaults DEF TelegramChange, WriterPlaces
    <3> QED
      BY <2>12, <3>1, ConfigSections DEF TelegramChange, WriterState
  <2>13. CASE SaveBuiltinConfigTG(w)
    <3>1. writers' \in [Writers -> WriterState]
      BY <1>1, <2>1, <2>13 DEF SaveBuiltinConfigTG
    <3> QED
      BY <2>13, <3>1, ConfigSections DEF SaveBuiltinConfigTG, WriterState
  <2> QED
    BY <2>4, <2>5, <2>6, <2>7, <2>8, <2>9, <2>10, <2>11, <2>12, <2>13 DEF Writing
<1>8. CASE UNCHANGED configVars
  BY <1>8 DEF configVars
<1> QED
  BY <1>2, <1>3, <1>4, <1>5, <1>6, <1>7, <1>8 DEF ConfigNext

\* However many requests, forms and menus write the settings at once, and
\* wherever the process ends and starts again, no save of the recorder's takes
\* back main settings that a PUT has stored (Update, Replace, PersistConfig).
THEOREM MainSettingsStayAlways == ConfigSpec => []MainSettingsStay
<1>1. ConfigInvariant => MainSettingsStay
  BY DEF ConfigInvariant
<1> QED
  BY <1>1, ConfigInitially, ConfigPreserves, PTL DEF ConfigSpec

\* The type invariant of the settings, their file and its writers.
THEOREM ConfigTypeCorrect == ConfigSpec => []ConfigTypeOK
<1>1. ConfigInvariant => ConfigTypeOK
  BY DEF ConfigInvariant
<1> QED
  BY <1>1, ConfigInitially, ConfigPreserves, PTL DEF ConfigSpec

-----------------------------------------------------------------------------
(* SelfUpdate.                                                             *)

UpdateSpec == UpdateInit /\ [][UpdateNext]_updateVars

\* The steps of the handler at which the new program lies beside the old one.
Fetched == {"copy", "unlink", "backup", "replace"}

\* Only between the two renames may the path be empty, and then its old
\* contents are in the backup: the rename back that follows a failure is what
\* it takes.
SomewhereToReturn ==
    /\ updating \in Fetched => binary.tmp # "none"
    /\ updating \notin {"replace", "restore"} => binary.exe # "none"
    /\ binary.exe # "none" \/ binary.bak # "none"

UpdateInvariant == UpdateTypeOK /\ SomewhereToReturn

\* A start finds the program at its path and no update under way.
LEMMA UpdateInitially == UpdateInit => UpdateInvariant
<1> SUFFICES ASSUME UpdateInit PROVE UpdateInvariant
  OBVIOUS
<1>1. /\ binary \in [exe : Programs, tmp : Programs, bak : Programs]
      /\ binary.exe = "whole" /\ updating = "idle"
  BY DEF UpdateInit, Programs
<1>2. /\ updating = "idle" /\ flagFile = FALSE /\ service = "runs"
      /\ updates = 0 /\ announced = "start" /\ 0 \in 0..MaxUpdates
  BY UpdateAssumption DEF UpdateInit, UpdateAssumption
<1>3. UpdateTypeOK
  BY <1>1, <1>2 DEF UpdateTypeOK
<1>4. SomewhereToReturn
  BY <1>1 DEF SomewhereToReturn, Fetched
<1> QED
  BY <1>3, <1>4 DEF UpdateInvariant

\* What a rename within the directory leaves at the three paths.
LEMMA RenamedPaths ==
    ASSUME UpdateTypeOK, NEW from \in {"exe", "tmp", "bak"},
           NEW to \in {"exe", "tmp", "bak"} \ {from}
    PROVE  LET b == Renamed(from, to)
           IN /\ b \in [exe : Programs, tmp : Programs, bak : Programs]
              /\ b[to] = binary[from] /\ b[from] = "none"
              /\ \A p \in {"exe", "tmp", "bak"} \ {from, to} : b[p] = binary[p]
BY DEF UpdateTypeOK, Renamed, Programs

\* Every step of the handler, of the service and of the receipt keeps it.
LEMMA UpdatePreserves ==
    UpdateInvariant /\ [UpdateNext]_updateVars => UpdateInvariant'
<1> SUFFICES ASSUME UpdateInvariant, [UpdateNext]_updateVars
             PROVE  UpdateInvariant'
  OBVIOUS
<1> USE UpdateAssumption
    DEF UpdateAssumption, UpdateInvariant, UpdateTypeOK, SomewhereToReturn,
        Fetched, Programs, Step, SameFiles
<1>1. CASE Document
  BY <1>1 DEF Document
<1>2. CASE Download
  BY <1>2 DEF Download
<1>3. CASE CopyBody
  BY <1>3 DEF CopyBody
<1>4. CASE Unlink
  BY <1>4 DEF Unlink
<1>5. CASE Backup
  <2>1. CASE binary' = binary
    BY <1>5, <2>1 DEF Backup
  <2>2. CASE binary' = Renamed("exe", "bak")
    BY <1>5, <2>2, RenamedPaths DEF Backup
  <2> QED
    BY <1>5, <2>1, <2>2 DEF Backup
<1>6. CASE ReplaceExe
  <2>1. CASE updating' = "flag" /\ binary' = Renamed("tmp", "exe")
    BY <1>6, <2>1, RenamedPaths DEF ReplaceExe
  <2>2. CASE updating' = "restore" /\ binary' = binary
    BY <1>6, <2>2 DEF ReplaceExe
  <2> QED
    BY <1>6, <2>1, <2>2 DEF ReplaceExe
<1>7. CASE PutBack
  <2>1. CASE binary.bak = "none"
    BY <1>7, <2>1 DEF PutBack
  <2>2. CASE binary.bak # "none"
    BY <1>7, <2>2, RenamedPaths DEF PutBack
  <2> QED
    BY <2>1, <2>2
<1>8. CASE WriteFlag
  BY <1>8 DEF WriteFlag
<1>9. CASE RunScript
  BY <1>9 DEF RunScript
<1>10. CASE StartService \/ ReadFlag \/ SendReceipt \/ RemoveFlag
  BY <1>10 DEF StartService, ReadFlag, SendReceipt, RemoveFlag
<1>11. CASE UNCHANGED updateVars
  BY <1>11 DEF updateVars
<1> QED
  BY <1>1, <1>2, <1>3, <1>4, <1>5, <1>6, <1>7, <1>8, <1>9, <1>10, <1>11
  DEF UpdateNext

\* For any number of updates, each of which may fail in any of its steps, the
\* service finds something to start at its path whenever no update is under
\* way (tgHandleUpdateBinary).
THEOREM ProgramStaysAlways == UpdateSpec => []ProgramStays
<1>1. UpdateInvariant => ProgramStays
  BY DEF UpdateInvariant, SomewhereToReturn, ProgramStays
<1> QED
  BY <1>1, UpdateInitially, UpdatePreserves, PTL DEF UpdateSpec

\* The type invariant of an update and of the files it renames.
THEOREM UpdateTypeCorrect == UpdateSpec => []UpdateTypeOK
<1>1. UpdateInvariant => UpdateTypeOK
  BY DEF UpdateInvariant
<1> QED
  BY <1>1, UpdateInitially, UpdatePreserves, PTL DEF UpdateSpec

-----------------------------------------------------------------------------
(* Reports.                                                                *)

ReportsSpec == ReportsInit /\ [][ReportsNext]_reportVars

ReportState == [at : {"sleep", "send"}, due : Int, by : Int,
                list : SUBSET (0..MaxTime)]
DialogueState == [at : {"none", "dial", "greet", "auth", "from", "rcpt", "data",
                        "quit"},
                  left : SUBSET Recipients, rcpt : SUBSET Recipients]

\* The records are whole, and the time of a record is not to come.
ReportsAreWhole ==
    /\ report \in ReportState /\ dialogue \in DialogueState
    /\ mailed \in [to : SUBSET Recipients, logged : BOOLEAN]
    /\ landed \subseteq 0..clock

\* No report has listed a record that is to come, or, while the loop sleeps,
\* one of after the moment the countdown began.
ReportedIsPast ==
    \A t \in 0..MaxTime : reported[t] > 0 =>
        /\ t <= clock
        /\ report.at = "sleep" => t <= report.due - report.by

\* The window of the next report is no longer than the countdown.
WindowIsCounted == lengthened \/ mailInterval <= report.by

ListedOnce == lengthened \/ \A t \in 0..MaxTime : reported[t] <= 1

ReportsInvariant ==
    /\ ReportsTypeOK /\ ReportsAreWhole
    /\ ReportedIsPast /\ WindowIsCounted /\ ListedOnce

\* The countdown is as long as the interval, or longer.
LEMMA EffectiveIsEnough ==
    \A i \in Intervals : Effective(i) \in Int /\ Effective(i) >= i /\ i \in Int
BY ReportsAssumption DEF ReportsAssumption, Effective

\* The start finds nothing landed and nothing reported.
LEMMA ReportsInitially == ReportsInit => ReportsInvariant
<1> SUFFICES ASSUME ReportsInit PROVE ReportsInvariant
  OBVIOUS
<1>1. /\ 0 \in 0..MaxTime /\ mailInterval \in Intervals
      /\ Effective(mailInterval) \in Int /\ Effective(mailInterval) >= mailInterval
  BY ReportsAssumption, EffectiveIsEnough DEF ReportsAssumption, ReportsInit
<1>2. ReportsAreWhole
  BY <1>1 DEF ReportsInit, ReportsAreWhole, ReportState, DialogueState, NoDialogue
<1>3. ReportsTypeOK
  BY <1>1 DEF ReportsInit, ReportsTypeOK, NoDialogue
<1>4. ReportedIsPast /\ WindowIsCounted /\ ListedOnce
  BY <1>1 DEF ReportsInit, ReportedIsPast, WindowIsCounted, ListedOnce
<1> QED
  BY <1>2, <1>3, <1>4 DEF ReportsInvariant

\* A countdown that begins now has every report that was made behind it.
LEMMA CountdownBegins ==
    ASSUME ReportsInvariant, report' = NextReport(clock), clock' = clock,
           reported' = reported, landed' = landed, mailInterval' = mailInterval,
           lengthened' = lengthened
    PROVE  /\ report' \in ReportState /\ report'.list \subseteq landed'
           /\ ReportedIsPast' /\ WindowIsCounted' /\ ListedOnce'
<1>1. /\ clock \in Int /\ mailInterval \in Intervals
      /\ Effective(mailInterval) \in Int /\ Effective(mailInterval) >= mailInterval
      /\ mailInterval \in Int
  BY EffectiveIsEnough, ReportsAssumption
  DEF ReportsInvariant, ReportsTypeOK, ReportsAssumption
<1>2. /\ report' \in ReportState /\ report'.list = {}
      /\ report'.by = Effective(mailInterval)
      /\ report'.due = clock + Effective(mailInterval)
  BY <1>1 DEF NextReport, ReportState
<1>3. report'.due - report'.by = clock
  BY <1>1, <1>2
<1>4. ReportedIsPast'
  BY <1>3 DEF ReportsInvariant, ReportedIsPast
<1> QED
  BY <1>1, <1>2, <1>4 DEF ReportsInvariant, WindowIsCounted, ListedOnce

\* What a report lists, none has listed before - unless an interval was saved
\* that is longer than the countdown.
LEMMA RecentIsNew ==
    ASSUME ReportsInvariant, ~lengthened, report.at = "sleep",
           clock >= report.due, NEW t \in Recent
    PROVE  reported[t] = 0
<1>1. /\ clock \in Int /\ report.due \in Int /\ report.by \in Int
      /\ mailInterval \in Int /\ t \in 0..MaxTime /\ t > clock - mailInterval
  BY ReportsAssumption
  DEF ReportsInvariant, ReportsTypeOK, ReportsAssumption, Recent
<1>2. t > report.due - report.by
  BY <1>1 DEF ReportsInvariant, WindowIsCounted
<1>3. reported[t] \in Nat
  BY <1>1 DEF ReportsInvariant, ReportsTypeOK
<1> QED
  BY <1>1, <1>2, <1>3 DEF ReportsInvariant, ReportedIsPast

\* Every step of the loop, of the dialogue and of the operator keeps it.
LEMMA ReportsPreserve ==
    ReportsInvariant /\ [ReportsNext]_reportVars => ReportsInvariant'
<1> SUFFICES ASSUME ReportsInvariant, [ReportsNext]_reportVars
             PROVE  ReportsInvariant'
  OBVIOUS
<1>0. /\ ReportsTypeOK /\ ReportsAreWhole
      /\ ReportedIsPast /\ WindowIsCounted /\ ListedOnce
  BY DEF ReportsInvariant
<1>a. /\ clock \in 0..MaxTime /\ MaxTime \in Nat /\ mailInterval \in Int
      /\ Intervals \subseteq Int
  BY <1>0, ReportsAssumption DEF ReportsTypeOK, ReportsAssumption
<1>1. CASE PassTime
  <2>1. clock' \in 0..MaxTime /\ 0..clock \subseteq 0..clock'
    BY <1>1, <1>a DEF PassTime
  <2>2. ReportsTypeOK' /\ ReportsAreWhole'
    BY <1>0, <1>1, <2>1 DEF PassTime, ReportsTypeOK, ReportsAreWhole
  <2>3. ReportedIsPast' /\ WindowIsCounted' /\ ListedOnce'
    BY <1>0, <1>1, <1>a
    DEF PassTime, ReportedIsPast, WindowIsCounted, ListedOnce
  <2> QED
    BY <2>2, <2>3 DEF ReportsInvariant
<1>2. CASE Land
  BY <1>0, <1>2, <1>a
  DEF Land, ReportsInvariant, ReportsTypeOK, ReportsAreWhole, ReportedIsPast,
      WindowIsCounted, ListedOnce
<1>3. CASE SaveInterval
  <2> PICK i \in Intervals :
        /\ mailInterval' = i
        /\ lengthened' = (lengthened \/ i > report.by)
        /\ UNCHANGED <<clock, landed, report, dialogue, reported, mailed>>
    BY <1>3 DEF SaveInterval
  <2>1. i \in Int /\ report.by \in Int /\ lengthened \in BOOLEAN
    BY <1>0, <1>a DEF ReportsTypeOK
  <2>2. ReportsTypeOK' /\ ReportsAreWhole'
    BY <1>0 DEF ReportsTypeOK, ReportsAreWhole
  <2>3. WindowIsCounted'
    <3>1. CASE i > report.by
      BY <2>1, <3>1 DEF WindowIsCounted
    <3>2. CASE i <= report.by
      BY <2>1, <3>2 DEF WindowIsCounted
    <3> QED
      BY <2>1, <3>1, <3>2
  <2>4. ReportedIsPast' /\ ListedOnce'
    BY <1>0 DEF ReportedIsPast, ListedOnce
  <2> QED
    BY <2>2, <2>3, <2>4 DEF ReportsInvariant
<1>4. CASE SendReport
  <2>1. /\ Recent \subseteq landed /\ Recent \subseteq 0..clock
        /\ Recent \subseteq 0..MaxTime
    <3>1. Recent \subseteq landed
      BY DEF Recent
    <3>2. landed \subseteq 0..clock /\ landed \subseteq 0..MaxTime
      BY <1>0 DEF ReportsAreWhole, ReportsTypeOK
    <3> QED
      BY <3>1, <3>2
  <2>2. \A t \in 0..MaxTime : reported[t] \in Nat
    BY <1>0 DEF ReportsTypeOK
  <2>3. /\ reported' \in [0..MaxTime -> Nat]
        /\ \A t \in 0..MaxTime :
              reported'[t] = IF t \in Recent THEN reported[t] + 1 ELSE reported[t]
    BY <1>4, <2>2 DEF SendReport
  <2>4. \A t \in 0..MaxTime : reported'[t] > 0 => t <= clock
    BY <1>0, <1>a, <2>1, <2>3 DEF ReportedIsPast
  <2>5. ListedOnce'
    <3> SUFFICES ASSUME ~lengthened, NEW t \in 0..MaxTime
                 PROVE  reported'[t] <= 1
      BY <1>4 DEF SendReport, ListedOnce
    <3>1. CASE t \in Recent
      <4>1. reported[t] = 0
        BY <1>4, <3>1, RecentIsNew DEF SendReport
      <4> QED
        BY <2>3, <3>1, <4>1
    <3>2. CASE t \notin Recent
      BY <1>0, <2>3, <3>2 DEF ListedOnce
    <3> QED
      BY <3>1, <3>2
  <2>6. CASE Recent = {} \/ ~MailReady
    <3>1. report' = NextReport(clock) /\ dialogue' = dialogue
      BY <1>4, <2>6 DEF SendReport
    <3>2. /\ report' \in ReportState /\ report'.list = {}
          /\ report'.by = Effective(mailInterval)
          /\ report'.due = clock + Effective(mailInterval)
          /\ Effective(mailInterval) \in Int
          /\ Effective(mailInterval) >= mailInterval
      BY <1>0, <1>a, <3>1, EffectiveIsEnough
      DEF NextReport, ReportState, ReportsTypeOK
    <3>3. ReportedIsPast'
      BY <1>4, <1>a, <2>4, <3>2 DEF SendReport, ReportedIsPast
    <3>4. WindowIsCounted'
      BY <1>4, <3>2 DEF SendReport, WindowIsCounted
    <3>5. ReportsAreWhole' /\ ReportsTypeOK'
      BY <1>0, <1>4, <2>3, <3>1, <3>2
      DEF SendReport, ReportsAreWhole, ReportsTypeOK, ReportState
    <3> QED
      BY <2>5, <3>3, <3>4, <3>5 DEF ReportsInvariant
  <2>7. CASE ~(Recent = {} \/ ~MailReady)
    <3>1. /\ report' = [report EXCEPT !.at = "send", !.list = Recent]
          /\ dialogue' = [at |-> "dial", left |-> Recipients, rcpt |-> {}]
      BY <1>4, <2>7 DEF SendReport
    <3>2. /\ report' \in ReportState /\ report'.list = Recent
          /\ report'.at = "send" /\ report'.by = report.by
      BY <1>0, <2>1, <3>1 DEF ReportsAreWhole, ReportState
    <3>3. dialogue' \in DialogueState
      BY <3>1 DEF DialogueState
    <3>4. ReportedIsPast' /\ WindowIsCounted'
      BY <1>0, <1>4, <2>4, <3>2 DEF SendReport, ReportedIsPast, WindowIsCounted
    <3>5. ReportsAreWhole' /\ ReportsTypeOK'
      BY <1>0, <1>4, <2>1, <2>3, <3>2, <3>3
      DEF SendReport, ReportsAreWhole, ReportsTypeOK, ReportState, DialogueState
    <3> QED
      BY <2>5, <3>4, <3>5 DEF ReportsInvariant
  <2> QED
    BY <2>6, <2>7
<1>5. CASE MailStep \/ Rcpt
  <2>1. dialogue' \in DialogueState
    <3>1. dialogue \in DialogueState
      BY <1>0 DEF ReportsAreWhole
    <3>2. CASE MailStep
      <4>1. /\ dialogue.at \in {"dial", "greet", "auth", "from", "data"}
            /\ Following[dialogue.at] \in {"greet", "auth", "from", "rcpt", "quit"}
        <5>1. DOMAIN Following = {"dial", "greet", "auth", "from", "data"}
          BY DEF Following
        <5>2. \A d \in DOMAIN Following :
                 Following[d] \in {"greet", "auth", "from", "rcpt", "quit"}
          BY DEF Following
        <5> QED
          BY <3>2, <5>1, <5>2 DEF MailStep
      <4> QED
        BY <3>1, <3>2, <4>1 DEF MailStep, DialogueState
    <3>3. CASE Rcpt
      <4>1. CASE dialogue.left = {}
        BY <3>1, <3>3, <4>1 DEF Rcpt, DialogueState
      <4>2. CASE dialogue.left # {}
        <5>1. PICK r \in dialogue.left :
                 dialogue' = [dialogue EXCEPT !.left = @ \ {r}, !.rcpt = @ \cup {r}]
          BY <3>3, <4>2 DEF Rcpt
        <5>2. /\ dialogue.left \ {r} \subseteq Recipients
              /\ dialogue.rcpt \cup {r} \subseteq Recipients
          BY <3>1 DEF DialogueState
        <5> QED
          BY <3>1, <5>1, <5>2 DEF DialogueState
      <4> QED
        BY <4>1, <4>2
    <3> QED
      BY <1>5, <3>2, <3>3
  <2>2. mailed' \in [to : SUBSET Recipients, logged : BOOLEAN]
    BY <1>0, <1>5 DEF MailStep, Rcpt, ReportsAreWhole, DialogueState
  <2>3. UNCHANGED <<clock, landed, mailInterval, report, reported, lengthened>>
    BY <1>5 DEF MailStep, Rcpt
  <2>4. ReportsAreWhole' /\ ReportsTypeOK'
    BY <1>0, <2>1, <2>2, <2>3 DEF ReportsAreWhole, ReportsTypeOK, DialogueState
  <2> QED
    BY <1>0, <2>3, <2>4
    DEF ReportsInvariant, ReportedIsPast, WindowIsCounted, ListedOnce
<1>6. CASE MailFails \/ MailDone
  <2>1. /\ dialogue' = NoDialogue /\ report' = NextReport(clock)
        /\ UNCHANGED <<clock, landed, mailInterval, reported, lengthened>>
    BY <1>6 DEF MailFails, MailDone, Abandon
  <2>2. /\ report' \in ReportState /\ report'.list \subseteq landed'
        /\ ReportedIsPast' /\ WindowIsCounted' /\ ListedOnce'
    BY <2>1, CountdownBegins
  <2>3. mailed' \in [to : SUBSET Recipients, logged : BOOLEAN]
    BY <1>0, <1>6 DEF MailFails, MailDone, Abandon, ReportsAreWhole
  <2>4. dialogue' \in DialogueState
    BY <2>1 DEF NoDialogue, DialogueState
  <2>5. ReportsAreWhole' /\ ReportsTypeOK'
    BY <1>0, <2>1, <2>2, <2>3, <2>4
    DEF ReportsAreWhole, ReportsTypeOK, DialogueState, ReportState
  <2> QED
    BY <2>2, <2>5 DEF ReportsInvariant
<1>7. CASE UNCHANGED reportVars
  BY <1>0, <1>7
  DEF reportVars, ReportsInvariant, ReportsTypeOK, ReportsAreWhole,
      ReportedIsPast, WindowIsCounted, ListedOnce
<1> QED
  BY <1>1, <1>2, <1>3, <1>4, <1>5, <1>6, <1>7 DEF ReportsNext

\* No record is listed in two reports, for every set of intervals and however
\* long the mail server takes, until an interval is saved that is longer than
\* the one the loop counts down (reportLoop, sendReport).
THEOREM ReportedOnceAlways == ReportsSpec => []ReportedOnce
<1>1. ReportsInvariant => ReportedOnce
  BY ReportsAssumption
  DEF ReportsInvariant, ReportsTypeOK, ListedOnce, ReportedOnce
<1> QED
  BY <1>1, ReportsInitially, ReportsPreserve, PTL DEF ReportsSpec

\* The type invariant of the reports and the mail dialogue.
THEOREM ReportsTypeCorrect == ReportsSpec => []ReportsTypeOK
<1>1. ReportsInvariant => ReportsTypeOK
  BY DEF ReportsInvariant
<1> QED
  BY <1>1, ReportsInitially, ReportsPreserve, PTL DEF ReportsSpec
=============================================================================
