--------------------------- MODULE ConsoleProofs ----------------------------
(***************************************************************************)
(* Proofs about the console and the bot: the sessions and their file, the  *)
(* login throttle, the messages of the hub, and the panels of the bot, for *)
(* any number of requests, connections and streamers.                      *)
(***************************************************************************)
EXTENDS Sessions, LoginThrottle, Hub, Bot, FiniteSetTheorems,
        SequenceTheorems, TLAPS

-----------------------------------------------------------------------------
(* Sessions: whom a token belongs to.                                      *)

SessionsSpec == SessionsInit /\ [][SessionsNext]_sessionVars

\* The part of the type invariant the proof needs.
SessionsShape ==
    /\ table \subseteq Tokens /\ creds \in Credentials
    /\ issued \in [Tokens -> Credentials \cup {"none"}]
    /\ saves \in [Actors -> [at : {"none", "asked", "taken"},
                             tokens : SUBSET Tokens]]
    /\ sessionFile \in [fingerprint : Credentials \cup {"none"},
                        tokens : SUBSET Tokens]

\* The tokens of a snapshot belong to the credentials of this run, ...
SnapshotsMatch == \A a \in Actors : \A t \in saves[a].tokens : issued[t] = creds

\* ... and those of the file to the fingerprint in it, whenever it was written.
FileMatches ==
    \A t \in sessionFile.tokens :
        issued[t] = sessionFile.fingerprint /\ issued[t] # "none"

\* The table alone is not inductive: a restart fills it from the file, and the
\* file is filled from snapshots.
SessionsInvariant ==
    SessionsShape /\ TokensMatchCredentials /\ SnapshotsMatch /\ FileMatches

\* Every start of the program satisfies it.
LEMMA SessionsInitially == SessionsInit => SessionsInvariant
<1> SUFFICES ASSUME SessionsInit PROVE SessionsInvariant
  OBVIOUS
<1>1. creds \in Credentials /\ creds # "none"
  BY SessionsAssumption DEF SessionsInit, SessionsAssumption
<1>2. PICK old \in SUBSET Tokens :
          /\ table = old
          /\ sessionFile = [fingerprint |-> IF old = {} THEN "none" ELSE creds,
                            tokens |-> old]
          /\ issued = [t \in Tokens |-> IF t \in old THEN creds ELSE "none"]
  BY DEF SessionsInit
<1>3. saves = [a \in Actors |-> [at |-> "none", tokens |-> {}]]
  BY DEF SessionsInit, NoSave
<1>4. SessionsShape
  BY <1>1, <1>2, <1>3 DEF SessionsShape
<1>5. TokensMatchCredentials
  BY <1>2 DEF TokensMatchCredentials
<1>6. SnapshotsMatch
  BY <1>3 DEF SnapshotsMatch
<1>7. FileMatches
  BY <1>1, <1>2 DEF FileMatches
<1> QED
  BY <1>4, <1>5, <1>6, <1>7 DEF SessionsInvariant

\* Asking for a save, and the end of one, leave every other actor's snapshot.
LEMMA SaveForgets ==
    ASSUME SessionsInvariant, NEW a \in Actors,
           NEW s \in [at : {"none", "asked", "taken"}, tokens : {{}}],
           saves' = [saves EXCEPT ![a] = s]
    PROVE  /\ saves' \in [Actors -> [at : {"none", "asked", "taken"},
                                     tokens : SUBSET Tokens]]
           /\ \A b \in Actors : saves'[b].tokens \subseteq saves[b].tokens
<1>1. s \in [at : {"none", "asked", "taken"}, tokens : SUBSET Tokens]
      /\ s.tokens = {}
  OBVIOUS
<1> QED
  BY <1>1 DEF SessionsInvariant, SessionsShape

\* Every step of a request, a timer or a save, and every restart, keeps it.
LEMMA SessionsPreserve ==
    SessionsInvariant /\ [SessionsNext]_sessionVars => SessionsInvariant'
<1> SUFFICES ASSUME SessionsInvariant, [SessionsNext]_sessionVars
             PROVE  SessionsInvariant'
  OBVIOUS
<1> USE DEF SessionsInvariant, SessionsShape, TokensMatchCredentials,
            SnapshotsMatch, FileMatches, storeVars, saveVars, runVars
\* A step that takes tokens from the table and asks at most for a save.
<1>1. ASSUME table' \subseteq table, UNCHANGED <<issued, sessionFile, creds>>,
             \/ UNCHANGED saves
             \/ \E a \in Actors : AskSave(a)
      PROVE  SessionsInvariant'
  <2>1. CASE UNCHANGED saves
    BY <1>1, <2>1
  <2>2. ASSUME NEW a \in Actors, AskSave(a) PROVE SessionsInvariant'
    <3>1. /\ saves' \in [Actors -> [at : {"none", "asked", "taken"},
                                    tokens : SUBSET Tokens]]
          /\ \A b \in Actors : saves'[b].tokens \subseteq saves[b].tokens
      <4>1. [at |-> "asked", tokens |-> {}]
                \in [at : {"none", "asked", "taken"}, tokens : {{}}]
        OBVIOUS
      <4> QED
        BY <2>2, <4>1, SaveForgets DEF AskSave
    <3> QED
      BY <1>1, <3>1
  <2> QED
    BY <1>1, <2>1, <2>2
<1>2. ASSUME NEW a \in Actors, SnapshotStore(a) PROVE SessionsInvariant'
  <2>1. /\ UNCHANGED <<table, issued, sessionFile, creds>>
        /\ saves' = [saves EXCEPT ![a] = [at |-> "taken",
                                          tokens |-> table \ expired]]
    BY <1>2 DEF SnapshotStore
  <2>2. [at |-> "taken", tokens |-> table \ expired]
            \in [at : {"none", "asked", "taken"}, tokens : SUBSET Tokens]
    OBVIOUS
  <2>3. \A b \in Actors : saves'[b].tokens
                              = IF b = a THEN table \ expired ELSE saves[b].tokens
    BY <2>1
  <2>4. SessionsShape'
    BY <2>1, <2>2
  <2>5. SnapshotsMatch'
    BY <2>1, <2>3
  <2> QED
    BY <2>1, <2>4, <2>5
<1>3. ASSUME NEW a \in Actors, WriteFile(a) PROVE SessionsInvariant'
  <2>1. /\ UNCHANGED <<table, issued, creds>>
        /\ saves' = [saves EXCEPT ![a] = NoSave]
        /\ \/ sessionFile' = [fingerprint |-> creds, tokens |-> saves[a].tokens]
           \/ UNCHANGED sessionFile
    BY <1>3 DEF WriteFile
  <2>2. NoSave \in [at : {"none", "asked", "taken"}, tokens : {{}}]
    BY DEF NoSave
  <2>3. /\ saves' \in [Actors -> [at : {"none", "asked", "taken"},
                                  tokens : SUBSET Tokens]]
        /\ \A b \in Actors : saves'[b].tokens \subseteq saves[b].tokens
    BY <2>1, <2>2, SaveForgets
  <2>4. SnapshotsMatch'
    BY <2>1, <2>3
  <2>5. CASE UNCHANGED sessionFile
    BY <2>1, <2>3, <2>4, <2>5
  <2>6. CASE sessionFile' = [fingerprint |-> creds, tokens |-> saves[a].tokens]
    <3>1. saves[a].tokens \subseteq Tokens /\ creds # "none"
      BY SessionsAssumption DEF SessionsAssumption
    <3>2. FileMatches'
      BY <2>1, <2>6, <3>1
    <3>3. SessionsShape'
      BY <2>1, <2>3, <2>6, <3>1
    <3> QED
      BY <2>1, <2>4, <3>2, <3>3
  <2> QED
    BY <2>1, <2>5, <2>6
<1>4. ASSUME NEW r \in Requests, Issue(r) PROVE SessionsInvariant'
  <2>1. PICK t \in Tokens : /\ issued[t] = "none"
                            /\ table' = table \cup {t}
                            /\ issued' = [issued EXCEPT ![t] = creds]
    BY <1>4 DEF Issue
  <2>2. UNCHANGED <<sessionFile, creds>> /\ AskSave(r) /\ r \in Actors
    BY <1>4 DEF Issue, Actors
  <2>3. [at |-> "asked", tokens |-> {}]
            \in [at : {"none", "asked", "taken"}, tokens : {{}}]
    OBVIOUS
  <2>4. /\ saves' \in [Actors -> [at : {"none", "asked", "taken"},
                                  tokens : SUBSET Tokens]]
        /\ \A b \in Actors : saves'[b].tokens \subseteq saves[b].tokens
    BY <2>2, <2>3, SaveForgets DEF AskSave
  <2>5. creds # "none"
    BY SessionsAssumption DEF SessionsAssumption
  <2>6. SessionsShape'
    BY <2>1, <2>2, <2>4
  <2>7. \A u \in Tokens : issued[u] # "none" => issued'[u] = issued[u]
    BY <2>1
  <2>8. TokensMatchCredentials'
    BY <2>1, <2>2, <2>5, <2>7
  <2>9. SnapshotsMatch'
    BY <2>2, <2>4, <2>5, <2>7
  <2>10. FileMatches'
    BY <2>2, <2>7
  <2> QED
    BY <2>6, <2>8, <2>9, <2>10
<1>5. ASSUME NEW r \in Requests, Revoke(r) \/ Verify(r) \/ VerifyDrop(r)
      PROVE  SessionsInvariant'
  <2>1. r \in Actors
    BY DEF Actors
  <2>2. /\ table' \subseteq table /\ UNCHANGED <<issued, sessionFile, creds>>
        /\ UNCHANGED saves \/ AskSave(r)
    BY <1>5 DEF Revoke, Verify, VerifyDrop
  <2> QED
    BY <1>1, <2>1, <2>2
<1>6. ASSUME NEW t \in Tokens, Expire(t) \/ TimerFires(t)
      PROVE  SessionsInvariant'
  <2>1. t \in Actors
    BY DEF Actors
  <2>2. /\ table' \subseteq table /\ UNCHANGED <<issued, sessionFile, creds>>
        /\ UNCHANGED saves \/ AskSave(t)
    BY <1>6 DEF Expire, TimerFires
  <2> QED
    BY <1>1, <2>1, <2>2
<1>7. CASE Restart
  <2>1. /\ creds' \in Credentials /\ UNCHANGED <<sessionFile, issued>>
        /\ table' = Restored(creds')
        /\ saves' = [a \in Actors |-> [at |-> "none", tokens |-> {}]]
    BY <1>7 DEF Restart, NoSave
  <2>2. /\ table' \subseteq sessionFile.tokens
        /\ table' # {} => sessionFile.fingerprint = creds'
    BY <2>1 DEF Restored
  <2>3. SessionsShape' /\ SnapshotsMatch'
    BY <2>1, <2>2
  <2> QED
    BY <2>1, <2>2, <2>3
<1>8. CASE UNCHANGED sessionVars
  BY <1>8 DEF sessionVars
<1> QED
  BY <1>2, <1>3, <1>4, <1>5, <1>6, <1>7, <1>8 DEF SessionsNext

\* For any number of requests and restarts, however saves are delayed, lost and
\* reordered and however often the operator changes the credentials, a token
\* never becomes valid under credentials it was not issued under (load, save).
THEOREM TokensMatchAlways == SessionsSpec => []TokensMatchCredentials
<1>1. SessionsInvariant => TokensMatchCredentials
  BY DEF SessionsInvariant
<1> QED
  BY <1>1, SessionsInitially, SessionsPreserve, PTL DEF SessionsSpec

-----------------------------------------------------------------------------
(* Sessions: what a restart would restore.                                 *)

Positions == [at : {"idle", "drop"}, token : Tokens \cup {"none"}]

\* The part of the types this needs.
SavesState ==
    /\ saves \in [Actors -> [at : {"none", "asked", "taken"},
                             tokens : SUBSET Tokens]]
    /\ handler \in [Requests -> Positions]
    /\ saveOrder \in Seq(Actors) /\ behind \in BOOLEAN

\* A token that a request drops has expired (Verify).
DroppedAreExpired ==
    \A r \in Requests : handler[r].at = "drop" => handler[r].token \in expired

\* Each snapshot that counts is in the order once, and not yet written.
OrderOfTaken ==
    /\ \A i, j \in 1..Len(saveOrder) : saveOrder[i] = saveOrder[j] => i = j
    /\ \A i \in 1..Len(saveOrder) : saves[saveOrder[i]].at = "taken"

\* Unless a save is still to take its snapshot, what is valid now is what the
\* last snapshot holds, or the file when every one that counts was written.
LastIsValid ==
    (\A a \in Actors : saves[a].at # "asked") =>
        IF saveOrder = <<>>
        THEN behind \/ Restored(creds) = table \ expired
        ELSE saves[saveOrder[Len(saveOrder)]].tokens \ expired = table \ expired

SavesInvariant ==
    SavesState /\ DroppedAreExpired /\ OrderOfTaken /\ LastIsValid

\* Every start of the program satisfies it.
LEMMA SavesInitially == SessionsInit => SavesInvariant
<1> SUFFICES ASSUME SessionsInit PROVE SavesInvariant
  OBVIOUS
<1>1. PICK old \in SUBSET Tokens :
          /\ table = old
          /\ sessionFile = [fingerprint |-> IF old = {} THEN "none" ELSE creds,
                            tokens |-> old]
  BY DEF SessionsInit
<1>2. /\ saves = [a \in Actors |-> [at |-> "none", tokens |-> {}]]
      /\ handler = [r \in Requests |-> [at |-> "idle", token |-> "none"]]
      /\ saveOrder = <<>> /\ behind = FALSE /\ expired = {}
  BY DEF SessionsInit, NoSave, Idle
<1>3. SavesState /\ DroppedAreExpired
  <2>1. [at |-> "idle", token |-> "none"] \in Positions
        /\ [at |-> "none", tokens |-> {}] \in [at : {"none", "asked", "taken"},
                                              tokens : SUBSET Tokens]
    BY DEF Positions
  <2>2. handler \in [Requests -> Positions]
        /\ saves \in [Actors -> [at : {"none", "asked", "taken"},
                                 tokens : SUBSET Tokens]]
    BY <1>2, <2>1
  <2>3. DroppedAreExpired
    BY <1>2 DEF DroppedAreExpired
  <2>4. saveOrder \in Seq(Actors) /\ behind \in BOOLEAN
    BY <1>2, EmptySeq
  <2>5. SavesState
    BY <2>2, <2>4 DEF SavesState
  <2> QED
    BY <2>3, <2>5
<1>4. OrderOfTaken
  BY <1>2 DEF OrderOfTaken
<1>5. Restored(creds) = table \ expired
  BY <1>1, <1>2 DEF Restored
<1>6. LastIsValid
  BY <1>2, <1>5 DEF LastIsValid
<1> QED
  BY <1>3, <1>4, <1>6 DEF SavesInvariant

\* Whose snapshots are newer than a's: the rest of the order.
LEMMA NewerIsTheRest ==
    ASSUME SavesInvariant, NEW a \in Actors, NEW i \in 1..Len(saveOrder),
           saveOrder[i] = a
    PROVE  /\ Newer(a) \in Seq(Actors) /\ Len(Newer(a)) = Len(saveOrder) - i
           /\ \A j \in 1..Len(Newer(a)) : Newer(a)[j] = saveOrder[j + i]
<1>1. saveOrder \in Seq(Actors) /\ DOMAIN saveOrder = 1..Len(saveOrder)
      /\ Len(saveOrder) \in Nat
  BY DEF SavesInvariant, SavesState
<1>2. (CHOOSE j \in DOMAIN saveOrder : saveOrder[j] = a) = i
  BY <1>1 DEF SavesInvariant, OrderOfTaken
<1>3. Newer(a) = SubSeq(saveOrder, i + 1, Len(saveOrder))
  BY <1>2 DEF Newer
<1>4. i \in Int /\ Len(saveOrder) \in Int /\ i <= Len(saveOrder) /\ i >= 1
  BY <1>1
<1>5. \A j \in (i + 1)..Len(saveOrder) : saveOrder[j] \in Actors
  BY <1>1, <1>4
<1>6. /\ Newer(a) \in Seq(Actors)
      /\ Len(Newer(a)) = IF i + 1 <= Len(saveOrder)
                         THEN Len(saveOrder) - (i + 1) + 1 ELSE 0
      /\ \A j \in 1..(Len(saveOrder) - (i + 1) + 1) :
            Newer(a)[j] = saveOrder[(i + 1) + j - 1]
  BY <1>3, <1>4, <1>5, SubSeqProperties
<1> HIDE <1>3
<1>7. Len(Newer(a)) = Len(saveOrder) - i
  BY <1>4, <1>6
<1>8. ASSUME NEW j \in 1..Len(Newer(a)) PROVE Newer(a)[j] = saveOrder[j + i]
  <2>1. j \in 1..(Len(saveOrder) - (i + 1) + 1) /\ (i + 1) + j - 1 = j + i
    BY <1>4, <1>7
  <2> QED
    BY <1>6, <2>1
<1> QED
  BY <1>6, <1>7, <1>8

\* Asking for a save keeps it: who asks has no snapshot that counts.
LEMMA AskingPreserves ==
    ASSUME SavesInvariant, NEW a \in Actors, saves[a].at = "none", AskSave(a),
           UNCHANGED <<saveOrder, behind, handler>>, expired' = expired
    PROVE  SavesInvariant'
<1>1. [at |-> "asked", tokens |-> {}] \in [at : {"none", "asked", "taken"},
                                           tokens : SUBSET Tokens]
  OBVIOUS
<1>2. /\ saves' \in [Actors -> [at : {"none", "asked", "taken"},
                                tokens : SUBSET Tokens]]
      /\ saves'[a] = [at |-> "asked", tokens |-> {}]
      /\ \A b \in Actors : b # a => saves'[b] = saves[b]
  BY <1>1 DEF AskSave, SavesInvariant, SavesState
<1>3. SavesState' /\ DroppedAreExpired'
  BY <1>2 DEF SavesInvariant, SavesState, DroppedAreExpired
<1>4. OrderOfTaken'
  <2>1. \A i \in 1..Len(saveOrder) : saveOrder[i] \in Actors /\ saveOrder[i] # a
    BY DEF SavesInvariant, SavesState, OrderOfTaken
  <2> QED
    BY <1>2, <2>1 DEF SavesInvariant, OrderOfTaken
<1>5. LastIsValid'
  BY <1>2 DEF LastIsValid
<1> QED
  BY <1>3, <1>4, <1>5 DEF SavesInvariant

\* A step that leaves saves and order keeps it when what is valid now changes
\* for table, snapshots and file alike.
LEMMA QuietPreserves ==
    ASSUME SavesInvariant, UNCHANGED <<saves, saveOrder, behind, sessionFile, creds>>,
           expired \subseteq expired', table' \ expired' = table \ expired',
           SavesState', DroppedAreExpired'
    PROVE  SavesInvariant'
<1>1. OrderOfTaken'
  BY DEF SavesInvariant, OrderOfTaken
<1>2. LastIsValid'
  <2> SUFFICES ASSUME \A a \in Actors : saves[a].at # "asked"
               PROVE  IF saveOrder = <<>>
                      THEN behind \/ Restored(creds)' = table' \ expired'
                      ELSE saves[saveOrder[Len(saveOrder)]].tokens \ expired'
                               = table' \ expired'
    BY DEF LastIsValid
  <2>1. IF saveOrder = <<>>
        THEN behind \/ Restored(creds) = table \ expired
        ELSE saves[saveOrder[Len(saveOrder)]].tokens \ expired = table \ expired
    BY DEF SavesInvariant, LastIsValid
  <2>2. Restored(creds) = table \ expired
            => Restored(creds)' = table' \ expired'
    BY DEF Restored
  <2> QED
    BY <2>1, <2>2
<1> QED
  BY <1>1, <1>2 DEF SavesInvariant

\* Taking a snapshot and writing it keep it.
LEMMA SavingPreserves ==
    ASSUME SavesInvariant, table \subseteq Tokens, NEW a \in Actors,
           SnapshotStore(a) \/ WriteFile(a)
    PROVE  SavesInvariant'
<1> DEFINE n == Len(saveOrder)
<1>1. /\ saves \in [Actors -> [at : {"none", "asked", "taken"},
                               tokens : SUBSET Tokens]]
      /\ saveOrder \in Seq(Actors) /\ n \in Nat
      /\ DOMAIN saveOrder = 1..n
      /\ \A i \in 1..n : saveOrder[i] \in Actors
      /\ OrderOfTaken
  BY DEF SavesInvariant, SavesState
<1>2. UNCHANGED <<handler, expired, table, creds>>
  BY DEF SnapshotStore, WriteFile, storeVars, runVars
<1>3. DroppedAreExpired'
  BY <1>2 DEF SavesInvariant, DroppedAreExpired
<1>4. handler' \in [Requests -> Positions]
  BY <1>2 DEF SavesInvariant, SavesState
<1>5. CASE SnapshotStore(a)
  <2>1. /\ saves[a].at = "asked" /\ saveOrder' = Append(saveOrder, a)
        /\ saves' = [saves EXCEPT ![a] = [at |-> "taken",
                                          tokens |-> table \ expired]]
        /\ behind' \in BOOLEAN
    BY <1>5 DEF SnapshotStore, SavesInvariant, SavesState
  <2>2. /\ saveOrder' \in Seq(Actors) /\ saveOrder' # <<>>
        /\ Len(saveOrder') = n + 1
        /\ \A i \in 1..n : saveOrder'[i] = saveOrder[i]
        /\ saveOrder'[n + 1] = a
    BY <1>1, <2>1, AppendProperties
  <2>3. saves'[a].at = "taken" /\ saves'[a].tokens = table \ expired
        /\ \A b \in Actors : b # a => saves'[b] = saves[b]
    BY <1>1, <2>1
  <2>4. saves' \in [Actors -> [at : {"none", "asked", "taken"},
                               tokens : SUBSET Tokens]]
    <3>1. table \ expired \subseteq Tokens
      OBVIOUS
    <3> QED
      BY <1>1, <2>1, <3>1
  <2>5. \A i \in 1..n : saveOrder[i] # a
    BY <1>1, <2>1 DEF OrderOfTaken
  <2>6. OrderOfTaken'
    <3> HIDE DEF n
    <3>1. \A i \in 1..(n + 1) : i \in 1..n \/ i = n + 1
      BY <1>1
    <3>2. \A i, j \in 1..(n + 1) : saveOrder'[i] = saveOrder'[j] => i = j
      BY <1>1, <2>2, <2>5, <3>1 DEF OrderOfTaken, n
    <3>3. \A i \in 1..(n + 1) : saves'[saveOrder'[i]].at = "taken"
      BY <1>1, <2>2, <2>3, <2>5, <3>1 DEF OrderOfTaken, n
    <3> QED
      BY <2>2, <3>2, <3>3 DEF OrderOfTaken
  <2>7. LastIsValid'
    BY <1>2, <2>2, <2>3 DEF LastIsValid
  <2> QED
    BY <1>3, <1>4, <2>1, <2>2, <2>4, <2>6, <2>7 DEF SavesInvariant, SavesState
<1>6. CASE WriteFile(a)
  <2>1. /\ saves[a].at = "taken"
        /\ saves' = [saves EXCEPT ![a] = [at |-> "none", tokens |-> {}]]
    BY <1>6 DEF WriteFile, NoSave
  <2>2. /\ saves'[a].at = "none"
        /\ \A b \in Actors : b # a => saves'[b] = saves[b]
        /\ saves' \in [Actors -> [at : {"none", "asked", "taken"},
                                  tokens : SUBSET Tokens]]
    BY <1>1, <2>1
  <2>3. (\A b \in Actors : saves'[b].at # "asked")
            => \A b \in Actors : saves[b].at # "asked"
    BY <2>1, <2>2
  <2>4. CASE \A i \in 1..n : saveOrder[i] # a
    <3>1. saveOrder' = saveOrder /\ behind' = TRUE
      BY <1>1, <1>6, <2>4 DEF WriteFile
    <3>2. OrderOfTaken'
      BY <1>1, <2>2, <2>4, <3>1 DEF OrderOfTaken
    <3>3. LastIsValid'
      <4>1. CASE saveOrder = <<>>
        BY <3>1, <4>1 DEF LastIsValid
      <4>2. CASE saveOrder # <<>>
        <5>1. n \in 1..n
          BY <1>1, <4>2
        <5>2. saves'[saveOrder[n]] = saves[saveOrder[n]]
          BY <1>1, <2>2, <2>4, <5>1
        <5> QED
          BY <1>2, <2>3, <3>1, <4>2, <5>2 DEF SavesInvariant, LastIsValid
      <4> QED
        BY <4>1, <4>2
    <3> QED
      BY <1>1, <1>3, <1>4, <2>2, <3>1, <3>2, <3>3 DEF SavesInvariant, SavesState
  <2>5. ASSUME NEW i \in 1..n, saveOrder[i] = a PROVE SavesInvariant'
    <3>1. /\ saveOrder' = Newer(a)
          /\ \/ /\ sessionFile' = [fingerprint |-> creds, tokens |-> saves[a].tokens]
                /\ behind' = FALSE
             \/ behind' = TRUE
      BY <1>1, <1>6, <2>5 DEF WriteFile
    <3>2. /\ saveOrder' \in Seq(Actors) /\ Len(saveOrder') = n - i
          /\ \A j \in 1..Len(saveOrder') : saveOrder'[j] = saveOrder[j + i]
      BY <2>5, <3>1, NewerIsTheRest
    <3> HIDE DEF n
    <3>3. \A j \in 1..Len(saveOrder') : j + i \in 1..n /\ j + i # i
      BY <1>1, <3>2
    <3>4. OrderOfTaken'
      <4>1. ASSUME NEW j \in 1..Len(saveOrder'), NEW k \in 1..Len(saveOrder'),
                   saveOrder'[j] = saveOrder'[k]
            PROVE  j = k
        <5>1. j + i = k + i
          BY <1>1, <3>2, <3>3, <4>1 DEF OrderOfTaken, n
        <5>2. Len(saveOrder') \in Nat
          BY <3>2
        <5> QED
          BY <1>1, <5>1, <5>2
      <4>2. ASSUME NEW j \in 1..Len(saveOrder')
            PROVE  saves'[saveOrder'[j]].at = "taken"
        <5>1. /\ saveOrder'[j] = saveOrder[j + i] /\ j + i \in 1..n
              /\ saveOrder[j + i] # a
          BY <1>1, <2>5, <3>2, <3>3 DEF OrderOfTaken, n
        <5> QED
          BY <1>1, <2>2, <5>1 DEF OrderOfTaken, n
      <4> QED
        BY <4>1, <4>2 DEF OrderOfTaken
    <3>5. LastIsValid'
      <4> SUFFICES ASSUME \A b \in Actors : saves'[b].at # "asked"
                   PROVE  IF saveOrder' = <<>>
                          THEN behind' \/ Restored(creds)' = table' \ expired'
                          ELSE saves'[saveOrder'[Len(saveOrder')]].tokens \ expired'
                                   = table' \ expired'
        BY DEF LastIsValid
      <4>1. saves[saveOrder[n]].tokens \ expired = table \ expired
        <5>1. saveOrder # <<>>
          BY <1>1, <2>5 DEF n
        <5> QED
          BY <2>3, <5>1 DEF SavesInvariant, LastIsValid, n
      <4>2. CASE saveOrder' = <<>>
        <5>1. i = n
          BY <1>1, <3>2, <4>2
        <5>2. saves[a].tokens \ expired = table \ expired
          BY <2>5, <4>1, <5>1
        <5>3. CASE behind' = TRUE
          BY <4>2, <5>3
        <5>4. CASE sessionFile' = [fingerprint |-> creds, tokens |-> saves[a].tokens]
          <6>1. Restored(creds)' = saves[a].tokens \ expired
            BY <1>2, <5>4 DEF Restored
          <6> QED
            BY <1>2, <4>2, <5>2, <6>1
        <5> QED
          BY <3>1, <5>3, <5>4
      <4>3. CASE saveOrder' # <<>>
        <5>1. Len(saveOrder') \in 1..Len(saveOrder') /\ Len(saveOrder') + i = n
          <6>1. Len(saveOrder') \in Nat /\ Len(saveOrder') # 0
            BY <3>2, <4>3
          <6> QED
            BY <1>1, <3>2, <6>1
        <5>2. saveOrder'[Len(saveOrder')] = saveOrder[n]
          BY <3>2, <5>1
        <5>3. saveOrder[n] # a /\ saveOrder[n] \in Actors
          BY <1>1, <2>5, <3>3, <5>1 DEF OrderOfTaken, n
        <5> QED
          BY <1>2, <2>2, <4>1, <4>3, <5>2, <5>3
      <4> QED
        BY <4>2, <4>3
    <3>6. behind' \in BOOLEAN
      BY <3>1
    <3> QED
      BY <1>3, <1>4, <2>2, <3>2, <3>4, <3>5, <3>6 DEF SavesInvariant, SavesState
  <2> QED
    BY <2>4, <2>5
<1> QED
  BY <1>5, <1>6

\* Every step keeps it.
LEMMA SavesPreserve ==
    SessionsInvariant /\ SavesInvariant /\ [SessionsNext]_sessionVars
        => SavesInvariant'
<1> SUFFICES ASSUME SessionsInvariant, SavesInvariant, [SessionsNext]_sessionVars
             PROVE  SavesInvariant'
  OBVIOUS
<1>1. /\ SavesState /\ DroppedAreExpired /\ table \subseteq Tokens
      /\ handler \in [Requests -> Positions]
  BY DEF SavesInvariant, SavesState, SessionsInvariant, SessionsShape
<1>2. ASSUME NEW a \in Actors, SnapshotStore(a) \/ WriteFile(a)
      PROVE  SavesInvariant'
  BY <1>1, <1>2, SavingPreserves
<1>3. ASSUME NEW r \in Requests, Issue(r) \/ Revoke(r) PROVE SavesInvariant'
  <2>1. r \in Actors /\ saves[r].at = "none" /\ AskSave(r)
        /\ UNCHANGED <<saveOrder, behind, handler, expired>>
    BY <1>3 DEF Issue, Revoke, HandlerAt, Actors, saveVars, runVars
  <2> QED
    BY <2>1, AskingPreserves
<1>4. ASSUME NEW r \in Requests, Verify(r) PROVE SavesInvariant'
  <2>1. PICK t \in table \cap expired :
           handler' = [handler EXCEPT ![r] = [at |-> "drop", token |-> t]]
    BY <1>4 DEF Verify, HandlerTo
  <2>2. UNCHANGED <<table, expired, saves, saveOrder, behind, sessionFile, creds>>
    BY <1>4 DEF Verify, storeVars, saveVars, runVars
  <2>3. [at |-> "drop", token |-> t] \in Positions
    BY <1>1, <2>1 DEF Positions
  <2>4. handler' \in [Requests -> Positions]
        /\ \A q \in Requests : handler'[q] = IF q = r THEN [at |-> "drop", token |-> t]
                                             ELSE handler[q]
    BY <1>1, <2>1, <2>3
  <2>5. SavesState'
    BY <1>1, <2>2, <2>4 DEF SavesState
  <2>6. DroppedAreExpired'
    BY <1>1, <2>1, <2>2, <2>4 DEF DroppedAreExpired
  <2> QED
    BY <2>2, <2>5, <2>6, QuietPreserves
<1>5. ASSUME NEW r \in Requests, VerifyDrop(r) PROVE SavesInvariant'
  <2>1. /\ handler[r].at = "drop" /\ table' = table \ {handler[r].token}
        /\ handler' = [handler EXCEPT ![r] = [at |-> "idle", token |-> "none"]]
        /\ UNCHANGED <<expired, saves, saveOrder, behind, sessionFile, creds>>
    BY <1>5 DEF VerifyDrop, HandlerAt, Finished, Idle, saveVars, runVars
  <2>2. table' \ expired' = table \ expired'
    BY <1>1, <2>1 DEF DroppedAreExpired
  <2>3. [at |-> "idle", token |-> "none"] \in Positions
    BY DEF Positions
  <2>4. handler' \in [Requests -> Positions]
        /\ \A q \in Requests : handler'[q] = IF q = r
                                             THEN [at |-> "idle", token |-> "none"]
                                             ELSE handler[q]
    BY <1>1, <2>1, <2>3
  <2>5. SavesState'
    BY <1>1, <2>1, <2>4 DEF SavesState
  <2>6. DroppedAreExpired'
    BY <1>1, <2>1, <2>4 DEF DroppedAreExpired
  <2> QED
    BY <2>1, <2>2, <2>5, <2>6, QuietPreserves
<1>6. ASSUME NEW t \in Tokens, Expire(t) PROVE SavesInvariant'
  <2>1. /\ expired' = expired \cup {t}
        /\ UNCHANGED <<table, handler, saves, saveOrder, behind, sessionFile, creds>>
    BY <1>6 DEF Expire, saveVars, runVars
  <2>2. SavesState'
    BY <1>1, <2>1 DEF SavesState
  <2>3. DroppedAreExpired'
    BY <1>1, <2>1 DEF DroppedAreExpired
  <2> QED
    BY <2>1, <2>2, <2>3, QuietPreserves
<1>7. ASSUME NEW t \in Tokens, TimerFires(t) PROVE SavesInvariant'
  <2>1. /\ t \in Actors /\ t \in expired /\ saves[t].at = "none"
        /\ table' = table \ {t}
        /\ AskSave(t) \/ UNCHANGED saves
        /\ UNCHANGED <<expired, saveOrder, behind, handler, sessionFile, creds>>
    BY <1>7 DEF TimerFires, Actors, runVars
  <2>2. CASE AskSave(t)
    BY <1>1, <2>1, <2>2, AskingPreserves
  <2>3. CASE UNCHANGED saves
    <3>1. SavesState'
      BY <1>1, <2>1, <2>3 DEF SavesState
    <3>2. DroppedAreExpired'
      BY <1>1, <2>1 DEF DroppedAreExpired
    <3>3. expired \subseteq expired' /\ table' \ expired' = table \ expired'
      BY <2>1
    <3> QED
      BY <2>1, <2>3, <3>1, <3>2, <3>3, QuietPreserves
  <2> QED
    BY <2>1, <2>2, <2>3
<1>8. CASE Restart
  <2>1. /\ table' = Restored(creds') /\ saveOrder' = <<>> /\ behind' = FALSE
        /\ UNCHANGED <<expired, sessionFile>>
        /\ saves' = [a \in Actors |-> [at |-> "none", tokens |-> {}]]
        /\ handler' = [r \in Requests |-> [at |-> "idle", token |-> "none"]]
    BY <1>8 DEF Restart, NoSave, Idle
  <2>2. Restored(creds)' = table' /\ table' \ expired' = table'
    BY <2>1 DEF Restored
  <2>3. LastIsValid'
    BY <2>1, <2>2 DEF LastIsValid
  <2>4. /\ [at |-> "idle", token |-> "none"] \in Positions
        /\ [at |-> "none", tokens |-> {}] \in [at : {"none", "asked", "taken"},
                                               tokens : SUBSET Tokens]
    BY DEF Positions
  <2>5. handler' \in [Requests -> Positions]
        /\ saves' \in [Actors -> [at : {"none", "asked", "taken"},
                                  tokens : SUBSET Tokens]]
    BY <2>1, <2>4
  <2>8. saveOrder' \in Seq(Actors) /\ behind' \in BOOLEAN
    BY <2>1, EmptySeq
  <2>6. SavesState'
    BY <2>5, <2>8 DEF SavesState
  <2>7. DroppedAreExpired' /\ OrderOfTaken'
    BY <2>1 DEF DroppedAreExpired, OrderOfTaken
  <2> QED
    BY <2>3, <2>6, <2>7 DEF SavesInvariant
<1>9. CASE UNCHANGED sessionVars
  <2>1. /\ UNCHANGED <<saves, saveOrder, behind, sessionFile, creds>>
        /\ UNCHANGED <<expired, table, handler>>
    BY <1>9 DEF sessionVars, storeVars, saveVars, runVars
  <2>2. SavesState' /\ DroppedAreExpired'
    BY <1>1, <2>1 DEF SavesState, DroppedAreExpired
  <2> QED
    BY <2>1, <2>2, QuietPreserves
<1> QED
  BY <1>2, <1>3, <1>4, <1>5, <1>6, <1>7, <1>8, <1>9 DEF SessionsNext

\* When no save is under way and the file did not fall behind, a restart would
\* restore exactly the sessions that are valid, for any number of requests and
\* tokens and every order of their saves (save, load, scheduleExpiry).
THEOREM RestartKeepsSessionsAlways == SessionsSpec => []RestartKeepsSessions
<1>1. SavesInvariant => RestartKeepsSessions
  <2> SUFFICES ASSUME SavesInvariant, ~behind, \A a \in Actors : saves[a].at = "none"
               PROVE  Restored(creds) = table \ expired
    BY DEF RestartKeepsSessions
  <2>1. saveOrder = <<>>
    <3> SUFFICES ASSUME saveOrder # <<>> PROVE FALSE
      OBVIOUS
    <3>1. saveOrder \in Seq(Actors) /\ Len(saveOrder) \in 1..Len(saveOrder)
      BY DEF SavesInvariant, SavesState
    <3>2. saveOrder[Len(saveOrder)] \in Actors
      BY <3>1
    <3> QED
      BY <3>1, <3>2 DEF SavesInvariant, OrderOfTaken
  <2> QED
    BY <2>1 DEF SavesInvariant, LastIsValid
<1> QED
  BY <1>1, SessionsInitially, SessionsPreserve, SavesInitially, SavesPreserve,
     PTL DEF SessionsSpec

\* The rest of the types of the sessions.
SessionsRest ==
    /\ expired \subseteq Tokens /\ timers \subseteq Tokens
    /\ restarts \in 0..MaxRestarts

\* At the start of the program no token has expired.
LEMMA SessionsRestInitially == SessionsInit => SessionsRest
BY SessionsAssumption DEF SessionsInit, SessionsRest, SessionsAssumption

\* Every step keeps it; a restart makes timers for the tokens it restores.
LEMMA SessionsRestPreserves ==
    SessionsShape /\ SessionsRest /\ [SessionsNext]_sessionVars => SessionsRest'
<1> SUFFICES ASSUME SessionsShape, SessionsRest, [SessionsNext]_sessionVars
             PROVE  SessionsRest'
  OBVIOUS
<1> USE DEF SessionsRest, storeVars, saveVars, runVars
<1>1. ASSUME NEW a \in Actors, SnapshotStore(a) \/ WriteFile(a) PROVE SessionsRest'
  BY <1>1 DEF SnapshotStore, WriteFile
<1>2. ASSUME NEW r \in Requests, Issue(r) PROVE SessionsRest'
  BY <1>2 DEF Issue
<1>3. ASSUME NEW r \in Requests, Revoke(r) \/ Verify(r) \/ VerifyDrop(r)
      PROVE  SessionsRest'
  BY <1>3 DEF Revoke, Verify, VerifyDrop
<1>4. ASSUME NEW t \in Tokens, Expire(t) \/ TimerFires(t) PROVE SessionsRest'
  BY <1>4 DEF Expire, TimerFires
<1>5. CASE Restart
  <2>1. Restored(creds') \subseteq Tokens
    BY DEF Restored, SessionsShape
  <2>2. restarts' \in 0..MaxRestarts
    BY <1>5, SessionsAssumption DEF Restart, SessionsAssumption
  <2> QED
    BY <1>5, <2>1, <2>2 DEF Restart
<1>6. CASE UNCHANGED sessionVars
  BY <1>6 DEF sessionVars
<1> QED
  BY <1>1, <1>2, <1>3, <1>4, <1>5, <1>6 DEF SessionsNext

\* Each save in the order is there once.
LEMMA SessionsAreTyped ==
    SessionsInvariant /\ SavesInvariant /\ SessionsRest => SessionsTypeOK
<1> SUFFICES ASSUME SessionsInvariant, SavesInvariant, SessionsRest
             PROVE  SessionsTypeOK
  OBVIOUS
<1>1. DOMAIN saveOrder = 1..Len(saveOrder)
  BY DEF SavesInvariant, SavesState
<1> QED
  BY <1>1 DEF SessionsTypeOK, SessionsInvariant, SavesInvariant, SessionsRest,
     SessionsShape, SavesState, OrderOfTaken, Positions

\* The type invariant of the sessions, among it that the saves that were taken
\* stand in their order once each, however many are under way.
THEOREM SessionsTypeCorrect == SessionsSpec => []SessionsTypeOK
<1>1. SessionsInvariant => SessionsShape
  BY DEF SessionsInvariant
<1> QED
  BY <1>1, SessionsInitially, SessionsPreserve, SavesInitially, SavesPreserve,
     SessionsRestInitially, SessionsRestPreserves, SessionsAreTyped, PTL DEF SessionsSpec

-----------------------------------------------------------------------------
(* LoginThrottle.                                                          *)

ThrottleSpec == ThrottleInit /\ [][ThrottleNext]_throttleVars

\* Requests that counted a threshold or a success and have yet to act on it:
\* each may hold back one lock.
Pending == {r \in Logins : login[r] \in {"failed", "lift"}}

\* Requests that are not between the check of the lock and the count.
Away == {r \in Logins : login[r] # "compare"}

Count == failCnt % MaxAttempts

\* The part of the type invariant the proof needs.
ThrottleShape ==
    /\ failCnt \in Nat /\ guesses \in Nat /\ locked \in BOOLEAN
    /\ login \in [Logins -> {"idle", "compare", "failed", "lift"}]

\* While nothing is locked, each threshold that was passed is held back by a
\* request of its own.  Once locked, only those can fail that had passed the
\* check before, and each of them stops being one as it counts.
HeldBack ==
    /\ ~locked => guesses <= Count + MaxAttempts * Cardinality(Pending)
    /\ guesses <= Count + MaxAttempts * Cardinality(Away)

ThrottleInvariant == ThrottleShape /\ HeldBack /\ LoginsAreThrottled

-----------------------------------------------------------------------------
(* Arithmetic.                                                             *)

\* Products of naturals grow with a factor.
LEMMA ProductGrows ==
    ASSUME NEW m \in Nat, NEW a \in Nat, NEW b \in Nat, a <= b
    PROVE  m * a \in Nat /\ m * a <= m * b /\ m * (a + 1) = m * a + m
<1>1. PICK d \in Nat : b = a + d
  <2>1. b - a \in Nat /\ b = a + (b - a)
    OBVIOUS
  <2> QED
    BY <2>1
<1>2. m * d \in Nat /\ m * b = m * a + m * d /\ m * a \in Nat
  BY <1>1
<1> QED
  BY <1>1, <1>2

\* The counter modulo the threshold goes up by one, or wraps.
LEMMA ModuloOfNext ==
    ASSUME NEW n \in Nat, NEW m \in Nat \ {0}
    PROVE  /\ n % m \in 0..(m - 1)
           /\ (n + 1) % m = 0 => n % m = m - 1
           /\ (n + 1) % m # 0 => (n + 1) % m = (n % m) + 1
           /\ (n + 1) % m \in 0..(m - 1)
<1> DEFINE q == n \div m
           r == n % m
           p == (n + 1) \div m
           s == (n + 1) % m
<1>1. /\ q \in Int /\ r \in 0..(m - 1) /\ n = m * q + r
      /\ p \in Int /\ s \in 0..(m - 1) /\ n + 1 = m * p + s
  OBVIOUS
<1> HIDE DEF q, r, p, s
<1>2. m * (p - q) = r + 1 - s
  BY <1>1
<1>3. p - q \in Int /\ p - q > -1
  <2>1. r + 1 - s > -m
    BY <1>1
  <2>2. ASSUME p - q <= -1 PROVE FALSE
    <3>1. PICK d \in Nat : p - q = -1 - d
      <4>1. q - p - 1 \in Nat /\ p - q = -1 - (q - p - 1)
        BY <1>1, <2>2
      <4> QED
        BY <4>1
    <3>2. m * (-1 - d) = -m - m * d /\ m * d \in Nat
      OBVIOUS
    <3> QED
      BY <1>1, <1>2, <2>1, <3>1, <3>2
  <2> QED
    BY <1>1, <2>2
<1>4. p - q < 2
  <2>1. r + 1 - s <= m
    BY <1>1
  <2>2. ASSUME p - q >= 2 PROVE FALSE
    <3>1. PICK d \in Nat : p - q = 2 + d
      <4>1. p - q - 2 \in Nat /\ p - q = 2 + (p - q - 2)
        BY <1>1, <2>2
      <4> QED
        BY <4>1
    <3>2. m * (2 + d) = 2 * m + m * d /\ m * d \in Nat
      OBVIOUS
    <3> QED
      BY <1>2, <2>1, <3>1, <3>2
  <2> QED
    BY <1>1, <2>2
<1>5. p - q = 0 \/ p - q = 1
  BY <1>3, <1>4
<1>6. CASE p - q = 0
  BY <1>1, <1>2, <1>6 DEF r, s
<1>7. CASE p - q = 1
  <2>1. m = r + 1 - s
    BY <1>2, <1>7
  <2> QED
    BY <1>1, <2>1 DEF r, s
<1> QED
  BY <1>5, <1>6, <1>7

-----------------------------------------------------------------------------
(* Counting.                                                               *)

CountsAreOrdered ==
    /\ IsFiniteSet(Pending) /\ IsFiniteSet(Away) /\ IsFiniteSet(Logins)
    /\ Cardinality(Pending) \in Nat /\ Cardinality(Away) \in Nat
    /\ Cardinality(Logins) \in Nat
    /\ Cardinality(Pending) <= Cardinality(Away)
    /\ Cardinality(Away) <= Cardinality(Logins)

\* The sets of requests are finite, and those that hold a lock back are away.
LEMMA CountsOfRequests == CountsAreOrdered
<1>1. IsFiniteSet(Logins)
  BY ThrottleAssumption DEF ThrottleAssumption
<1>2. Pending \subseteq Away /\ Away \subseteq Logins
  BY DEF Pending, Away
<1>3. IsFiniteSet(Away) /\ Cardinality(Away) <= Cardinality(Logins)
  BY <1>1, <1>2, FS_Subset
<1>4. IsFiniteSet(Pending) /\ Cardinality(Pending) <= Cardinality(Away)
  BY <1>2, <1>3, FS_Subset
<1> QED
  BY <1>1, <1>3, <1>4, FS_CardinalityType DEF CountsAreOrdered

\* A request that leaves the comparison is one more that is away, and perhaps
\* one more that holds a lock back.
LEMMA LeavesComparison ==
    ASSUME ThrottleShape, NEW r \in Logins, NEW q \in {"idle", "failed", "lift"},
           LoginFromTo(r, "compare", q)
    PROVE  /\ Cardinality(Away)' = Cardinality(Away) + 1
           /\ Cardinality(Away) + 1 <= Cardinality(Logins)
           /\ Cardinality(Pending)' =
                  Cardinality(Pending) + (IF q = "idle" THEN 0 ELSE 1)
<1>1. login[r] = "compare" /\ login' = [login EXCEPT ![r] = q]
  BY DEF LoginFromTo
<1>2. Away' = Away \cup {r} /\ r \notin Away /\ Away' \subseteq Logins
  BY <1>1 DEF Away, ThrottleShape
<1>3. Cardinality(Away)' = Cardinality(Away) + 1
  BY <1>2, CountsOfRequests, FS_AddElement DEF CountsAreOrdered
<1>4. Cardinality(Away)' <= Cardinality(Logins)
  BY <1>2, CountsOfRequests, FS_Subset DEF CountsAreOrdered
<1>5. r \notin Pending
  BY <1>1 DEF Pending
<1>6. CASE q = "idle"
  <2>1. Pending' = Pending
    BY <1>1, <1>6 DEF Pending, ThrottleShape
  <2> QED
    BY <1>3, <1>4, <1>6, <2>1, CountsOfRequests DEF CountsAreOrdered
<1>7. CASE q # "idle"
  <2>1. Pending' = Pending \cup {r}
    BY <1>1, <1>7 DEF Pending, ThrottleShape
  <2>2. Cardinality(Pending)' = Cardinality(Pending) + 1
    BY <1>5, <2>1, CountsOfRequests, FS_AddElement DEF CountsAreOrdered
  <2> QED
    BY <1>3, <1>4, <1>7, <2>2
<1> QED
  BY <1>6, <1>7

-----------------------------------------------------------------------------
\* Every start of the program satisfies the invariant.
LEMMA ThrottleInitially == ThrottleInit => ThrottleInvariant
<1> SUFFICES ASSUME ThrottleInit PROVE ThrottleInvariant
  OBVIOUS
<1>1. ThrottleShape /\ guesses = 0 /\ failCnt = 0
  BY DEF ThrottleInit, ThrottleShape
<1>2. Count \in Nat
  BY <1>1, ModuloOfNext, ThrottleAssumption DEF ThrottleAssumption, Count
<1>3. \A a \in Nat : MaxAttempts * a \in Nat
  BY ProductGrows, ThrottleAssumption DEF ThrottleAssumption
<1> QED
  BY <1>1, <1>2, <1>3, CountsOfRequests
  DEF CountsAreOrdered, ThrottleInvariant, HeldBack, LoginsAreThrottled

\* Every step of every request keeps the invariant.
LEMMA ThrottlePreserves ==
    ThrottleInvariant /\ [ThrottleNext]_throttleVars => ThrottleInvariant'
<1> SUFFICES ASSUME ThrottleInvariant, [ThrottleNext]_throttleVars
             PROVE  ThrottleInvariant'
  OBVIOUS
<1> DEFINE m == MaxAttempts
           P == Cardinality(Pending)
           A == Cardinality(Away)
           N == Cardinality(Logins)
<1>1. /\ m \in Nat \ {0}
      /\ P \in Nat /\ A \in Nat /\ N \in Nat /\ P <= A /\ A <= N
  BY CountsOfRequests, ThrottleAssumption DEF ThrottleAssumption, CountsAreOrdered
<1>2. /\ Count \in 0..(m - 1)
      /\ (failCnt + 1) % m = 0 => Count = m - 1
      /\ (failCnt + 1) % m # 0 => (failCnt + 1) % m = Count + 1
  BY <1>1, ModuloOfNext DEF Count, ThrottleInvariant, ThrottleShape
<1>3. /\ m * P \in Nat /\ m * A \in Nat /\ m * N \in Nat
      /\ m * P <= m * A /\ m * A <= m * N
      /\ m * (P + 1) = m * P + m /\ m * (A + 1) = m * A + m
  BY <1>1, ProductGrows
<1>4. /\ failCnt \in Nat /\ guesses \in Nat /\ locked \in BOOLEAN
      /\ login \in [Logins -> {"idle", "compare", "failed", "lift"}]
      /\ ~locked => guesses <= Count + m * P
      /\ guesses <= Count + m * A
      /\ guesses <= m * N
  BY DEF ThrottleInvariant, ThrottleShape, HeldBack, LoginsAreThrottled
\* The failures since the last lock are forgotten.
<1>5. ASSUME ThrottleShape', guesses' = 0 PROVE ThrottleInvariant'
  <2>1. Count' \in Nat
    <3>1. failCnt' \in Nat /\ Count' = failCnt' % m
      BY <1>5 DEF Count, ThrottleShape
    <3>2. \A n \in Nat : n % m \in 0..(m - 1)
      BY <1>1, ModuloOfNext
    <3>3. Count' \in 0..(m - 1)
      BY <3>1, <3>2
    <3> QED
      BY <1>1, <3>3
  <2>2. /\ m * P' \in Nat /\ m * A' \in Nat
    <3>1. P' \in Nat /\ A' \in Nat
      <4>1. CountsAreOrdered'
        BY CountsOfRequests, PTL
      <4> QED
        BY <4>1 DEF CountsAreOrdered
    <3> QED
      BY <1>1, <3>1, ProductGrows
  <2> QED
    BY <1>3, <1>5, <2>1, <2>2
    DEF ThrottleInvariant, HeldBack, LoginsAreThrottled
<1>6. ASSUME NEW r \in Logins, CheckLocked(r) PROVE ThrottleInvariant'
  <2>1. /\ ~locked /\ locked' = locked
        /\ failCnt' = failCnt /\ guesses' = guesses
        /\ login[r] = "idle" /\ login' = [login EXCEPT ![r] = "compare"]
    BY <1>6 DEF CheckLocked, LoginFromTo
  <2>2. ThrottleShape'
    BY <1>4, <2>1 DEF ThrottleShape
  <2>3. Pending' = Pending
    BY <1>4, <2>1 DEF Pending
  <2>4. A' \in Nat /\ P' <= A'
    <3>1. CountsAreOrdered'
      BY CountsOfRequests, PTL
    <3> QED
      BY <3>1 DEF CountsAreOrdered
  <2>5. m * P <= m * A' /\ m * A' \in Nat
    BY <1>1, <2>3, <2>4, ProductGrows
  <2>6. Count' = Count
    BY <2>1 DEF Count
  <2> QED
    BY <1>2, <1>3, <1>4, <2>1, <2>2, <2>3, <2>5, <2>6
    DEF ThrottleInvariant, HeldBack, LoginsAreThrottled
<1>7. ASSUME NEW r \in Logins, RecordLoginFailure(r) PROVE ThrottleInvariant'
  <2> DEFINE q == IF (failCnt + 1) % m = 0 THEN "failed" ELSE "idle"
  <2>1. /\ LoginFromTo(r, "compare", q)
        /\ failCnt' = failCnt + 1 /\ guesses' = guesses + 1
        /\ UNCHANGED locked
    BY <1>7 DEF RecordLoginFailure
  <2>2. ThrottleShape'
    BY <1>4, <2>1 DEF ThrottleShape, LoginFromTo
  <2>3. /\ A' = A + 1 /\ A + 1 <= N
        /\ P' = P + (IF q = "idle" THEN 0 ELSE 1)
    BY <2>1, LeavesComparison DEF ThrottleInvariant
  <2>4. Count' = (failCnt + 1) % m
    BY <2>1 DEF Count
  <2>5. m * (A + 1) <= m * N
    BY <1>1, <2>3, ProductGrows
  <2>6. /\ guesses' <= m * N
        /\ guesses' <= Count' + m * A'
    <3>1. guesses' <= m * (A + 1)
      BY <1>1, <1>2, <1>3, <1>4, <2>1
    <3>2. CASE (failCnt + 1) % m = 0
      BY <1>1, <1>3, <1>4, <2>1, <2>3, <2>4, <2>5, <3>1, <3>2
    <3>3. CASE (failCnt + 1) % m # 0
      BY <1>1, <1>2, <1>3, <1>4, <2>1, <2>3, <2>4, <2>5, <3>1, <3>3
    <3> QED
      BY <3>2, <3>3
  <2>7. ~locked' => guesses' <= Count' + m * P'
    <3>1. CASE (failCnt + 1) % m = 0
      <4>1. P' = P + 1
        BY <2>3, <3>1
      <4> QED
        BY <1>1, <1>2, <1>3, <1>4, <2>1, <2>4, <3>1, <4>1
    <3>2. CASE (failCnt + 1) % m # 0
      <4>1. P' = P
        BY <1>1, <2>3, <3>2
      <4> QED
        BY <1>2, <1>3, <1>4, <2>1, <2>4, <3>2, <4>1
    <3> QED
      BY <3>1, <3>2
  <2> QED
    BY <2>2, <2>6, <2>7 DEF ThrottleInvariant, HeldBack, LoginsAreThrottled
<1>8. ASSUME NEW r \in Logins, Lock(r) PROVE ThrottleInvariant'
  <2>1. /\ locked' = TRUE /\ failCnt' = failCnt /\ guesses' = guesses
        /\ login[r] = "failed" /\ login' = [login EXCEPT ![r] = "idle"]
    BY <1>8 DEF Lock, LoginFromTo
  <2>2. ThrottleShape'
    BY <1>4, <2>1 DEF ThrottleShape
  <2>3. Away' = Away
    BY <1>4, <2>1 DEF Away
  <2>4. Count' = Count
    BY <2>1 DEF Count
  <2> QED
    BY <1>4, <2>1, <2>2, <2>3, <2>4
    DEF ThrottleInvariant, HeldBack, LoginsAreThrottled
<1>9. ASSUME NEW r \in Logins, ResetCount(r) PROVE ThrottleInvariant'
  <2>1. /\ LoginFromTo(r, "compare", "lift") /\ failCnt' = 0
        /\ UNCHANGED <<locked, guesses>>
    BY <1>9 DEF ResetCount
  <2>2. ThrottleShape'
    BY <1>4, <2>1 DEF ThrottleShape, LoginFromTo
  <2>3. A' = A + 1 /\ P' = P + 1
    BY <2>1, LeavesComparison DEF ThrottleInvariant
  <2>4. Count' \in Nat
    BY <1>1, <2>1, ModuloOfNext DEF Count
  <2> QED
    BY <1>1, <1>2, <1>3, <1>4, <2>1, <2>2, <2>3, <2>4
    DEF ThrottleInvariant, HeldBack, LoginsAreThrottled
<1>10. ASSUME NEW r \in Logins, LiftLock(r) PROVE ThrottleInvariant'
  <2>1. ThrottleShape'
    BY <1>4, <1>10 DEF LiftLock, LoginFromTo, ThrottleShape
  <2> QED
    BY <1>5, <1>10, <2>1 DEF LiftLock
<1>11. CASE LockEnds
  <2>1. ThrottleShape'
    BY <1>4, <1>11 DEF LockEnds, ThrottleShape
  <2> QED
    BY <1>5, <1>11, <2>1 DEF LockEnds
<1>12. CASE UNCHANGED throttleVars
  BY <1>12 DEF throttleVars, ThrottleInvariant, ThrottleShape, HeldBack,
               LoginsAreThrottled, Count, Pending, Away
<1> QED
  BY <1>6, <1>7, <1>8, <1>9, <1>10, <1>11, <1>12 DEF ThrottleNext

\* For any threshold and any number of simultaneous requests, between two locks
\* at most the threshold times that number of logins fail: counting and locking
\* in two steps holds locks back, but never loses the throttling
\* (handleLogin, RecordLoginFailure).
THEOREM ThrottledAlways == ThrottleSpec => []LoginsAreThrottled
<1>1. ThrottleInvariant => LoginsAreThrottled
  BY DEF ThrottleInvariant
<1> QED
  BY <1>1, ThrottleInitially, ThrottlePreserves, PTL DEF ThrottleSpec

\* A login that is not compared any more was counted as one: failures and guesses
\* are at most the logins that are through.
Tally ==
    LET N == Cardinality(Logins)
        A == Cardinality(Away)
    IN  /\ logins \in 0..MaxLogins
        /\ failCnt + N <= logins + A /\ guesses + N <= logins + A

\* A login that begins is one fewer of those that are not at their comparison.
LEMMA AwayLoses ==
    ASSUME ThrottleInvariant, NEW r \in Logins, LoginFromTo(r, "idle", "compare")
    PROVE  Cardinality(Away) = Cardinality(Away') + 1
<1>1. /\ login \in [Logins -> {"idle", "compare", "failed", "lift"}]
      /\ login[r] = "idle" /\ login' = [login EXCEPT ![r] = "compare"]
  BY DEF LoginFromTo, ThrottleInvariant, ThrottleShape
<1>2. r \in Away /\ Away' = Away \ {r}
  BY <1>1 DEF Away
<1>3. IsFiniteSet(Away)
  <2>1. Away \in SUBSET Logins
    BY DEF Away
  <2> QED
    BY <2>1, ThrottleAssumption, FS_Subset DEF ThrottleAssumption
<1>4. Cardinality(Away \ {r}) = Cardinality(Away) - 1 /\ Cardinality(Away) \in Nat
  BY <1>2, <1>3, FS_RemoveElement, FS_CardinalityType
<1> QED
  BY <1>2, <1>4

\* At the start nobody has logged in.
LEMMA TallyInitially == ThrottleInit => Tally
<1> SUFFICES ASSUME ThrottleInit PROVE Tally
  OBVIOUS
<1>1. Away = Logins
  BY DEF ThrottleInit, Away
<1>2. Cardinality(Logins) \in Nat /\ 0 \in 0..MaxLogins
  BY CountsOfRequests, ThrottleAssumption DEF CountsAreOrdered, ThrottleAssumption
<1> QED
  BY <1>1, <1>2 DEF ThrottleInit, Tally

\* Every step keeps the tally.
LEMMA TallyPreserves ==
    ThrottleInvariant /\ Tally /\ [ThrottleNext]_throttleVars => Tally'
<1> SUFFICES ASSUME ThrottleInvariant, Tally, [ThrottleNext]_throttleVars
             PROVE  Tally'
  OBVIOUS
<1> DEFINE A == Cardinality(Away)
           N == Cardinality(Logins)
<1>1. /\ A \in Nat /\ A' \in Nat /\ N \in Nat /\ MaxLogins \in Nat
  <2>1. CountsAreOrdered'
    BY CountsOfRequests, PTL
  <2> QED
    BY <2>1, CountsOfRequests, ThrottleAssumption DEF CountsAreOrdered, ThrottleAssumption
<1>2. /\ failCnt \in Nat /\ guesses \in Nat /\ logins \in 0..MaxLogins
      /\ failCnt + N <= logins + A /\ guesses + N <= logins + A
      /\ login \in [Logins -> {"idle", "compare", "failed", "lift"}]
  BY DEF ThrottleInvariant, ThrottleShape, Tally
<1>3. ASSUME NEW r \in Logins, CheckLocked(r) PROVE Tally'
  <2>1. A = A' + 1
    BY <1>3, AwayLoses DEF CheckLocked
  <2> HIDE DEF A, N
  <2>2. /\ failCnt' = failCnt /\ guesses' = guesses /\ logins' = logins + 1
        /\ logins < MaxLogins
    BY <1>3 DEF CheckLocked
  <2>3. logins \in Int /\ 0 <= logins /\ logins' \in 0..MaxLogins
    BY <1>1, <1>2, <2>2
  <2>4. logins' + A' = logins + A
    BY <1>1, <2>1, <2>2, <2>3
  <2>5. failCnt' + N <= logins' + A' /\ guesses' + N <= logins' + A'
    BY <1>2, <2>2, <2>4
  <2> QED
    BY <2>3, <2>5 DEF Tally, A, N
<1>4. ASSUME NEW r \in Logins, RecordLoginFailure(r) PROVE Tally'
  <2>0. PICK q \in {"idle", "failed", "lift"} : LoginFromTo(r, "compare", q)
    BY <1>4 DEF RecordLoginFailure
  <2>1. A' = A + 1
    BY <2>0, LeavesComparison DEF ThrottleInvariant
  <2> HIDE DEF A, N
  <2>2. failCnt' = failCnt + 1 /\ guesses' = guesses + 1 /\ logins' = logins
    BY <1>4 DEF RecordLoginFailure
  <2>3. /\ logins' \in 0..MaxLogins /\ failCnt' + N <= logins' + A'
        /\ guesses' + N <= logins' + A'
    BY <1>1, <1>2, <2>1, <2>2
  <2> QED
    BY <2>3 DEF Tally, A, N
<1>5. ASSUME NEW r \in Logins, ResetCount(r) PROVE Tally'
  <2>0. PICK q \in {"idle", "failed", "lift"} : LoginFromTo(r, "compare", q)
    BY <1>5 DEF ResetCount
  <2>1. A' = A + 1
    BY <2>0, LeavesComparison DEF ThrottleInvariant
  <2> HIDE DEF A, N
  <2>2. failCnt' = 0 /\ guesses' = guesses /\ logins' = logins
    BY <1>5 DEF ResetCount
  <2>3. /\ logins' \in 0..MaxLogins /\ failCnt' + N <= logins' + A'
        /\ guesses' + N <= logins' + A'
    BY <1>1, <1>2, <2>1, <2>2
  <2> QED
    BY <2>3 DEF Tally, A, N
<1>6. ASSUME NEW r \in Logins, Lock(r) \/ LiftLock(r) PROVE Tally'
  <2>1. Away' = Away
    BY <1>2, <1>6 DEF Lock, LiftLock, LoginFromTo, Away
  <2>2. failCnt' = failCnt /\ guesses' \in {0, guesses} /\ logins' = logins
    BY <1>6 DEF Lock, LiftLock
  <2> QED
    BY <1>1, <1>2, <2>1, <2>2 DEF Tally
<1>7. CASE LockEnds \/ UNCHANGED throttleVars
  <2>1. Away' = Away
    BY <1>7 DEF LockEnds, throttleVars, Away
  <2>2. failCnt' = failCnt /\ guesses' \in {0, guesses} /\ logins' = logins
    BY <1>7 DEF LockEnds, throttleVars
  <2> QED
    BY <1>1, <1>2, <2>1, <2>2 DEF Tally
<1> QED
  BY <1>3, <1>4, <1>5, <1>6, <1>7 DEF ThrottleNext

\* It bounds the counts.
LEMMA ThrottleIsTyped == ThrottleInvariant /\ Tally => ThrottleTypeOK
<1> SUFFICES ASSUME ThrottleInvariant, Tally PROVE ThrottleTypeOK
  OBVIOUS
<1>1. Cardinality(Away) \in Nat /\ Cardinality(Logins) \in Nat
      /\ Cardinality(Away) <= Cardinality(Logins) /\ MaxLogins \in Nat
  BY CountsOfRequests, ThrottleAssumption DEF CountsAreOrdered, ThrottleAssumption
<1> QED
  BY <1>1 DEF ThrottleTypeOK, ThrottleInvariant, ThrottleShape, Tally

\* The type invariant of the throttle: no more failures are counted than logins
\* were made, however they are interleaved (handleLogin).
THEOREM ThrottleTypeCorrect == ThrottleSpec => []ThrottleTypeOK
BY ThrottleInitially, ThrottlePreserves, TallyInitially, TallyPreserves,
   ThrottleIsTyped, PTL DEF ThrottleSpec

-----------------------------------------------------------------------------
(* Hub.                                                                    *)

HubSpec == HubInit /\ [][HubNext]_hubVars

Readers == {"new", "read", "pong", "leave", "close", "done"}

\* The part of the type invariant the proof needs.
HubShape ==
    /\ clients \subseteq Clients /\ taken \in Nat
    /\ channel \in [Clients -> {"none", "open", "closed"}]
    /\ buffered \in [Clients -> 0..SendCap]
    /\ sent \in [Clients -> Seq(Nat)]
    /\ reader \in [Clients -> Readers]
    /\ hub \in [at : {"select", "range", "send", "kick", "stopped"},
                client : Clients \cup {"none"},
                left : SUBSET Clients, due : SUBSET Clients]

\* A client in the table has an open channel, since whoever takes it out of the
\* table closes the channel afterwards; it registered once and was handed
\* nothing before.
TableIsOpen ==
    /\ \A c \in clients : channel[c] = "open" /\ reader[c] \notin {"new", "close"}
    /\ \A c \in Clients : reader[c] = "new" => sent[c] = <<>>

\* The client at hand was taken from those not visited, and left the table
\* before it is closed.
AtHand ==
    hub.at \in {"send", "kick"} =>
        /\ hub.client \in Clients \ hub.left /\ reader[hub.client] # "new"
        /\ hub.at = "kick" => hub.client \notin clients

Ranging == hub.at \in {"range", "send", "kick"}

\* The clients the broadcast under way has yet to reach.
Behind(c) == Ranging /\ (c \in hub.left \/ (hub.at = "send" /\ c = hub.client))

\* What a client in the table was handed is a run of broadcasts that ends with
\* the present one, or the one before.
EndsRun(c, last) == \A i \in 1..Len(sent[c]) : sent[c][i] = last - Len(sent[c]) + i

RunsOfBroadcasts ==
    \A c \in clients : sent[c] = <<>> \/
        EndsRun(c, IF Behind(c) THEN taken - 1 ELSE taken)

\* Range may skip a client that came meanwhile: it has no run yet.
ComersHaveNone ==
    Ranging => \A c \in (clients \cap hub.left) \ hub.due : sent[c] = <<>>

HubInvariant == HubShape /\ TableIsOpen /\ AtHand /\ RunsOfBroadcasts /\ ComersHaveNone

\* A start of the program satisfies it: nobody is connected.
LEMMA HubInitially == HubInit => HubInvariant
<1> SUFFICES ASSUME HubInit PROVE HubInvariant
  OBVIOUS
<1>1. /\ clients = {} /\ taken = 0 /\ channel = [c \in Clients |-> "none"]
      /\ sent = [c \in Clients |-> <<>>] /\ reader = [c \in Clients |-> "new"]
      /\ hub = [at |-> "select", client |-> "none", left |-> {}, due |-> {}]
  BY DEF HubInit, Waiting
<1>2. buffered \in [Clients -> 0..SendCap]
  BY HubAssumption DEF HubInit, HubAssumption
<1>3. HubShape
  BY <1>1, <1>2 DEF HubShape, Readers
<1> QED
  BY <1>1, <1>3
  DEF HubInvariant, TableIsOpen, AtHand, RunsOfBroadcasts, ComersHaveNone, Ranging

\* Steps of others than the hub: they hand out nothing, and change of the table
\* at most that clients leave it.
Apart ==
    /\ UNCHANGED <<sent, hub, taken>> /\ clients' \subseteq clients
    /\ buffered' \in [Clients -> 0..SendCap] /\ reader' \in [Clients -> Readers]
    /\ channel' \in [Clients -> {"none", "open", "closed"}]
    /\ \A c \in Clients : reader'[c] = "new" => reader[c] = "new"
    /\ \A c \in clients' : channel'[c] = "open" /\ reader'[c] \notin {"new", "close"}

\* Such a step keeps the invariant.
LEMMA ApartPreserves == HubInvariant /\ Apart => HubInvariant'
<1> SUFFICES ASSUME HubInvariant, Apart PROVE HubInvariant'
  OBVIOUS
<1>1. HubShape' /\ TableIsOpen' /\ AtHand'
  BY DEF HubInvariant, Apart, HubShape, TableIsOpen, AtHand
<1>2. RunsOfBroadcasts' /\ ComersHaveNone'
  BY DEF HubInvariant, Apart, RunsOfBroadcasts, ComersHaveNone, EndsRun, Behind,
         Ranging
<1> QED
  BY <1>1, <1>2 DEF HubInvariant

\* What a send does to the buffers, and what it shows of the channel.
LEMMA TrySendKeeps ==
    ASSUME HubShape, NEW c \in Clients, TrySend(c)
    PROVE  /\ buffered' \in [Clients -> 0..SendCap]
           /\ buffered' = buffered =>
                  channel[c] = "closed" \/ (channel[c] = "open" /\ buffered[c] = SendCap)
           /\ buffered' # buffered => channel[c] = "open" /\ buffered[c] < SendCap
<1> USE HubAssumption DEF HubAssumption, HubShape
<1>1. CASE /\ channel[c] = "open" /\ buffered[c] < SendCap
           /\ buffered' = [buffered EXCEPT ![c] = @ + 1]
  <2>1. buffered[c] \in Nat /\ buffered'[c] = buffered[c] + 1
    BY <1>1
  <2>2. buffered' # buffered
    BY <2>1
  <2> QED
    BY <1>1, <2>2
<1>2. CASE channel[c] = "open" /\ buffered[c] = SendCap /\ buffered' = buffered
  BY <1>2
<1>3. CASE channel[c] = "closed" /\ buffered' = buffered
  BY <1>3
<1> QED
  BY <1>1, <1>2, <1>3 DEF TrySend

\* The steps of a connection.
LEMMA ConnectionPreserves ==
    ASSUME HubInvariant, NEW c \in Clients,
           \/ Register(c) \/ Ping(c) \/ Disconnect(c)
           \/ ReaderGoesOn(c) \/ WriterGoesOn(c)
    PROVE  HubInvariant'
<1> USE DEF HubInvariant, HubShape, TableIsOpen, ReaderAt, ReaderTo, Readers
<1>1. CASE Register(c)
  <2>1. /\ reader[c] = "new" /\ reader' = [reader EXCEPT ![c] = "read"]
        /\ channel' = [channel EXCEPT ![c] = "open"]
        /\ clients' = clients \cup {c}
        /\ UNCHANGED <<buffered, sent, hub, taken>>
    BY <1>1 DEF Register
  <2>2. HubShape' /\ TableIsOpen' /\ sent[c] = <<>>
    BY <2>1
  <2>3. AtHand'
    BY <2>1 DEF AtHand
  <2>4. \A d \in Clients : Behind(d)' <=> Behind(d)
    BY <2>1 DEF Behind, Ranging
  <2>5. RunsOfBroadcasts'
    <3>1. SUFFICES ASSUME NEW d \in clients, sent[d] # <<>>
                   PROVE  EndsRun(d, IF Behind(d) THEN taken - 1 ELSE taken)'
      BY <2>1, <2>2 DEF RunsOfBroadcasts
    <3>2. EndsRun(d, IF Behind(d) THEN taken - 1 ELSE taken)
      BY <3>1 DEF RunsOfBroadcasts
    <3> QED
      BY <2>1, <2>4, <3>2 DEF EndsRun
  <2>6. ComersHaveNone'
    BY <2>1, <2>2 DEF ComersHaveNone, Ranging
  <2> QED
    BY <2>2, <2>3, <2>5, <2>6
<1>2. CASE Ping(c) \/ Disconnect(c) \/ ReadFails(c)
  <2>1. Apart
    BY <1>2 DEF Ping, Disconnect, ReadFails, Apart
  <2> QED
    BY <2>1, ApartPreserves
<1>3. CASE Pong(c)
  <2>1. buffered' \in [Clients -> 0..SendCap]
    BY <1>3, TrySendKeeps DEF Pong
  <2>2. Apart
    BY <1>3, <2>1 DEF Pong, Apart
  <2> QED
    BY <2>2, ApartPreserves
<1>4. CASE Unregister(c)
  <2>1. /\ clients' = clients \ {c}
        /\ reader[c] = "leave" /\ reader'[c] \in {"close", "done"}
        /\ \A d \in Clients \ {c} : reader'[d] = reader[d]
        /\ reader' \in [Clients -> Readers]
        /\ UNCHANGED <<channel, buffered, sent, hub, taken>>
    BY <1>4 DEF Unregister
  <2>2. Apart
    BY <2>1 DEF Apart
  <2> QED
    BY <2>2, ApartPreserves
<1>5. CASE UnregisterClose(c)
  <2>1. /\ c \notin clients /\ clients' = clients
        /\ reader' = [reader EXCEPT ![c] = "done"]
        /\ channel' = [channel EXCEPT ![c] = "closed"]
        /\ UNCHANGED <<buffered, sent, hub, taken>>
    BY <1>5 DEF UnregisterClose, Close
  <2>2. Apart
    BY <2>1 DEF Apart
  <2> QED
    BY <2>2, ApartPreserves
<1>6. CASE Write(c) \/ WriterEnds(c)
  <2>1. buffered' \in [Clients -> 0..SendCap]
    <3>1. CASE Write(c)
      <4>1. buffered[c] - 1 \in 0..SendCap
        BY <3>1, HubAssumption DEF HubAssumption, Write
      <4> QED
        BY <3>1, <4>1 DEF Write
    <3>2. CASE WriterEnds(c)
      BY <3>2 DEF WriterEnds
    <3> QED
      BY <1>6, <3>1, <3>2
  <2>2. Apart
    BY <1>6, <2>1 DEF Write, WriterEnds, Apart
  <2> QED
    BY <2>2, ApartPreserves
<1> QED
  BY <1>1, <1>2, <1>3, <1>4, <1>5, <1>6 DEF ReaderGoesOn, WriterGoesOn

\* A run of numbers goes on with the next one.
LEMMA RunGoesOn ==
    ASSUME NEW q \in Seq(Nat), NEW n \in Nat,
           \A i \in 1..Len(q) : q[i] = (n - 1) - Len(q) + i
    PROVE  /\ Len(Append(q, n)) = Len(q) + 1
           /\ \A i \in 1..(Len(q) + 1) : Append(q, n)[i] = n - (Len(q) + 1) + i
<1>1. Len(q) \in Nat /\ Len(Append(q, n)) = Len(q) + 1
  OBVIOUS
<1>2. Append(q, n)[Len(q) + 1] = n
  OBVIOUS
<1>3. ASSUME NEW i \in 1..Len(q)
      PROVE  Append(q, n)[i] = n - (Len(q) + 1) + i
  <2>1. Append(q, n)[i] = q[i] /\ q[i] = (n - 1) - Len(q) + i
    OBVIOUS
  <2>2. (n - 1) - Len(q) + i = n - (Len(q) + 1) + i
    BY <1>1
  <2> QED
    BY <2>1, <2>2
<1>4. \A i \in 1..(Len(q) + 1) : i \in 1..Len(q) \/ i = Len(q) + 1
  BY <1>1
<1>5. n - (Len(q) + 1) + (Len(q) + 1) = n
  BY <1>1
<1> QED
  BY <1>1, <1>2, <1>3, <1>4, <1>5

\* The hub hands the broadcast to the client at hand, or throws it out.
LEMMA SendPreserves == HubInvariant /\ Send => HubInvariant'
<1> SUFFICES ASSUME HubInvariant, Send PROVE HubInvariant'
  OBVIOUS
<1> DEFINE c == hub.client
           full == channel[c] = "open" /\ buffered[c] = SendCap
<1>1. /\ hub.at = "send" /\ TrySend(c)
      /\ clients' = IF full THEN clients \ {c} ELSE clients
      /\ hub' = [hub EXCEPT !.at = IF full THEN "kick" ELSE "range"]
      /\ sent' = IF buffered' = buffered THEN sent
                 ELSE [sent EXCEPT ![c] = Append(@, taken)]
      /\ UNCHANGED <<channel, reader, taken>>
  BY DEF Send, HubStep, connVars
<1>2. c \in Clients /\ c \notin hub.left /\ reader[c] # "new"
  BY <1>1 DEF HubInvariant, AtHand
<1>3. /\ buffered' \in [Clients -> 0..SendCap]
      /\ buffered' = buffered => c \notin clients'
      /\ buffered' # buffered => ~full
  <2>1. c \in clients => channel[c] = "open"
    BY DEF HubInvariant, TableIsOpen
  <2>2. SendCap \in Nat
    BY HubAssumption DEF HubAssumption
  <2> QED
    BY <1>1, <1>2, <2>1, <2>2, TrySendKeeps DEF HubInvariant
<1>4. /\ sent' \in [Clients -> Seq(Nat)]
      /\ \A d \in Clients \ {c} : sent'[d] = sent[d]
      /\ c \in clients' => sent'[c] = Append(sent[c], taken)
  BY <1>1, <1>2, <1>3 DEF HubInvariant, HubShape
<1>5. /\ hub'.at = (IF full THEN "kick" ELSE "range") /\ hub'.client = c
      /\ hub'.left = hub.left /\ hub'.due = hub.due
      /\ hub' \in [at : {"select", "range", "send", "kick", "stopped"},
                   client : Clients \cup {"none"},
                   left : SUBSET Clients, due : SUBSET Clients]
  BY <1>1 DEF HubInvariant, HubShape
<1>6. HubShape'
  BY <1>1, <1>3, <1>4, <1>5 DEF HubInvariant, HubShape
<1>7. TableIsOpen'
  BY <1>1, <1>2, <1>4 DEF HubInvariant, TableIsOpen
<1>8. AtHand'
  BY <1>1, <1>2, <1>5 DEF AtHand
<1>9. ASSUME NEW d \in clients' PROVE sent'[d] = <<>> \/
          EndsRun(d, IF Behind(d) THEN taken - 1 ELSE taken)'
  <2>1. d \in clients /\ d \in Clients
    BY <1>1, <1>9 DEF HubInvariant, HubShape
  <2>2. CASE d # c
    <3>1. Behind(d)' <=> Behind(d)
      BY <1>1, <1>5, <2>2 DEF Behind, Ranging
    <3> QED
      BY <1>1, <1>4, <2>1, <2>2, <3>1 DEF HubInvariant, RunsOfBroadcasts, EndsRun
  <2>3. CASE d = c
    <3>1. Behind(c) /\ ~Behind(d)'
      BY <1>1, <1>2, <1>5, <2>3 DEF Behind, Ranging
    <3>2. sent[c] \in Seq(Nat) /\ taken \in Nat
      BY <1>2 DEF HubInvariant, HubShape
    <3>3. \A i \in 1..Len(sent[c]) : sent[c][i] = (taken - 1) - Len(sent[c]) + i
      <4>1. CASE sent[c] = <<>>
        BY <4>1
      <4>2. CASE EndsRun(c, taken - 1)
        BY <4>2 DEF EndsRun
      <4>3. c \in clients => sent[c] = <<>> \/ EndsRun(c, taken - 1)
        BY <3>1 DEF HubInvariant, RunsOfBroadcasts
      <4> QED
        BY <2>1, <2>3, <4>1, <4>2, <4>3
    <3>4. /\ Len(Append(sent[c], taken)) = Len(sent[c]) + 1
          /\ \A i \in 1..(Len(sent[c]) + 1) :
                Append(sent[c], taken)[i] = taken - (Len(sent[c]) + 1) + i
      <4> DEFINE q == sent[c]
      <4>1. q \in Seq(Nat) /\ taken \in Nat
            /\ \A i \in 1..Len(q) : q[i] = (taken - 1) - Len(q) + i
        BY <3>2, <3>3
      <4> HIDE DEF q
      <4>2. /\ Len(Append(q, taken)) = Len(q) + 1
            /\ \A i \in 1..(Len(q) + 1) :
                  Append(q, taken)[i] = taken - (Len(q) + 1) + i
        BY <4>1, RunGoesOn
      <4> QED
        BY <4>2 DEF q
    <3>5. EndsRun(d, taken)'
      <4>1. sent'[d] = Append(sent[c], taken) /\ taken' = taken
        BY <1>1, <1>4, <1>9, <2>3
      <4>2. \A i \in 1..Len(sent'[d]) : sent'[d][i] = taken' - Len(sent'[d]) + i
        BY <3>4, <4>1
      <4> QED
        BY <4>2 DEF EndsRun
    <3> QED
      BY <3>1, <3>5 DEF EndsRun
  <2> QED
    BY <2>2, <2>3
<1>10. RunsOfBroadcasts'
  BY <1>9 DEF RunsOfBroadcasts
<1>11. ComersHaveNone'
  <2>1. Ranging
    BY <1>1 DEF Ranging
  <2> QED
    BY <1>1, <1>2, <1>4, <1>5, <2>1 DEF HubInvariant, HubShape, ComersHaveNone
<1> QED
  BY <1>6, <1>7, <1>8, <1>10, <1>11 DEF HubInvariant

\* The other steps of the hub.
LEMMA HubStepsPreserve ==
    ASSUME HubInvariant, Take \/ Visit \/ Kick \/ Stop
    PROVE  HubInvariant'
<1> USE DEF HubInvariant, HubStep, connVars
<1>1. CASE Take
  <2>1. /\ hub.at = "select" /\ taken' = taken + 1
        /\ hub' = [at |-> "range", client |-> "none", left |-> Clients,
                   due |-> clients]
        /\ UNCHANGED <<clients, channel, buffered, sent, reader>>
    BY <1>1 DEF Take
  <2>2. HubShape' /\ TableIsOpen' /\ AtHand'
    BY <2>1 DEF HubShape, TableIsOpen, AtHand
  <2>3. \A c \in clients : ~Behind(c) /\ Behind(c)' /\ taken = taken' - 1
    BY <2>1 DEF HubShape, Behind, Ranging
  <2>4. RunsOfBroadcasts'
    BY <2>1, <2>3 DEF RunsOfBroadcasts, EndsRun
  <2>5. ComersHaveNone'
    BY <2>1 DEF ComersHaveNone
  <2> QED
    BY <2>2, <2>4, <2>5
<1>2. CASE Visit
  <2>1. hub.at = "range" /\ UNCHANGED <<clients, channel, buffered, sent, reader, taken>>
    BY <1>2 DEF Visit
  <2>2. ASSUME NEW c \in hub.left \cap clients,
               hub' = [hub EXCEPT !.at = "send", !.client = c, !.left = @ \ {c}]
        PROVE  HubInvariant'
    <3>1. /\ hub'.at = "send" /\ hub'.client = c /\ hub'.left = hub.left \ {c}
          /\ hub'.due = hub.due /\ c \in Clients
          /\ hub' \in [at : {"select", "range", "send", "kick", "stopped"},
                       client : Clients \cup {"none"},
                       left : SUBSET Clients, due : SUBSET Clients]
      BY <2>2 DEF HubShape
    <3>2. HubShape' /\ TableIsOpen' /\ AtHand'
      BY <2>1, <3>1 DEF HubShape, TableIsOpen, AtHand
    <3>3. \A d \in clients : Behind(d)' <=> Behind(d)
      BY <2>1, <2>2, <3>1 DEF Behind, Ranging
    <3>4. RunsOfBroadcasts'
      BY <2>1, <3>3 DEF RunsOfBroadcasts, EndsRun
    <3>5. ComersHaveNone'
      BY <2>1, <3>1 DEF ComersHaveNone, Ranging
    <3> QED
      BY <3>2, <3>4, <3>5
  <2>3. CASE hub.left \cap hub.due \cap clients = {} /\ hub' = Waiting
    <3>1. /\ hub'.at = "select"
          /\ hub' \in [at : {"select", "range", "send", "kick", "stopped"},
                       client : Clients \cup {"none"},
                       left : SUBSET Clients, due : SUBSET Clients]
      BY <2>3 DEF Waiting
    <3>2. HubShape' /\ TableIsOpen' /\ AtHand' /\ ComersHaveNone'
      BY <2>1, <3>1
      DEF HubShape, TableIsOpen, AtHand, ComersHaveNone, Ranging
    <3>3. ASSUME NEW c \in clients, sent[c] # <<>>
          PROVE  ~Behind(c) /\ ~Behind(c)'
      BY <2>1, <2>3, <3>1, <3>3 DEF ComersHaveNone, Behind, Ranging
    <3>4. RunsOfBroadcasts'
      BY <2>1, <3>3 DEF RunsOfBroadcasts, EndsRun
    <3> QED
      BY <3>2, <3>4
  <2> QED
    BY <1>2, <2>2, <2>3 DEF Visit
<1>3. CASE Kick
  <2>1. /\ hub.at = "kick" /\ hub' = [hub EXCEPT !.at = "range"]
        /\ channel' = [channel EXCEPT ![hub.client] = "closed"]
        /\ UNCHANGED <<clients, buffered, sent, reader, taken>>
    BY <1>3 DEF Kick, Close
  <2>2. /\ hub'.at = "range" /\ hub'.left = hub.left /\ hub'.due = hub.due
        /\ hub' \in [at : {"select", "range", "send", "kick", "stopped"},
                     client : Clients \cup {"none"},
                     left : SUBSET Clients, due : SUBSET Clients]
    BY <2>1 DEF HubShape
  <2>3. HubShape' /\ TableIsOpen' /\ AtHand'
    BY <2>1, <2>2 DEF HubShape, TableIsOpen, AtHand
  <2>4. \A c \in clients : Behind(c)' <=> Behind(c)
    BY <2>1, <2>2 DEF Behind, Ranging
  <2>5. RunsOfBroadcasts'
    BY <2>1, <2>4 DEF RunsOfBroadcasts, EndsRun
  <2>6. ComersHaveNone'
    BY <2>1, <2>2 DEF ComersHaveNone, Ranging
  <2> QED
    BY <2>3, <2>5, <2>6
<1>4. CASE Stop
  <2>1. /\ hub.at = "select"
        /\ hub' = [at |-> "stopped", client |-> "none", left |-> {}, due |-> {}]
        /\ UNCHANGED <<clients, channel, buffered, sent, reader, taken>>
    BY <1>4 DEF Stop, Waiting
  <2>2. HubShape' /\ TableIsOpen' /\ AtHand' /\ ComersHaveNone'
    BY <2>1 DEF HubShape, TableIsOpen, AtHand, ComersHaveNone, Ranging
  <2>3. \A c \in clients : ~Behind(c) /\ ~Behind(c)'
    BY <2>1 DEF Behind, Ranging
  <2>4. RunsOfBroadcasts'
    BY <2>1, <2>3 DEF RunsOfBroadcasts, EndsRun
  <2> QED
    BY <2>2, <2>4
<1> QED
  BY <1>1, <1>2, <1>3, <1>4

\* Every step of the connections, the hub and those who publish keeps it.
LEMMA HubPreserves == HubInvariant /\ [HubNext]_hubVars => HubInvariant'
<1> SUFFICES ASSUME HubInvariant, [HubNext]_hubVars PROVE HubInvariant'
  OBVIOUS
<1>1. CASE Dashboard \/ LogCollector \/ UNCHANGED hubVars
  <2>1. UNCHANGED <<clients, channel, buffered, sent, reader, hub, taken>>
    BY <1>1 DEF Dashboard, LogCollector, Publish, connVars, hubVars
  <2>2. Apart
    BY <2>1 DEF Apart, HubInvariant, HubShape, TableIsOpen
  <2> QED
    BY <2>2, ApartPreserves
<1> QED
  BY <1>1, ConnectionPreserves, SendPreserves, HubStepsPreserve
  DEF HubNext, HubGoesOn

\* For any number of connections that come, stall and leave, and any sizes of
\* the two buffers: what a client in the table was handed is a run of broadcasts
\* without a gap - a slow client is thrown out, never skipped (Run).
THEOREM NoGapsAlways == HubSpec => []NoGaps
<1>1. HubInvariant => NoGaps
  <2> SUFFICES ASSUME HubInvariant, hub.at = "select", NEW c \in clients,
                      sent[c] # <<>>, NEW i \in DOMAIN sent[c]
               PROVE  sent[c][i] = taken - Len(sent[c]) + i
    BY DEF NoGaps
  <2>1. sent[c] \in Seq(Nat) /\ i \in 1..Len(sent[c])
    BY DEF HubInvariant, HubShape
  <2>2. ~Behind(c)
    BY DEF Behind, Ranging
  <2> QED
    BY <2>1, <2>2 DEF HubInvariant, RunsOfBroadcasts, EndsRun
<1> QED
  BY <1>1, HubInitially, HubPreserves, PTL DEF HubSpec

\* The rest of the types of the hub: what was taken or waits in the queue was
\* offered before, and what a client was handed was taken.
HubSwitches ==
    /\ conn \in [Clients -> BOOLEAN] /\ writer \in [Clients -> BOOLEAN]
    /\ panic \in BOOLEAN /\ pings \in 0..MaxPings

HubCounts ==
    /\ taken \in Nat /\ queue \in 0..QueueCap /\ offered \in 0..MaxBroadcasts
    /\ taken + queue <= offered
    /\ Ranging => taken >= 1

HandedIsTaken == \A c \in Clients : sent[c] \in Seq(1..taken)

\* A start of the program satisfies it.
LEMMA HubRestInitially == HubInit => HubSwitches /\ HubCounts /\ HandedIsTaken
<1> SUFFICES ASSUME HubInit PROVE HubSwitches /\ HubCounts /\ HandedIsTaken
  OBVIOUS
<1>1. HubSwitches
  <2>1. 0 \in 0..MaxPings
    BY HubAssumption DEF HubAssumption
  <2>2. conn \in [Clients -> BOOLEAN] /\ writer \in [Clients -> BOOLEAN]
    BY DEF HubInit
  <2> QED
    BY <2>1, <2>2 DEF HubInit, HubSwitches
<1>2. HubCounts
  <2>1. ~Ranging
    BY DEF HubInit, Waiting, Ranging
  <2> QED
    BY <2>1, HubAssumption DEF HubInit, HubCounts, HubAssumption
<1>3. HandedIsTaken
  <2>1. \A c \in Clients : sent[c] = << >>
    BY DEF HubInit
  <2> QED
    BY <2>1, EmptySeq DEF HandedIsTaken
<1> QED
  BY <1>1, <1>2, <1>3

\* Connections open and close, and the panic of a channel misused is a panic.
LEMMA SwitchesKept == HubSwitches /\ [HubNext]_hubVars => HubSwitches'
<1> SUFFICES ASSUME HubSwitches, [HubNext]_hubVars PROVE HubSwitches'
  OBVIOUS
<1> USE HubAssumption DEF HubAssumption, HubSwitches, connVars, TrySend, Close,
        HubStep, ReaderAt, ReaderTo
<1>1. ASSUME NEW c \in Clients, Register(c) \/ Disconnect(c) PROVE HubSwitches'
  BY <1>1 DEF Register, Disconnect
<1>2. ASSUME NEW c \in Clients, Ping(c) \/ ReadFails(c) \/ Unregister(c)
      PROVE  HubSwitches'
  BY <1>2 DEF Ping, ReadFails, Unregister
<1>3. ASSUME NEW c \in Clients, Pong(c) \/ UnregisterClose(c) PROVE HubSwitches'
  BY <1>3 DEF Pong, UnregisterClose
<1>4. ASSUME NEW c \in Clients, Write(c) \/ WriterEnds(c) PROVE HubSwitches'
  BY <1>4 DEF Write, WriterEnds
<1>5. CASE Publish \/ Take \/ Visit \/ Stop
  BY <1>5 DEF Publish, Take, Visit, Stop
<1>6. CASE Send \/ Kick
  BY <1>6 DEF Send, Kick
<1>7. CASE UNCHANGED hubVars
  BY <1>7 DEF hubVars
<1> QED
  BY <1>1, <1>2, <1>3, <1>4, <1>5, <1>6, <1>7
  DEF HubNext, ReaderGoesOn, WriterGoesOn, HubGoesOn, Dashboard, LogCollector

\* A step of a connection leaves the hub's queue and what was handed out.
LEMMA ConnectionLeaves ==
    ASSUME NEW c \in Clients,
           \/ Register(c) \/ Ping(c) \/ Disconnect(c)
           \/ ReaderGoesOn(c) \/ WriterGoesOn(c)
    PROVE  UNCHANGED <<queue, hub, taken, offered, sent>>
BY DEF Register, Ping, Disconnect, ReaderGoesOn, WriterGoesOn, Pong, ReadFails,
       Unregister, UnregisterClose, Write, WriterEnds

\* A message is taken once it was offered.
LEMMA HubCountsKept == HubCounts /\ [HubNext]_hubVars => HubCounts'
<1> SUFFICES ASSUME HubCounts, [HubNext]_hubVars PROVE HubCounts'
  OBVIOUS
<1> USE HubAssumption DEF HubAssumption, HubCounts, HubStep
<1>1. CASE UNCHANGED <<queue, hub, taken, offered>>
  BY <1>1 DEF Ranging
<1>2. CASE Publish
  <2>1. queue' \in {queue, queue + 1} /\ queue' <= QueueCap
        /\ offered' = offered + 1 /\ offered < MaxBroadcasts
    BY <1>2 DEF Publish
  <2>2. taken' = taken /\ hub' = hub
    BY <1>2 DEF Publish
  <2>3. queue' \in 0..QueueCap
    <3>1. CASE queue' = queue
      BY <3>1
    <3>2. CASE queue' = queue + 1
      BY <2>1, <3>2
    <3> QED
      BY <2>1, <3>1, <3>2
  <2>4. offered' \in 0..MaxBroadcasts
    BY <2>1
  <2>5. taken' + queue' <= offered'
    <3>1. taken \in Int /\ queue \in Int /\ offered \in Int
          /\ taken + queue <= offered
      OBVIOUS
    <3>2. CASE queue' = queue
      BY <2>1, <2>2, <3>1, <3>2
    <3>3. CASE queue' = queue + 1
      BY <2>1, <2>2, <3>1, <3>3
    <3> QED
      BY <2>1, <3>2, <3>3
  <2> QED
    BY <2>2, <2>3, <2>4, <2>5 DEF Ranging
<1>3. CASE Take
  <2>1. queue > 0 /\ queue' = queue - 1 /\ taken' = taken + 1 /\ offered' = offered
    BY <1>3 DEF Take
  <2> QED
    BY <2>1
<1>4. CASE Visit \/ Send \/ Kick
  <2>1. UNCHANGED <<queue, taken, offered>> /\ Ranging
    BY <1>4 DEF Visit, Send, Kick, Ranging
  <2> QED
    BY <2>1
<1>5. CASE Stop
  <2>1. UNCHANGED <<queue, taken, offered>> /\ ~Ranging'
    BY <1>5 DEF Stop, Ranging, Waiting
  <2> QED
    BY <2>1
<1>6. CASE UNCHANGED hubVars
  BY <1>1, <1>6 DEF hubVars
<1> QED
  BY <1>1, <1>2, <1>3, <1>4, <1>5, <1>6, ConnectionLeaves
  DEF HubNext, HubGoesOn, Dashboard, LogCollector

\* A client is handed the broadcast under way.
LEMMA HandedKept ==
    HubInvariant /\ HubCounts /\ HandedIsTaken /\ [HubNext]_hubVars => HandedIsTaken'
<1> SUFFICES ASSUME HubInvariant, HubCounts, HandedIsTaken, [HubNext]_hubVars
             PROVE  HandedIsTaken'
  OBVIOUS
<1>1. taken \in Nat /\ sent \in [Clients -> Seq(Nat)]
  BY DEF HubInvariant, HubShape
<1>2. CASE UNCHANGED <<sent, taken>>
  BY <1>2 DEF HandedIsTaken
<1>3. CASE Take
  <2>1. sent' = sent /\ taken' = taken + 1
    BY <1>3 DEF Take
  <2>2. SUFFICES ASSUME NEW c \in Clients PROVE sent[c] \in Seq(1..(taken + 1))
    BY <2>1 DEF HandedIsTaken
  <2>3. sent[c] \in Seq(1..taken) /\ 1..taken \subseteq 1..(taken + 1)
    BY <1>1 DEF HandedIsTaken
  <2> QED
    BY <2>3, SeqMonotonic
<1>4. CASE Send
  <2>1. /\ hub.at = "send" /\ taken' = taken
        /\ sent' = IF buffered' = buffered THEN sent
                   ELSE [sent EXCEPT ![hub.client] = Append(@, taken)]
    BY <1>4 DEF Send, HubStep
  <2>2. hub.client \in Clients /\ taken \in 1..taken
    BY <1>1, <2>1 DEF HubInvariant, AtHand, HubCounts, Ranging
  <2>3. SUFFICES ASSUME NEW c \in Clients PROVE sent'[c] \in Seq(1..taken)
    BY <2>1 DEF HandedIsTaken
  <2>4. sent'[c] = sent[c] \/ sent'[c] = Append(sent[c], taken)
    BY <1>1, <2>1, <2>2
  <2>5. sent[c] \in Seq(1..taken)
    BY DEF HandedIsTaken
  <2> QED
    BY <2>2, <2>4, <2>5, AppendProperties
<1>5. CASE Publish \/ Visit \/ Kick \/ Stop
  BY <1>2, <1>5 DEF Publish, Visit, Kick, Stop
<1>6. CASE UNCHANGED hubVars
  BY <1>2, <1>6 DEF hubVars
<1> QED
  BY <1>2, <1>3, <1>4, <1>5, <1>6, ConnectionLeaves
  DEF HubNext, HubGoesOn, Dashboard, LogCollector

\* Together they are the types.
LEMMA HubIsTyped ==
    HubInvariant /\ HubSwitches /\ HubCounts /\ HandedIsTaken => HubTypeOK
<1> SUFFICES ASSUME HubInvariant, HubSwitches, HubCounts, HandedIsTaken
             PROVE  HubTypeOK
  OBVIOUS
<1>1. ASSUME NEW c \in Clients, NEW i \in DOMAIN sent[c]
      PROVE  sent[c][i] \in 1..taken
  BY <1>1, ElementOfSeq, LenProperties DEF HandedIsTaken
<1>2. taken \in 0..MaxBroadcasts
  BY HubAssumption DEF HubCounts, HubAssumption
<1> QED
  BY <1>1, <1>2
  DEF HubTypeOK, HubInvariant, HubShape, HubSwitches, HubCounts, Readers

\* The type invariant of the hub: queues, channels and counts stay within their
\* bounds, and nothing is handed to a client that was not taken from the queue.
THEOREM HubTypeCorrect == HubSpec => []HubTypeOK
BY HubInitially, HubPreserves, HubRestInitially, SwitchesKept, HubCountsKept,
   HandedKept, HubIsTyped, PTL DEF HubSpec

-----------------------------------------------------------------------------
(* Bot.                                                                    *)

BotSpec == BotInit /\ [][BotNext]_botVars

\* How many of S come before k.
Before(S, k) == Cardinality({j \in S : j < k})

\* A quotient lies between its multiples.
LEMMA Quotient ==
    ASSUME NEW n \in Nat, NEW d \in Nat, d > 0
    PROVE  /\ n \div d \in Nat /\ d * (n \div d) <= n /\ n < d * (n \div d) + d
OBVIOUS

LEMMA QuotientIs ==
    ASSUME NEW q \in Nat, NEW d \in Nat, d > 0
    PROVE  (q * d) \div d = q
OBVIOUS

LEMMA Multiples ==
    ASSUME NEW m \in Nat, NEW q \in Nat, NEW d \in Nat, d > 0, q <= m
    PROVE  d * q <= d * m
OBVIOUS

\* Every place in the order of a finite set is somebody's.
LEMMA EveryPlaceIsTaken ==
    ASSUME NEW S \in SUBSET Nat, IsFiniteSet(S), NEW i \in 0..(Cardinality(S) - 1)
    PROVE  \E k \in S : Before(S, k) = i
<1> DEFINE n == Cardinality(S)
           f == [k \in S |-> Before(S, k)]
<1>1. n \in Nat
  BY FS_CardinalityType
<1>2. \A k \in S : IsFiniteSet({j \in S : j < k}) /\ Before(S, k) \in Nat
  <2>1. ASSUME NEW k \in S
        PROVE  IsFiniteSet({j \in S : j < k}) /\ Before(S, k) \in Nat
    <3>1. {j \in S : j < k} \in SUBSET S
      OBVIOUS
    <3>2. IsFiniteSet({j \in S : j < k})
      BY <3>1, FS_Subset
    <3> QED
      BY <3>2, FS_CardinalityType DEF Before
  <2> QED
    BY <2>1
<1>3. ASSUME NEW k \in S PROVE Before(S, k) < n
  <2>1. {j \in S : j < k} \in SUBSET S /\ {j \in S : j < k} # S
    OBVIOUS
  <2>2. Before(S, k) <= n /\ Before(S, k) # n
    BY <2>1, FS_Subset DEF Before
  <2>3. Before(S, k) \in Nat
    BY <1>2
  <2> HIDE DEF n
  <2> QED
    BY <1>1, <2>2, <2>3
<1>4. ASSUME NEW k \in S, NEW l \in S, k < l PROVE Before(S, k) # Before(S, l)
  <2>1. {j \in S : j < k} \in SUBSET {j \in S : j < l}
    <3>1. k \in Nat /\ l \in Nat
      OBVIOUS
    <3>2. ASSUME NEW j \in S, j < k PROVE j < l
      <4>1. j \in Nat
        OBVIOUS
      <4> QED
        BY <1>4, <3>1, <3>2, <4>1
    <3> QED
      BY <3>2
  <2>2. k \in {j \in S : j < l} /\ k \notin {j \in S : j < k}
    BY <1>4
  <2> HIDE <1>4
  <2>3. {j \in S : j < k} # {j \in S : j < l}
    BY <2>2
  <2> QED
    BY <1>2, <2>1, <2>3, FS_Subset DEF Before
<1>5. f \in Injection(S, 0..(n - 1))
  <2>1. \A k \in S : f[k] \in 0..(n - 1)
    <3>1. ASSUME NEW k \in S PROVE f[k] \in 0..(n - 1)
      <4>1. f[k] = Before(S, k) /\ Before(S, k) \in Nat /\ Before(S, k) < n
        BY <1>2, <1>3
      <4> HIDE DEF n, f
      <4> QED
        BY <1>1, <4>1
    <3> QED
      BY <3>1
  <2>2. ASSUME NEW k \in S, NEW l \in S, f[k] = f[l] PROVE k = l
    <3>1. k \in Nat /\ l \in Nat /\ Before(S, k) = Before(S, l)
      BY <2>2
    <3> QED
      BY <1>4, <3>1
  <2> QED
    BY <2>1, <2>2 DEF Injection, IsInjective
<1>6. IsFiniteSet(0..(n - 1)) /\ Cardinality(0..(n - 1)) = n
  <2>1. 0 \in Int /\ n - 1 \in Int
    BY <1>1
  <2>2. IsFiniteSet(0..(n - 1))
        /\ Cardinality(0..(n - 1)) = IF 0 > n - 1 THEN 0 ELSE (n - 1) - 0 + 1
    BY <2>1, FS_Interval
  <2> HIDE DEF n
  <2> QED
    BY <1>1, <2>2
<1>7. f \in Surjection(S, 0..(n - 1))
  <2> HIDE DEF f
  <2> QED
    BY <1>5, <1>6, FS_Injection
<1>8. PICK k \in S : f[k] = i
  BY <1>7 DEF Surjection
<1> QED
  BY <1>8

\* No page there is is empty.
LEMMA PagesAreFilled ==
    ASSUME NEW S \in SUBSET Nat, IsFiniteSet(S), S # {},
           NEW q \in 1..PageCount(S)
    PROVE  PageOf(S, q) # {}
<1> DEFINE n == Cardinality(S)
           c == (n + PageSize - 1) \div PageSize
<1>1. n \in Nat /\ n # 0
  BY FS_CardinalityType, FS_EmptySet
<1>2. PageSize \in Nat /\ PageSize > 0
  BY BotAssumption DEF BotAssumption
<1>3. q \in 1..c
  BY DEF PageCount
<1> HIDE DEF n
<1>4. n + PageSize - 1 \in Nat
  BY <1>1, <1>2
<1>5. c \in Nat /\ PageSize * c <= n + PageSize - 1
  BY <1>2, <1>4, Quotient
<1> HIDE DEF c
<1>6. PageSize * (q - 1) <= PageSize * (c - 1) /\ q - 1 \in Nat
  <2>1. q - 1 \in Nat /\ c - 1 \in Nat /\ q - 1 <= c - 1
    BY <1>3, <1>5
  <2> QED
    BY <1>2, <2>1, Multiples
<1>7. PageSize * (c - 1) = PageSize * c - PageSize
      /\ PageSize * (q - 1) \in Nat
  BY <1>2, <1>5, <1>6
<1>8. PageSize * (q - 1) \in 0..(n - 1)
  <2>1. PageSize * c \in Nat
    BY <1>2, <1>5
  <2> QED
    BY <1>1, <1>2, <1>5, <1>6, <1>7, <2>1
<1>9. PICK k \in S : Before(S, k) = PageSize * (q - 1)
  BY <1>8, EveryPlaceIsTaken DEF n
<1>10. (PageSize * (q - 1)) \div PageSize = q - 1
  <2>1. ((q - 1) * PageSize) \div PageSize = q - 1
    BY <1>2, <1>6, QuotientIs
  <2>2. (q - 1) * PageSize = PageSize * (q - 1)
    BY <1>2, <1>6
  <2> QED
    BY <2>1, <2>2
<1> QED
  BY <1>9, <1>10 DEF PageOf, Before

\* A panel that names nobody was drawn when there was nobody.
NamesSomebody(p) == p.menu \in Menus /\ p.rows = {} => p.of = {}

Places == {"idle", "resolve", "control", "save", "draw", "send", "open",
           "close", "search", "add"}
JobSet == [place : Places, menu : Menus \cup Texts, page : Nat,
           key : Streamers \cup {0}, draft : Panels]
EntryMarks == {"none", "watched", "paused"}

\* What holds of the message has to hold of the panels that handlers are about
\* to send.
BotInvariant ==
    /\ BotTypeOK
    /\ NamesSomebody(panel)
    /\ \A h \in BotHandlers : NamesSomebody(jobs[h].draft)

\* A text is a panel without buttons for streamers.
LEMMA TextsAreFine ==
    ASSUME NEW m \in Menus \cup Texts
    PROVE  TextPanel(m) \in Panels /\ NamesSomebody(TextPanel(m))
BY DEF TextPanel, Panels, NamesSomebody

\* A job that begins has such a draft.
LEMMA JobsAreFine ==
    ASSUME NEW place \in Places, NEW m \in Menus \cup Texts, NEW page \in Nat,
           NEW key \in Streamers \cup {0}
    PROVE  /\ Job(place, m, page, key) \in JobSet
           /\ NamesSomebody(Job(place, m, page, key).draft)
<1>1. TextPanel("closed") \in Panels /\ NamesSomebody(TextPanel("closed"))
  BY TextsAreFine DEF Texts
<1> QED
  BY <1>1 DEF Job, JobSet

\* The number of pages is positive.
LEMMA PageCounts ==
    ASSUME NEW S \in SUBSET Nat, IsFiniteSet(S)
    PROVE  PageCount(S) \in Nat \ {0}
<1>1. PageSize \in Nat /\ PageSize > 0
  BY BotAssumption DEF BotAssumption
<1>2. CASE S = {}
  BY <1>2 DEF PageCount
<1>3. CASE S # {}
  <2> DEFINE n == Cardinality(S)
             c == (n + PageSize - 1) \div PageSize
  <2>1. n \in Nat /\ n # 0
    BY <1>3, FS_CardinalityType, FS_EmptySet
  <2>2. PageCount(S) = c
    BY <1>3 DEF PageCount
  <2> HIDE DEF n
  <2>3. n + PageSize - 1 \in Nat
    BY <1>1, <2>1
  <2>4. c \in Nat /\ n + PageSize - 1 < PageSize * c + PageSize
    BY <1>1, <2>3, Quotient
  <2> HIDE DEF c
  <2>5. c # 0
    <3> SUFFICES ASSUME c = 0 PROVE FALSE
      OBVIOUS
    <3>1. PageSize * c = 0
      BY <1>1
    <3> QED
      BY <1>1, <2>1, <2>4, <3>1
  <2> QED
    BY <2>2, <2>4, <2>5
<1> QED
  BY <1>2, <1>3

\* What tgEditToTargetMenu draws is a panel that names somebody.
LEMMA DrawnIsFine ==
    ASSUME BotTypeOK, NEW m \in Menus, NEW p \in Nat
    PROVE  TargetMenu(m, p) \in Panels /\ NamesSomebody(TargetMenu(m, p))
<1> DEFINE q == PageShown(Present, p)
<1>1. /\ Present \in SUBSET Streamers /\ PausedOnes \in SUBSET Streamers
      /\ Present \in SUBSET Nat /\ IsFiniteSet(Present)
  <2>1. /\ Present \in SUBSET Streamers /\ PausedOnes \in SUBSET Streamers
        /\ Present \in SUBSET Nat /\ IsFiniteSet(Streamers)
    BY BotAssumption DEF Present, PausedOnes, BotAssumption
  <2> QED
    BY <2>1, FS_Subset
<1>2. PageCount(Present) \in Nat \ {0}
  BY <1>1, PageCounts
<1>3. q \in 1..PageCount(Present)
  BY <1>2 DEF PageShown
<1> HIDE DEF q
<1>4. q \in Nat
  BY <1>2, <1>3
<1>5. PageOf(Present, q) \in SUBSET Streamers
  BY <1>1 DEF PageOf
<1>6. TargetMenu(m, p) = [menu |-> m, page |-> q, rows |-> PageOf(Present, q),
                          paused |-> PausedOnes, of |-> Present]
  BY DEF TargetMenu, q
<1>7. TargetMenu(m, p) \in Panels
  BY <1>1, <1>4, <1>5, <1>6 DEF Panels
<1>8. PageOf(Present, q) = {} => Present = {}
  BY <1>1, <1>3, PagesAreFilled
<1> QED
  BY <1>6, <1>7, <1>8 DEF NamesSomebody

\* A button asks for a page, a menu and a streamer there are.
LEMMA ButtonsAreJobs ==
    ASSUME NEW p \in Panels, NEW j \in ButtonsOf(p) \cup MessagesFrom
    PROVE  j \in JobSet /\ NamesSomebody(j.draft)
<1> SUFFICES \E place \in Places, m \in Menus \cup Texts, page \in Nat,
                key \in Streamers \cup {0} : j = Job(place, m, page, key)
  BY JobsAreFine
<1>1. p.page \in Nat /\ p.rows \subseteq Streamers /\ p.menu \in Menus \cup Texts \cup {"search"}
  BY DEF Panels
<1>2. CASE j \in MessagesFrom
  BY <1>2 DEF MessagesFrom, Places, Menus, Texts, Controls
<1>3. CASE j = ToMain
  BY <1>3 DEF ToMain, Places, Texts
<1>4. CASE p.menu = "main" /\ j \in ButtonsOf(p) /\ j # ToMain
  BY <1>4 DEF ButtonsOf, Places, Menus, Texts, Controls
<1>5. CASE p.menu \in Menus /\ j \in ButtonsOf(p) /\ j # ToMain
  <2>1. \/ \E k \in p.rows : j = Job("resolve", p.menu, p.page, k)
        \/ \E q \in {p.page - 1, p.page + 1} \cap 1..PageCount(p.of) :
              j = Job("draw", p.menu, q, 0)
    BY <1>5 DEF ButtonsOf, Menus, Controls
  <2>2. CASE \E k \in p.rows : j = Job("resolve", p.menu, p.page, k)
    BY <1>1, <1>5, <2>2 DEF Places
  <2>3. CASE \E q \in {p.page - 1, p.page + 1} \cap 1..PageCount(p.of) :
                j = Job("draw", p.menu, q, 0)
    <3>1. PICK q \in {p.page - 1, p.page + 1} \cap 1..PageCount(p.of) :
             j = Job("draw", p.menu, q, 0)
      BY <2>3
    <3>2. q \in Nat
      BY <1>1
    <3> QED
      BY <1>5, <3>1, <3>2 DEF Places
  <2> QED
    BY <2>1, <2>2, <2>3
<1>6. CASE p.menu = "search" /\ j \in ButtonsOf(p) /\ j # ToMain
  <2>1. PICK k \in p.rows :
           j = Job("resolve", IF k \in p.paused THEN "resume" ELSE "pause", 1, k)
    BY <1>6 DEF ButtonsOf, Menus, Controls
  <2> QED
    BY <1>1, <2>1 DEF Places, Menus, Controls
<1>7. CASE p.menu \in {"watermark", "help", "closed"} /\ j \in ButtonsOf(p) /\ j # ToMain
  BY <1>7 DEF ButtonsOf, Menus, Controls, Places, Texts
<1> QED
  BY <1>1, <1>2, <1>3, <1>4, <1>5, <1>6, <1>7 DEF Texts

\* The first states satisfy it.
LEMMA BotInitially == BotInit => BotInvariant
<1> SUFFICES ASSUME BotInit PROVE BotInvariant
  OBVIOUS
<1>1. /\ link = "connecting" /\ backoff = 2 /\ updatesIn = 0
      /\ entries \in [Streamers -> {"none", "watched"}]
      /\ panel = TextPanel("closed") /\ jobs = [h \in BotHandlers |-> IdleJob]
  BY DEF BotInit
<1>2. IdleJob \in JobSet /\ NamesSomebody(IdleJob.draft)
  BY JobsAreFine DEF IdleJob, Places, Texts
<1>3. panel \in Panels /\ NamesSomebody(panel)
  BY <1>1, TextsAreFine DEF Texts
<1>4. jobs \in [BotHandlers -> JobSet]
      /\ \A h \in BotHandlers : NamesSomebody(jobs[h].draft)
  BY <1>1, <1>2
<1>5. entries \in [Streamers -> {"none", "watched", "paused"}]
  BY <1>1
<1>6. backoff \in 2..MaxBackoff /\ updatesIn \in 0..MaxTaken
  BY <1>1, BotAssumption DEF BotAssumption
<1> QED
  BY <1>1, <1>3, <1>4, <1>5, <1>6 DEF BotInvariant, BotTypeOK, JobSet, Places

\* A step of a handler that leaves the link keeps the invariant when it does for
\* the job it is at, the panel and the entries.
LEMMA HandlersPreserve ==
    ASSUME BotInvariant, UNCHANGED link, backoff' \in 2..MaxBackoff,
           updatesIn' \in 0..MaxTaken,
           NEW h \in BotHandlers, NEW j \in JobSet, NamesSomebody(j.draft),
           jobs' = [jobs EXCEPT ![h] = j],
           entries' \in [Streamers -> EntryMarks],
           panel' \in Panels, NamesSomebody(panel')
    PROVE  BotInvariant'
<1>1. jobs \in [BotHandlers -> JobSet]
  BY DEF BotInvariant, BotTypeOK, JobSet, Places
<1>2. /\ jobs' \in [BotHandlers -> JobSet]
      /\ \A g \in BotHandlers : jobs'[g] = IF g = h THEN j ELSE jobs[g]
  BY <1>1
<1>3. \A g \in BotHandlers : NamesSomebody(jobs'[g].draft)
  BY <1>2 DEF BotInvariant
<1>4. BotTypeOK'
  BY <1>2 DEF BotInvariant, BotTypeOK, JobSet, Places, EntryMarks
<1>5. NamesSomebody(panel)'
  BY DEF NamesSomebody
<1>6. (\A g \in BotHandlers : NamesSomebody(jobs[g].draft))'
  BY <1>3 DEF NamesSomebody
<1> QED
  BY <1>4, <1>5, <1>6 DEF BotInvariant

\* Every step keeps it.
LEMMA BotPreserves == BotInvariant /\ [BotNext]_botVars => BotInvariant'
<1> SUFFICES ASSUME BotInvariant, [BotNext]_botVars PROVE BotInvariant'
  OBVIOUS
<1>1. /\ link \in {"connecting", "listening", "waiting"}
      /\ backoff \in 2..MaxBackoff /\ updatesIn \in 0..MaxTaken
      /\ entries \in [Streamers -> EntryMarks] /\ panel \in Panels
      /\ jobs \in [BotHandlers -> JobSet] /\ NamesSomebody(panel)
      /\ \A h \in BotHandlers : NamesSomebody(jobs[h].draft)
      /\ BotTypeOK
  BY DEF BotInvariant, BotTypeOK, JobSet, Places, EntryMarks
<1>2. MaxBackoff \in Nat /\ MaxBackoff >= 2 /\ MaxTaken \in Nat
  BY BotAssumption DEF BotAssumption
<1>3. IdleJob \in JobSet /\ NamesSomebody(IdleJob.draft)
  BY JobsAreFine DEF IdleJob, Places, Texts
<1>4. 2 \in 2..MaxBackoff /\ Doubled \in 2..MaxBackoff
  BY <1>1, <1>2 DEF Doubled
\* The link, and what is only answered.
<1>5. ASSUME UNCHANGED <<entries, panel, jobs>>,
             link' \in {"connecting", "listening", "waiting"},
             backoff' \in 2..MaxBackoff, updatesIn' \in 0..MaxTaken
      PROVE  BotInvariant'
  <2>1. BotTypeOK'
    BY <1>1, <1>5 DEF BotTypeOK
  <2>2. NamesSomebody(panel)' /\ (\A h \in BotHandlers : NamesSomebody(jobs[h].draft))'
    BY <1>1, <1>5 DEF NamesSomebody
  <2> QED
    BY <2>1, <2>2 DEF BotInvariant
<1>6. CASE Connect \/ ListenEnds \/ ListenAgain
  BY <1>1, <1>4, <1>5, <1>6 DEF Connect, ListenEnds, ListenAgain, SameRest
<1>7. ASSUME Receive PROVE backoff' \in 2..MaxBackoff /\ updatesIn' \in 0..MaxTaken
  BY <1>1, <1>2, <1>4, <1>7 DEF Receive
<1>8. CASE Answer
  BY <1>1, <1>5, <1>7, <1>8 DEF Answer
<1>9. ASSUME NEW h \in BotHandlers, Dispatch(h) PROVE BotInvariant'
  <2>1. PICK j \in ButtonsOf(panel) \cup MessagesFrom : jobs' = [jobs EXCEPT ![h] = j]
    BY <1>9 DEF Dispatch
  <2>2. j \in JobSet /\ NamesSomebody(j.draft)
    BY <1>1, ButtonsAreJobs
  <2>3. UNCHANGED <<link, entries, panel>> /\ Receive
    BY <1>9 DEF Dispatch
  <2>4. NamesSomebody(panel')
    BY <1>1, <2>3
  <2> QED
    BY <1>1, <1>7, <2>1, <2>2, <2>3, <2>4, HandlersPreserve
<1>10. ASSUME NEW h \in BotHandlers, NEW q \in Places,
              jobs' = [jobs EXCEPT ![h].place = q], UNCHANGED panel,
              entries' \in [Streamers -> EntryMarks], SameLink
       PROVE  BotInvariant'
  <2> DEFINE j == [jobs[h] EXCEPT !.place = q]
  <2>1. j \in JobSet /\ j.draft = jobs[h].draft
    <3>1. jobs[h] \in JobSet
      BY <1>1
    <3> QED
      BY <3>1 DEF JobSet
  <2>2. jobs' = [jobs EXCEPT ![h] = j]
    BY <1>1, <1>10
  <2>3. NamesSomebody(j.draft) /\ NamesSomebody(panel') /\ panel' \in Panels
    BY <1>1, <1>10, <2>1
  <2>4. UNCHANGED link /\ backoff' \in 2..MaxBackoff /\ updatesIn' \in 0..MaxTaken
    BY <1>1, <1>10 DEF SameLink
  <2> HIDE DEF j
  <2> QED
    BY <1>10, <2>1, <2>2, <2>3, <2>4, HandlersPreserve
<1>11. ASSUME NEW h \in BotHandlers, jobs' = [jobs EXCEPT ![h] = IdleJob],
              entries' \in [Streamers -> EntryMarks], SameLink,
              panel' \in Panels, NamesSomebody(panel')
       PROVE  BotInvariant'
  BY <1>1, <1>3, <1>11, HandlersPreserve DEF SameLink
<1>12. ASSUME NEW h \in BotHandlers, ResolveTarget(h) \/ LoadEntry(h) \/ SaveEntry(h)
       PROVE  BotInvariant'
  <2>1. SameLink /\ UNCHANGED panel
    BY <1>12 DEF ResolveTarget, LoadEntry, SaveEntry
  <2>2. entries' \in [Streamers -> EntryMarks]
    <3>1. CASE SaveEntry(h)
      <4>1. PICK s \in EntryMarks : entries' = [entries EXCEPT ![jobs[h].key] = s]
        BY <3>1 DEF SaveEntry, EntryMarks
      <4> QED
        BY <1>1, <4>1
    <3>2. CASE ResolveTarget(h) \/ LoadEntry(h)
      BY <1>1, <3>2 DEF ResolveTarget, LoadEntry
    <3> QED
      BY <1>12, <3>1, <3>2
  <2>3. \/ \E q \in {"control", "save", "draw"} : jobs' = [jobs EXCEPT ![h].place = q]
        \/ jobs' = [jobs EXCEPT ![h] = IdleJob]
    BY <1>12 DEF ResolveTarget, LoadEntry, SaveEntry, NextPlace, JobEnds
  <2>4. "control" \in Places /\ "save" \in Places /\ "draw" \in Places
    BY DEF Places
  <2>5. panel' \in Panels /\ NamesSomebody(panel')
    BY <1>1, <2>1
  <2> QED
    BY <1>10, <1>11, <2>1, <2>2, <2>3, <2>4, <2>5
<1>13. ASSUME NEW h \in BotHandlers, DrawPanel(h) PROVE BotInvariant'
  <2> DEFINE d == IF jobs[h].menu \in Menus
                  THEN TargetMenu(jobs[h].menu, jobs[h].page)
                  ELSE TextPanel(jobs[h].menu)
             j == [[jobs[h] EXCEPT !.place = "send"] EXCEPT !.draft = d]
  <2>1. jobs[h] \in JobSet /\ jobs[h].menu \in Menus \cup Texts /\ jobs[h].page \in Nat
    BY <1>1 DEF JobSet
  <2>2. d \in Panels /\ NamesSomebody(d)
    BY <1>1, <2>1, DrawnIsFine, TextsAreFine
  <2>3. jobs' = [jobs EXCEPT ![h] = j]
    <3>1. jobs' = [jobs EXCEPT ![h].place = "send", ![h].draft = d]
      BY <1>13 DEF DrawPanel
    <3> HIDE DEF d
    <3> QED
      BY <1>1, <3>1
  <2> HIDE DEF d
  <2>4. j \in JobSet /\ j.draft = d
    <3>1. "send" \in Places
      BY DEF Places
    <3>2. [jobs[h] EXCEPT !.place = "send"] \in JobSet
      BY <2>1, <3>1 DEF JobSet
    <3> QED
      BY <2>2, <3>2 DEF JobSet
  <2> HIDE DEF j
  <2>5. SameLink /\ UNCHANGED <<entries, panel>>
    BY <1>13 DEF DrawPanel
  <2>6. NamesSomebody(j.draft) /\ NamesSomebody(panel') /\ panel' \in Panels
    BY <1>1, <2>2, <2>4, <2>5
  <2> QED
    BY <1>1, <2>3, <2>4, <2>5, <2>6, HandlersPreserve DEF SameLink
<1>14. ASSUME NEW h \in BotHandlers,
              EditMessage(h) \/ OpenPanel(h) \/ ClosePanel(h) \/ SearchEntries(h)
       PROVE  BotInvariant'
  <2>1. jobs' = [jobs EXCEPT ![h] = IdleJob] /\ UNCHANGED entries /\ SameLink
    BY <1>14 DEF EditMessage, OpenPanel, ClosePanel, SearchEntries, JobEnds
  <2>2. jobs[h] \in JobSet /\ jobs[h].draft \in Panels
        /\ jobs[h].menu \in Menus \cup Texts /\ NamesSomebody(jobs[h].draft)
    BY <1>1 DEF JobSet
  <2>3. CASE EditMessage(h)
    BY <1>1, <1>11, <2>1, <2>2, <2>3 DEF EditMessage
  <2>4. CASE OpenPanel(h) \/ ClosePanel(h)
    <3>1. PICK m \in Menus \cup Texts : panel' = TextPanel(m)
      BY <2>2, <2>4 DEF OpenPanel, ClosePanel, Texts
    <3> QED
      BY <1>1, <1>11, <2>1, <3>1, TextsAreFine
  <2>5. CASE SearchEntries(h)
    <3>1. PICK found \in SUBSET Present :
             panel' = IF found = {} THEN panel
                      ELSE [menu |-> "search", page |-> 1, rows |-> found,
                            paused |-> PausedOnes, of |-> found]
      BY <2>5 DEF SearchEntries
    <3>2. found \in SUBSET Streamers /\ PausedOnes \in SUBSET Streamers
      BY DEF Present, PausedOnes
    <3>3. /\ [menu |-> "search", page |-> 1, rows |-> found,
              paused |-> PausedOnes, of |-> found] \in Panels
          /\ NamesSomebody([menu |-> "search", page |-> 1, rows |-> found,
                            paused |-> PausedOnes, of |-> found])
      BY <3>2 DEF Panels, NamesSomebody
    <3> QED
      BY <1>1, <1>11, <2>1, <3>1, <3>3
  <2> QED
    BY <1>14, <2>3, <2>4, <2>5
<1>15. ASSUME NEW h \in BotHandlers, AddStreamer(h) PROVE BotInvariant'
  <2>1. jobs' = [jobs EXCEPT ![h] = IdleJob] /\ UNCHANGED panel /\ SameLink
        /\ (UNCHANGED entries
              \/ \E s \in EntryMarks : entries' = [entries EXCEPT ![jobs[h].key] = s])
    BY <1>15 DEF AddStreamer, JobEnds, EntryMarks
  <2>2. entries' \in [Streamers -> EntryMarks]
    BY <1>1, <2>1
  <2> QED
    BY <1>1, <1>11, <2>1, <2>2
<1>16. ASSUME NEW k \in Streamers, Elsewhere(k) PROVE BotInvariant'
  <2>1. PICK s \in EntryMarks : entries' = [entries EXCEPT ![k] = s]
    BY <1>16 DEF Elsewhere, EntryMarks
  <2>2. UNCHANGED <<panel, jobs>> /\ SameLink
    BY <1>16 DEF Elsewhere
  <2>3. entries' \in [Streamers -> EntryMarks]
    BY <1>1, <2>1
  <2>4. BotTypeOK'
    BY <1>1, <2>2, <2>3 DEF BotTypeOK, SameLink, EntryMarks
  <2>5. NamesSomebody(panel)' /\ (\A h \in BotHandlers : NamesSomebody(jobs[h].draft))'
    BY <1>1, <2>2 DEF NamesSomebody
  <2> QED
    BY <2>4, <2>5 DEF BotInvariant
<1>17. CASE UNCHANGED botVars
  BY <1>1, <1>5, <1>17 DEF botVars
<1> QED
  BY <1>6, <1>8, <1>9, <1>12, <1>13, <1>14, <1>15, <1>16, <1>17 DEF BotNext

\* A panel drawn while there are streamers names one of them, for any number of
\* streamers and any page size, whatever is deleted between the button and the
\* panel it asks for (tgEditToTargetMenu).
THEOREM PanelHasButtonsAlways == BotSpec => []PanelHasButtons
<1>1. BotInvariant => PanelHasButtons
  BY DEF BotInvariant, NamesSomebody, PanelHasButtons
<1> QED
  BY <1>1, BotInitially, BotPreserves, PTL DEF BotSpec

\* The type invariant of the bot: panels, drafts and backups are of those it knows.
THEOREM BotTypeCorrect == BotSpec => []BotTypeOK
<1>1. BotInvariant => BotTypeOK
  BY DEF BotInvariant
<1> QED
  BY <1>1, BotInitially, BotPreserves, PTL DEF BotSpec
=============================================================================
