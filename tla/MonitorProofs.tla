---------------------------- MODULE MonitorProofs ---------------------------
(***************************************************************************)
(* Proofs about Monitor for any monitors, requests, flags and bounds.      *)
(***************************************************************************)
EXTENDS Monitor, TLAPS

NoneEarly == state = "none" => \A m \in Monitors : mon[m].at \in {"dead", "new"}

\* A steady iteration is alone, unpaused, and its cancel is the published one.
Steady(m) ==
    /\ mon[m].at \notin {"dead", "new", "top", "exit"}
    /\ \A n \in Monitors \ {m} : mon[n].at = "dead"
    /\ state = "running"
    /\ mon[m].at \in Listening => slot = m

\* The handler of a change of flags has not looked for a cancel yet.
Phases == {"flagsSave", "flagsMark", "flagsCancel"}

Changing == \E r \in Requests : req[r].at \in Phases

\* FlagsApplied, from the moment the iteration has read its flags.
Applied(m) ==
    mon[m].at \in {"probe", "session"} =>
        mon[m].flags = flags \/ mon[m].cancelled \/ Changing

SteadyInv == \A m \in Monitors : steady[m] => Steady(m) /\ Applied(m)

\* What the reload has yet to do, when nothing else is under way.
ReloadInv ==
    looked =>
        /\ \A r \in Requests : req[r].at = "idle"
        /\ \A m \in Monitors : mon[m].at # "new"
        /\ reload.at \notin {"check", "spawn"}
        /\ reload.at \in {"idle", "cancel", "sweepCancel", "sweepForget"} =>
              state # "running"
        /\ reload.at \in {"flags", "act"} => reload.line = "off"
        /\ reload.at = "act" => reload.state = state

IInv == TypeOK /\ NoneEarly /\ SteadyInv /\ ReloadInv

-----------------------------------------------------------------------------
(* Types.                                                                  *)

LEMMA DefaultIsFlags == DefaultFlags \in Flags
BY FlagsAssumption DEF DefaultFlags

LEMMA RecordTypes ==
    /\ \A p \in MonitorPositions, c \in BOOLEAN : Between(p, c) \in MonitorType
    /\ \A x \in MonitorType :
          /\ x.at \in MonitorPositions /\ x.capped \in BOOLEAN
          /\ \A p \in MonitorPositions : [x EXCEPT !.at = p] \in MonitorType
          /\ \A c \in BOOLEAN : /\ [x EXCEPT !.cancelled = c] \in MonitorType
                               /\ [x EXCEPT !.capped = c] \in MonitorType
          /\ \A f \in Flags : [x EXCEPT !.flags = f] \in MonitorType
BY DefaultIsFlags DEF Between, MonitorType

LEMMA MonitorTypes ==
    ASSUME TypeOK, NEW m \in Monitors, MonitorStep(m)
    PROVE  TypeOK'
<1> USE RecordTypes DEF TypeOK, Lines, States, MonitorPositions, MoveTo, Becomes,
        NextRound, SetState, Unsteady, MaySave, fileVars, mapVars, otherVars
<1>1. CASE Begin(m) BY <1>1 DEF Begin
<1>2. CASE ReadState(m)
  <2>1. mon' \in [Monitors -> MonitorType]
    BY <1>2 DEF ReadState
  <2>2. steady' \in [Monitors -> BOOLEAN]
    <3>1. steady' = steady \/ steady' = [steady EXCEPT ![m] = (Alive = {m})]
      BY <1>2 DEF ReadState
    <3>2. (Alive = {m}) \in BOOLEAN
      OBVIOUS
    <3>3. QED
      BY <3>1, <3>2
  <2>3. QED
    BY <1>2, <2>1, <2>2 DEF ReadState
<1>3. CASE Exit(m) BY <1>3 DEF Exit
<1>4. CASE Publish(m) BY <1>4 DEF Publish
<1>5. CASE ReadFlags(m) BY <1>5 DEF ReadFlags
<1>6. CASE NoStream(m)
  <2>1. PICK c \in BOOLEAN : Becomes(m, "waiting", c)
    BY <1>6 DEF NoStream
  <2>2. mon' \in [Monitors -> MonitorType]
    BY <2>1
  <2>3. QED
    BY <1>6, <2>2 DEF NoStream
<1>7. CASE Capped(m) BY <1>7 DEF Capped
<1>8. CASE Online(m)
  <2>1. PICK p \in {"session", "ended"} :
            mon' = [mon EXCEPT ![m].at = p, ![m].capped = FALSE]
    BY <1>8 DEF Online
  <2>2. mon' \in [Monitors -> MonitorType]
    BY <2>1
  <2>3. QED
    BY <1>8, <2>2 DEF Online
<1>9. CASE EndSession(m)
  <2>1. PICK c \in BOOLEAN : Becomes(m, "ended", c)
    BY <1>9 DEF EndSession
  <2>2. mon' \in [Monitors -> MonitorType]
    BY <2>1
  <2>3. QED
    BY <1>9, <2>2 DEF EndSession
<1>10. CASE Ended(m)
  <2>1. PICK p \in {"waiting", "forget"} :
            Becomes(m, p, mon[m].capped)
    BY <1>10 DEF Ended
  <2>2. mon' \in [Monitors -> MonitorType]
    BY <2>1
  <2>3. QED
    BY <1>10, <2>2 DEF Ended
<1>11. CASE Poll(m)
  <2>1. PICK c \in BOOLEAN : NextRound(m, c)
    BY <1>11 DEF Poll
  <2>2. mon' \in [Monitors -> MonitorType] /\ steady' \in [Monitors -> BOOLEAN]
    BY <2>1
  <2>3. mark' \in BOOLEAN
    BY <1>11 DEF Poll
  <2>4. QED
    BY <1>11, <2>2, <2>3 DEF Poll
<1>12. CASE Tail(m) BY <1>12 DEF Tail
<1>13. CASE Forget(m) BY <1>13 DEF Forget
<1>14. QED
  BY <1>1, <1>2, <1>3, <1>4, <1>5, <1>6, <1>7, <1>8, <1>9, <1>10, <1>11,
    <1>12, <1>13 DEF MonitorStep

LEMMA CancelTypes ==
    ASSUME mon \in [Monitors -> MonitorType], NEW n, CancelOf(n)
    PROVE  /\ mon' \in [Monitors -> MonitorType]
           /\ \A m \in Monitors :
                 /\ mon'[m].at = mon[m].at /\ mon'[m].flags = mon[m].flags
                 /\ mon'[m].capped = mon[m].capped
                 /\ mon[m].cancelled => mon'[m].cancelled
                 /\ m = n /\ mon[m].at \in Listening => mon'[m].cancelled
<1> SUFFICES ASSUME NEW m \in Monitors
             PROVE  /\ mon'[m] \in MonitorType
                    /\ mon'[m].at = mon[m].at /\ mon'[m].flags = mon[m].flags
                    /\ mon'[m].capped = mon[m].capped
                    /\ mon[m].cancelled => mon'[m].cancelled
                    /\ m = n /\ mon[m].at \in Listening => mon'[m].cancelled
  BY DEF CancelOf
<1> DEFINE c == mon[m].cancelled \/ (m = n /\ mon[m].at \in Listening)
<1>1. mon'[m] = [mon[m] EXCEPT !.cancelled = c]
  BY DEF CancelOf
<1>2. c \in BOOLEAN /\ mon[m] \in MonitorType
  OBVIOUS
<1>3. mon'[m] \in MonitorType
  BY <1>1, <1>2, RecordTypes
<1>4. /\ mon'[m].at = mon[m].at /\ mon'[m].flags = mon[m].flags
      /\ mon'[m].capped = mon[m].capped /\ mon'[m].cancelled = c
  BY <1>1, <1>2 DEF MonitorType
<1>5. QED
  BY <1>3, <1>4

LEMMA StartTypes ==
    ASSUME TypeOK, StartMonitor
    PROVE  /\ mon' \in [Monitors -> MonitorType] /\ active' \in BOOLEAN
           /\ steady' \in [Monitors -> BOOLEAN]
           /\ \A m \in Monitors : ~steady'[m]
           /\ \A m \in Monitors : mon'[m].at \in {mon[m].at, "new"}
<1> DEFINE d == CHOOSE m \in Monitors : mon[m].at = "dead"
<1>1. d \in Monitors
  BY DEF StartMonitor, Alive
<1>2. mon' = [mon EXCEPT ![d] = Between("new", FALSE)]
  BY DEF StartMonitor
<1>3. Between("new", FALSE) \in MonitorType /\ Between("new", FALSE).at = "new"
  BY RecordTypes DEF MonitorPositions, Between
<1>4. QED
  BY <1>1, <1>2, <1>3 DEF StartMonitor, TypeOK, Unsteady

LEMMA RequestTypes ==
    /\ NoRequest \in RequestType
    /\ \A x \in RequestType, p \in RequestPositions :
          [x EXCEPT !.at = p] \in RequestType
    /\ \A p \in RequestPositions, b \in BOOLEAN :
          [at |-> p, mode |-> b] \in RequestType
BY DEF NoRequest, RequestType, RequestPositions

LEMMA AskedTypes ==
    ASSUME TypeOK, NEW r, NEW op, Asked(r, op)
    PROVE  commands' \in 0..MaxCommands /\ looked' \in BOOLEAN /\ reload' = reload
<1>1. commands \in Nat /\ commands < MaxCommands /\ commands' = commands + 1
  BY CommandsAssumption DEF TypeOK, Asked
<1>2. commands' \in 0..MaxCommands
  BY <1>1, CommandsAssumption
<1>3. QED
  BY <1>2 DEF Asked

LEMMA GoToTypes ==
    ASSUME req \in [Requests -> RequestType], NEW r \in Requests,
           NEW p \in RequestPositions, GoTo(r, p)
    PROVE  req' \in [Requests -> RequestType]
BY RequestTypes DEF GoTo

LEMMA DoneTypes ==
    ASSUME req \in [Requests -> RequestType], NEW r \in Requests, Done(r)
    PROVE  req' \in [Requests -> RequestType]
BY RequestTypes DEF Done

LEMMA AskTypes ==
    ASSUME TypeOK, NEW r \in Requests, Ask(r)
    PROVE  TypeOK'
<1> USE RequestTypes, AskedTypes, GoToTypes DEF TypeOK, Lines, States,
        RequestPositions, SetState, Unsteady, SaveLine, fileVars, mapVars
<1>1. CASE Pause(r) BY <1>1 DEF Pause
<1>2. CASE Resume(r) BY <1>2 DEF Resume
<1>3. CASE Delete(r) BY <1>3 DEF Delete
<1>4. CASE Restart(r) BY <1>4 DEF Restart
<1>5. CASE All(r, "pauseAll", "off") BY <1>5 DEF All
<1>6. CASE All(r, "resumeAll", "on") BY <1>6 DEF All
<1>7. ASSUME NEW f \in Flags, SetFlags(r, f) PROVE TypeOK'
  <2>1. PICK b \in BOOLEAN :
            req' = [req EXCEPT ![r] = [at |-> "flagsSave", mode |-> b]]
    BY <1>7 DEF SetFlags, ModeChanges
  <2>2. req' \in [Requests -> RequestType]
    BY <2>1
  <2>3. QED
    BY <1>7, <2>2 DEF SetFlags
<1>8. ASSUME NEW f \in Flags, NEW op, Add(r, op, f) PROVE TypeOK'
  <2>1. PICK b \in BOOLEAN :
            req' = [req EXCEPT ![r] = [at |-> "addCheck", mode |-> b]]
    BY <1>8 DEF Add
  <2>2. req' \in [Requests -> RequestType]
    BY <2>1
  <2>3. QED
    BY <1>8, <2>2 DEF Add
<1>9. QED
  BY <1>1, <1>2, <1>3, <1>4, <1>5, <1>6, <1>7, <1>8 DEF Ask

LEMMA HandleTypes ==
    ASSUME TypeOK, NEW r \in Requests, Handle(r)
    PROVE  TypeOK'
<1> USE RequestTypes, GoToTypes, DoneTypes DEF TypeOK, Lines, States,
        RequestPositions, At, SetState, Unsteady, SaveLine, MaySave, CancelSlot,
        fileVars, mapVars
<1>1. CASE PauseCancel(r)
  <2>1. mon' \in [Monitors -> MonitorType]
    BY <1>1, CancelTypes DEF PauseCancel
  <2>2. QED
    BY <1>1, <2>1 DEF PauseCancel
<1>2. CASE PauseSave(r) BY <1>2 DEF PauseSave
<1>3. CASE ResumeSave(r) BY <1>3 DEF ResumeSave
<1>4. CASE CheckActive(r)
  <2>1. req' \in [Requests -> RequestType]
    BY <1>4 DEF CheckActive
  <2>2. QED
    BY <1>4, <2>1 DEF CheckActive
<1>5. CASE Spawn(r)
  BY <1>5, StartTypes DEF Spawn
<1>6. CASE DeleteCancel(r)
  <2>1. mon' \in [Monitors -> MonitorType]
    BY <1>6, CancelTypes DEF DeleteCancel
  <2>2. QED
    BY <1>6, <2>1 DEF DeleteCancel
<1>7. CASE DeleteSave(r) BY <1>7 DEF DeleteSave
<1>8. CASE DeleteForget(r) BY <1>8 DEF DeleteForget
<1>9. CASE AddCheck(r)
  <2>1. req' \in [Requests -> RequestType]
    BY <1>9 DEF AddCheck
  <2>2. QED
    BY <1>9, <2>1 DEF AddCheck
<1>10. CASE AddSave(r) BY <1>10 DEF AddSave
<1>11. CASE AddShow(r)
  <2>1. req' \in [Requests -> RequestType]
    BY <1>11 DEF AddShow
  <2>2. QED
    BY <1>11, <2>1 DEF AddShow
<1>12. CASE FlagsSave(r) BY <1>12 DEF FlagsSave
<1>13. CASE FlagsMark(r) BY <1>13 DEF FlagsMark
<1>14. CASE FlagsCancel(r)
  <2>1. mon' \in [Monitors -> MonitorType]
    BY <1>14, CancelTypes DEF FlagsCancel
  <2>2. QED
    BY <1>14, <2>1 DEF FlagsCancel
<1>15. CASE RestartCancel(r)
  <2>1. mon' \in [Monitors -> MonitorType]
    BY <1>15, CancelTypes DEF RestartCancel
  <2>2. QED
    BY <1>15, <2>1 DEF RestartCancel
<1>16. CASE PauseAll(r)
  <2>1. req' \in [Requests -> RequestType]
    BY <1>16 DEF PauseAll
  <2>2. QED
    BY <1>16, <2>1 DEF PauseAll
<1>17. CASE PauseAllCancel(r)
  <2>1. mon' \in [Monitors -> MonitorType]
    BY <1>17, CancelTypes DEF PauseAllCancel
  <2>2. QED
    BY <1>17, <2>1 DEF PauseAllCancel
<1>18. CASE ResumeAll(r)
  <2>1. req' \in [Requests -> RequestType]
    BY <1>18 DEF ResumeAll
  <2>2. QED
    BY <1>18, <2>1 DEF ResumeAll
<1>19. QED
  BY <1>1, <1>2, <1>3, <1>4, <1>5, <1>6, <1>7, <1>8, <1>9, <1>10, <1>11,
    <1>12, <1>13, <1>14, <1>15, <1>16, <1>17, <1>18 DEF Handle

LEMMA ReloadRecords ==
    \A p \in ReloadPositions, l \in Lines, s \in States :
        [at |-> p, line |-> l, state |-> s] \in ReloadType
BY DEF ReloadType

LEMMA ReloadTypes ==
    ASSUME TypeOK, Reload
    PROVE  TypeOK'
<1> USE DEF TypeOK, Lines, States, ReloadAt, ReloadOn, SetState, Unsteady,
        CancelSlot, fileVars, mapVars
<1> USE ReloadRecords DEF NoReload, ReloadPositions, ReloadTo, Reloaded
<1>1. CASE ReloadRead
  <2>1. reload' \in ReloadType
    BY <1>1 DEF ReloadRead
  <2>2. looked' \in BOOLEAN
    BY <1>1 DEF ReloadRead, Settled
  <2>3. QED
    BY <1>1, <2>1, <2>2 DEF ReloadRead
<1>2. CASE ReloadFlags
  <2>1. reload.line \in Lines
    BY DEF ReloadType
  <2>2. reload' \in ReloadType
    BY <1>2, <2>1 DEF ReloadFlags
  <2>3. QED
    BY <1>2, <2>2 DEF ReloadFlags
<1>3. CASE ReloadAct
  <2>1. reload' \in ReloadType
    BY <1>3 DEF ReloadAct
  <2>2. state' \in States /\ steady' \in [Monitors -> BOOLEAN]
    BY <1>3 DEF ReloadAct
  <2>3. QED
    BY <1>3, <2>1, <2>2 DEF ReloadAct
<1>4. CASE ReloadCancel
  <2>1. mon' \in [Monitors -> MonitorType]
    BY <1>4, CancelTypes DEF ReloadCancel
  <2>2. QED
    BY <1>4, <2>1 DEF ReloadCancel
<1>5. CASE ReloadCheck
  <2>1. reload' \in ReloadType
    BY <1>5 DEF ReloadCheck
  <2>2. QED
    BY <1>5, <2>1 DEF ReloadCheck
<1>6. CASE ReloadSpawn BY <1>6, StartTypes DEF ReloadSpawn
<1>7. CASE ReloadSweep
  <2>1. reload' \in ReloadType
    BY <1>7 DEF ReloadSweep
  <2>2. state' \in States /\ steady' \in [Monitors -> BOOLEAN]
    BY <1>7 DEF ReloadSweep
  <2>3. QED
    BY <1>7, <2>1, <2>2 DEF ReloadSweep
<1>8. CASE ReloadSweepCancel
  <2>1. mon' \in [Monitors -> MonitorType]
    BY <1>8, CancelTypes DEF ReloadSweepCancel
  <2>2. QED
    BY <1>8, <2>1 DEF ReloadSweepCancel
<1>9. CASE ReloadSweepForget BY <1>9 DEF ReloadSweepForget
<1>10. QED
  BY <1>1, <1>2, <1>3, <1>4, <1>5, <1>6, <1>7, <1>8, <1>9 DEF Reload

LEMMA InitTypes == Init => TypeOK
<1> SUFFICES ASSUME Init PROVE TypeOK
  OBVIOUS
<1>1. mon \in [Monitors -> MonitorType]
  BY RecordTypes DEF Init, MonitorPositions
<1>2. req \in [Requests -> RequestType]
  BY RequestTypes DEF Init
<1>3. reload \in ReloadType
  BY DEF Init, NoReload, ReloadType, ReloadPositions, Lines, States
<1>4. commands \in 0..MaxCommands
  BY CommandsAssumption DEF Init
<1>5. QED
  BY <1>1, <1>2, <1>3, <1>4 DEF Init, TypeOK, Lines, States

LEMMA StepTypes == TypeOK /\ [Next]_vars => TypeOK'
<1> SUFFICES ASSUME TypeOK, [Next]_vars PROVE TypeOK'
  OBVIOUS
<1>1. ASSUME NEW m \in Monitors, MonitorStep(m) PROVE TypeOK'
  BY <1>1, MonitorTypes
<1>2. ASSUME NEW r \in Requests, Ask(r) PROVE TypeOK'
  BY <1>2, AskTypes
<1>3. ASSUME NEW r \in Requests, Handle(r) PROVE TypeOK'
  BY <1>3, HandleTypes
<1>4. CASE Edit
  <2>1. commands \in Nat /\ commands < MaxCommands /\ commands' = commands + 1
    BY <1>4, CommandsAssumption DEF TypeOK, Edit
  <2>2. commands' \in 0..MaxCommands
    BY <2>1, CommandsAssumption
  <2>3. QED
    BY <1>4, <2>2 DEF Edit, TypeOK, mapVars
<1>5. CASE Save BY <1>5 DEF Save, TypeOK, mapVars, otherVars
<1>6. CASE Reload BY <1>6, ReloadTypes
<1>7. CASE UNCHANGED vars BY <1>7 DEF vars, fileVars, mapVars, TypeOK
<1>8. QED
  BY <1>1, <1>2, <1>3, <1>4, <1>5, <1>6, <1>7 DEF Next

-----------------------------------------------------------------------------
(* What steps do to monitors.                                              *)

\* A step of m that leaves the others alone and takes it to p.
Moved(m, p) ==
    mon'[m].at = p /\ \A n \in Monitors \ {m} : mon'[n] = mon[n]

LEMMA MoveToMoves ==
    ASSUME TypeOK, NEW m \in Monitors, NEW p, MoveTo(m, p)
    PROVE  /\ Moved(m, p) /\ mon'[m].flags = mon[m].flags
           /\ mon'[m].cancelled = mon[m].cancelled
BY DEF TypeOK, MoveTo, MonitorType, Moved

LEMMA BecomesMoves ==
    ASSUME TypeOK, NEW m \in Monitors, NEW p, NEW c, Becomes(m, p, c)
    PROVE  Moved(m, p)
BY DEF TypeOK, Becomes, Between, Moved

LEMMA OthersMove ==
    ASSUME TypeOK, NEW m \in Monitors
    PROVE  /\ Publish(m) => Moved(m, "flags")
           /\ ReadFlags(m) => Moved(m, "probe") /\ mon'[m].flags = flags
           /\ Online(m) => /\ \E p \in {"session", "ended"} : Moved(m, p)
                          /\ mon'[m].flags = mon[m].flags
                          /\ mon'[m].cancelled = mon[m].cancelled
BY DEF TypeOK, MonitorType, Publish, ReadFlags, Online, Moved

\* A monitor that takes a step is alive, leaves the others alone, is not new
\* afterwards, and stores a state only when it was.
MonitorEffect(m) ==
    /\ mon[m].at # "dead" /\ mon'[m].at # "new"
    /\ \A n \in Monitors \ {m} : mon'[n] = mon[n] /\ steady'[n] = steady[n]
    /\ state' = IF mon[m].at = "new" THEN "running" ELSE state
    /\ UNCHANGED <<flags, req, reload, looked>>

LEMMA MonitorEffects ==
    ASSUME TypeOK, NEW m \in Monitors, MonitorStep(m)
    PROVE  MonitorEffect(m)
<1> USE MoveToMoves, BecomesMoves, OthersMove DEF MonitorEffect, Moved, NextRound,
        SetState, MaySave, fileVars, mapVars, otherVars
<1>1. steady \in [Monitors -> BOOLEAN]
  BY DEF TypeOK
<1> USE <1>1
<1>2. CASE Begin(m) BY <1>2 DEF Begin
<1>3. CASE ReadState(m) BY <1>3 DEF ReadState
<1>4. CASE Exit(m) BY <1>4 DEF Exit
<1>5. CASE Publish(m) BY <1>5 DEF Publish
<1>6. CASE ReadFlags(m) BY <1>6 DEF ReadFlags
<1>7. CASE NoStream(m) BY <1>7 DEF NoStream
<1>8. CASE Capped(m) BY <1>8 DEF Capped
<1>9. CASE Online(m) BY <1>9 DEF Online
<1>10. CASE EndSession(m) BY <1>10 DEF EndSession
<1>11. CASE Ended(m) BY <1>11 DEF Ended
<1>12. CASE Poll(m)
  <2>1. PICK c \in BOOLEAN : NextRound(m, c)
    BY <1>12 DEF Poll
  <2>2. Moved(m, "top")
    BY <2>1
  <2>3. QED
    BY <1>12, <2>1, <2>2 DEF Poll
<1>13. CASE Tail(m) BY <1>13 DEF Tail
<1>14. CASE Forget(m) BY <1>14 DEF Forget
<1>15. QED
  BY <1>2, <1>3, <1>4, <1>5, <1>6, <1>7, <1>8, <1>9, <1>10, <1>11, <1>12,
    <1>13, <1>14 DEF MonitorStep

\* The steps of requests, of the reload and of people leave the published
\* cancel alone and monitors where they are, or start one; what is steady
\* stays so only if the state is kept or becomes "running" and no monitor is
\* started.
OtherEffect ==
    /\ slot' = slot
    /\ state' = "none" => state = "none"
    /\ \A m \in Monitors :
          /\ mon'[m].at \in {mon[m].at, "new"}
          /\ steady'[m] =>
                /\ steady[m] /\ state' \in {state, "running"}
                /\ \A n \in Monitors : mon'[n].at = mon[n].at
                /\ mon'[m].flags = mon[m].flags
                /\ mon[m].cancelled => mon'[m].cancelled

\* New flags are not stored under a steady iteration unless a handler is at
\* work, and no handler ends its work before it cancelled the iteration.
FlagsEffect ==
    \A m \in Monitors :
        steady'[m] =>
            /\ flags' = flags \/ Changing'
            /\ Changing => \/ Changing'
                           \/ Steady(m) /\ mon[m].at \in Listening =>
                                 mon'[m].cancelled

LEMMA CancelEffect ==
    ASSUME TypeOK, NEW n, CancelOf(n), UNCHANGED <<slot, state, steady>>
    PROVE  OtherEffect
BY CancelTypes DEF OtherEffect, TypeOK

LEMMA StartEffect ==
    ASSUME TypeOK, StartMonitor, UNCHANGED <<slot, state>>
    PROVE  OtherEffect
BY StartTypes DEF OtherEffect

LEMMA StateEffect ==
    ASSUME TypeOK, UNCHANGED <<mon, slot>>,
           \/ UNCHANGED <<state, steady>>
           \/ UNCHANGED state /\ Unsteady
           \/ \E s \in {"running", "paused", "deleted"} : SetState(s)
    PROVE  OtherEffect
BY DEF OtherEffect, SetState, Unsteady

LEMMA UnsteadyEffect ==
    ASSUME Unsteady
    PROVE  FlagsEffect
BY DEF FlagsEffect, Unsteady

LEMMA IdleEffect ==
    ASSUME UNCHANGED <<flags, req>>
    PROVE  FlagsEffect
BY DEF FlagsEffect, Changing

LEMMA PassingEffect ==
    ASSUME TypeOK, NEW r \in Requests, UNCHANGED flags,
           req[r].at \notin Phases, req' = req \/ Done(r) \/ \E p : GoTo(r, p)
    PROVE  FlagsEffect
<1>1. \A q \in Requests \ {r} : req'[q] = req[q]
  BY DEF Done, GoTo, TypeOK
<1>2. QED
  BY <1>1 DEF FlagsEffect, Changing

LEMMA PhaseEffect ==
    ASSUME TypeOK, NEW r \in Requests, UNCHANGED flags,
           NEW p \in Phases, GoTo(r, p)
    PROVE  FlagsEffect
<1>1. req'[r].at = p
  BY DEF GoTo, TypeOK, RequestType
<1>2. QED
  BY <1>1 DEF FlagsEffect, Changing

LEMMA AskEffects ==
    ASSUME TypeOK, NEW r \in Requests, Ask(r)
    PROVE  OtherEffect /\ FlagsEffect /\ ~looked'
<1> USE StateEffect, PassingEffect DEF Asked, Phases, fileVars, mapVars
<1>1. CASE Pause(r) BY <1>1 DEF Pause
<1>2. CASE Resume(r) BY <1>2 DEF Resume
<1>3. CASE Delete(r) BY <1>3 DEF Delete
<1>4. CASE Restart(r) BY <1>4 DEF Restart
<1>5. CASE All(r, "pauseAll", "off") BY <1>5 DEF All
<1>6. CASE All(r, "resumeAll", "on") BY <1>6 DEF All
<1>7. ASSUME NEW f \in Flags, SetFlags(r, f)
      PROVE  OtherEffect /\ FlagsEffect /\ ~looked'
  <2>1. req'[r].at = "flagsSave"
    BY <1>7 DEF SetFlags, TypeOK
  <2>2. FlagsEffect
    BY <2>1 DEF FlagsEffect, Changing
  <2>3. QED
    BY <1>7, <2>2 DEF SetFlags
<1>8. ASSUME NEW f \in Flags, NEW op, Add(r, op, f)
      PROVE  OtherEffect /\ FlagsEffect /\ ~looked'
  BY <1>8, UnsteadyEffect DEF Add
<1>9. QED
  BY <1>1, <1>2, <1>3, <1>4, <1>5, <1>6, <1>7, <1>8 DEF Ask

LEMMA HandleEffects ==
    ASSUME TypeOK, NEW r \in Requests, Handle(r)
    PROVE  OtherEffect /\ FlagsEffect /\ req[r].at # "idle" /\ looked' = looked
<1> USE StateEffect, PassingEffect DEF At, Phases, fileVars, mapVars
<1>1. CASE PauseCancel(r)
  BY <1>1, CancelEffect DEF PauseCancel, CancelSlot
<1>2. CASE PauseSave(r) BY <1>2 DEF PauseSave
<1>3. CASE ResumeSave(r) BY <1>3 DEF ResumeSave
<1>4. CASE CheckActive(r) BY <1>4 DEF CheckActive
<1>5. CASE Spawn(r)
  BY <1>5, StartEffect DEF Spawn
<1>6. CASE DeleteCancel(r)
  BY <1>6, CancelEffect DEF DeleteCancel, CancelSlot
<1>7. CASE DeleteSave(r) BY <1>7 DEF DeleteSave
<1>8. CASE DeleteForget(r) BY <1>8 DEF DeleteForget
<1>9. CASE AddCheck(r) BY <1>9 DEF AddCheck
<1>10. CASE AddSave(r) BY <1>10 DEF AddSave
<1>11. CASE AddShow(r) BY <1>11 DEF AddShow
<1>12. CASE FlagsSave(r)
  BY <1>12, PhaseEffect DEF FlagsSave, MaySave
<1>13. CASE FlagsMark(r)
  BY <1>13, PhaseEffect DEF FlagsMark, MaySave
<1>14. CASE FlagsCancel(r)
  <2>1. FlagsEffect
    BY <1>14, CancelTypes DEF FlagsCancel, FlagsEffect, Steady, CancelSlot, TypeOK
  <2>2. OtherEffect
    BY <1>14, CancelEffect DEF FlagsCancel, CancelSlot
  <2>3. QED
    BY <1>14, <2>1, <2>2 DEF FlagsCancel
<1>15. CASE RestartCancel(r)
  BY <1>15, CancelEffect DEF RestartCancel, CancelSlot
<1>16. CASE PauseAll(r) BY <1>16 DEF PauseAll
<1>17. CASE PauseAllCancel(r)
  BY <1>17, CancelEffect DEF PauseAllCancel, CancelSlot
<1>18. CASE ResumeAll(r) BY <1>18 DEF ResumeAll
<1>19. QED
  BY <1>1, <1>2, <1>3, <1>4, <1>5, <1>6, <1>7, <1>8, <1>9, <1>10, <1>11,
    <1>12, <1>13, <1>14, <1>15, <1>16, <1>17, <1>18 DEF Handle

LEMMA ReloadEffects ==
    ASSUME TypeOK, Reload
    PROVE  OtherEffect /\ FlagsEffect
<1> USE StateEffect, IdleEffect DEF ReloadAt, ReloadOn, fileVars, mapVars
<1>1. CASE ReloadRead BY <1>1 DEF ReloadRead
<1>2. CASE ReloadFlags
  BY <1>2, UnsteadyEffect DEF ReloadFlags
<1>3. CASE ReloadAct BY <1>3 DEF ReloadAct
<1>4. CASE ReloadCancel
  BY <1>4, CancelEffect DEF ReloadCancel, CancelSlot
<1>5. CASE ReloadCheck BY <1>5 DEF ReloadCheck
<1>6. CASE ReloadSpawn
  BY <1>6, StartEffect DEF ReloadSpawn
<1>7. CASE ReloadSweep BY <1>7 DEF ReloadSweep
<1>8. CASE ReloadSweepCancel
  BY <1>8, CancelEffect DEF ReloadSweepCancel, CancelSlot
<1>9. CASE ReloadSweepForget BY <1>9 DEF ReloadSweepForget
<1>10. QED
  BY <1>1, <1>2, <1>3, <1>4, <1>5, <1>6, <1>7, <1>8, <1>9 DEF Reload

-----------------------------------------------------------------------------
(* The invariants.                                                         *)

LEMMA OtherSteadiness ==
    ASSUME TypeOK, NoneEarly, SteadyInv, OtherEffect, FlagsEffect
    PROVE  NoneEarly' /\ SteadyInv'
<1>1. NoneEarly'
  BY DEF OtherEffect, NoneEarly
<1>2. ASSUME NEW m \in Monitors, steady'[m]
      PROVE  Steady(m)' /\ Applied(m)'
  <2>1. Steady(m) /\ Applied(m) /\ mon'[m].at = mon[m].at
        /\ \A n \in Monitors : mon'[n].at = mon[n].at
    BY <1>2 DEF OtherEffect, SteadyInv
  <2>2. Steady(m)'
    BY <1>2, <2>1 DEF OtherEffect, Steady
  <2>3. CASE Changing'
    BY <2>2, <2>3 DEF Applied
  <2>4. CASE ~Changing'
    <3>1. flags' = flags
      BY <1>2, <2>4 DEF FlagsEffect
    <3>2. mon'[m].flags = mon[m].flags /\ (mon[m].cancelled => mon'[m].cancelled)
      BY <1>2 DEF OtherEffect
    <3>3. mon[m].at \in {"probe", "session"} => mon[m].at \in Listening
      BY DEF Listening
    <3>4. QED
      BY <1>2, <2>1, <2>2, <2>4, <3>1, <3>2, <3>3 DEF Applied, FlagsEffect
  <2>5. QED
    BY <2>2, <2>3, <2>4
<1>3. QED
  BY <1>1, <1>2 DEF SteadyInv

LEMMA MonitorSteadiness ==
    ASSUME TypeOK, NoneEarly, SteadyInv, NEW m \in Monitors, MonitorStep(m)
    PROVE  NoneEarly' /\ SteadyInv'
<1>1. MonitorEffect(m)
  BY MonitorEffects
<1>2. NoneEarly'
  BY <1>1 DEF MonitorEffect, NoneEarly
<1>3. ASSUME NEW n \in Monitors \ {m} PROVE ~steady'[n]
  BY <1>1, <1>3 DEF MonitorEffect, SteadyInv, Steady
<1>4. ASSUME steady'[m] PROVE Steady(m)' /\ Applied(m)'
  <2>1. steady[m] => Steady(m) /\ Applied(m)
    BY DEF SteadyInv
  <2> USE <1>1, <1>4, <2>1, MoveToMoves, BecomesMoves, OthersMove
          DEF Steady, Applied, Moved, MonitorEffect, Listening,
              fileVars, mapVars, otherVars
  <2>2. CASE Begin(m)
    BY <2>2 DEF Begin, SetState
  <2>3. CASE ReadState(m)
    <3>1. mon[m].at = "top" /\ ~steady[m]
      BY <2>3 DEF ReadState
    <3>2. state \notin {"deleted", "paused"} /\ MoveTo(m, "open") /\ Alive = {m}
      BY <2>3, <3>1 DEF ReadState, TypeOK
    <3>3. state = "running"
      BY <3>1, <3>2 DEF NoneEarly, TypeOK, States
    <3>4. \A n \in Monitors \ {m} : mon[n].at = "dead"
      BY <3>2 DEF Alive
    <3>5. QED
      BY <3>1, <3>2, <3>3, <3>4
  <2>4. CASE Exit(m) BY <2>4 DEF Exit
  <2>5. CASE Publish(m)
    <3>1. Moved(m, "flags") /\ slot' = m /\ steady'[m] = steady[m]
      BY <2>5 DEF Publish
    <3>2. mon[m].at = "open" /\ Steady(m)
      BY <2>5, <3>1 DEF Publish
    <3>3. Steady(m)'
      BY <3>1, <3>2
    <3>4. Applied(m)'
      BY <2>5, <3>1
    <3>5. QED
      BY <3>3, <3>4
  <2>6. CASE ReadFlags(m)
    <3>1. Moved(m, "probe") /\ slot' = slot /\ steady'[m] = steady[m]
      BY <2>6 DEF ReadFlags
    <3>2. mon[m].at = "flags" /\ Steady(m)
      BY <2>6, <3>1 DEF ReadFlags
    <3>3. Steady(m)'
      BY <3>1, <3>2
    <3>4. Applied(m)'
      BY <2>6, <3>1, OthersMove
    <3>5. QED
      BY <3>3, <3>4
  <2>7. CASE NoStream(m) BY <2>7 DEF NoStream
  <2>8. CASE Capped(m) BY <2>8 DEF Capped
  <2>9. CASE Online(m)
    <3>1. PICK p \in {"session", "ended"} : Moved(m, p)
      BY <2>9, OthersMove
    <3>2. mon'[m].flags = mon[m].flags /\ mon'[m].cancelled = mon[m].cancelled
      BY <2>9, OthersMove
    <3>3. mon[m].at = "probe" /\ slot' = slot /\ steady'[m] = steady[m]
      BY <2>9 DEF Online
    <3>4. Steady(m) /\ Applied(m) /\ (Changing <=> Changing')
      BY <3>3 DEF Changing
    <3>5. QED
      BY <3>1, <3>2, <3>3, <3>4
  <2>10. CASE EndSession(m) BY <2>10 DEF EndSession
  <2>11. CASE Ended(m) BY <2>11 DEF Ended
  <2>12. CASE Poll(m)
    <3>1. ~steady'[m]
      BY <2>12 DEF Poll, NextRound, TypeOK
    <3>2. QED
      BY <3>1
  <2>13. CASE Tail(m) BY <2>13 DEF Tail
  <2>14. CASE Forget(m)
    <3>1. ~steady'[m]
      BY <2>14 DEF Forget, NextRound, TypeOK
    <3>2. QED
      BY <3>1
  <2>15. QED
  BY <2>2, <2>3, <2>4, <2>5, <2>6, <2>7, <2>8, <2>9, <2>10, <2>11, <2>12,
    <2>13, <2>14 DEF MonitorStep
<1>5. QED
  BY <1>2, <1>3, <1>4 DEF SteadyInv

LEMMA ReloadMoves ==
    /\ Reloaded => reload'.at = "idle"
    /\ \A p : ReloadTo(p) => reload'.at = p
BY DEF Reloaded, ReloadTo, NoReload

LEMMA ReloadSettles ==
    ASSUME TypeOK, ReloadInv, Reload
    PROVE  ReloadInv'
<1> USE ReloadMoves DEF ReloadInv, ReloadAt, ReloadOn, SetState, fileVars, mapVars
<1>1. CASE ReloadRead
  <2>1. SUFFICES ASSUME looked'
                 PROVE  \/ line = "off" /\ reload'.at = "flags" /\ reload'.line = "off"
                        \/ reload'.at = "sweep"
    BY <1>1 DEF ReloadRead, Settled
  <2>2. CASE line = "absent"
    BY <1>1, <2>2 DEF ReloadRead
  <2>3. CASE line # "absent"
    <3>1. Settled /\ reload' = [at |-> "flags", line |-> line, state |-> "none"]
      BY <1>1, <2>1, <2>3 DEF ReloadRead
    <3>2. line = "off"
      BY <3>1, <2>3 DEF Settled, TypeOK, Lines
    <3>3. QED
      BY <3>1, <3>2
  <2>4. QED
    BY <2>2, <2>3
<1>2. CASE ReloadFlags BY <1>2 DEF ReloadFlags
<1>3. CASE ReloadAct
  <2>1. SUFFICES ASSUME looked'
                 PROVE  reload'.at \in {"idle", "cancel"} /\ state' # "running"
    BY <1>3 DEF ReloadAct
  <2>2. looked /\ reload.line = "off" /\ reload.state = state
    BY <1>3, <2>1 DEF ReloadAct
  <2>3. QED
    BY <1>3, <2>2 DEF ReloadAct
<1>4. CASE ReloadCancel
  BY <1>4, CancelTypes DEF ReloadCancel, CancelSlot, TypeOK
<1>5. CASE ReloadCheck BY <1>5 DEF ReloadCheck
<1>6. CASE ReloadSpawn BY <1>6 DEF ReloadSpawn
<1>7. CASE ReloadSweep
  <2>1. \/ state \in {"none", "deleted"} /\ state' = state /\ reload'.at = "idle"
        \/ state' = "deleted" /\ reload'.at = "sweepCancel"
    BY <1>7 DEF ReloadSweep
  <2>2. QED
    BY <1>7, <2>1 DEF ReloadSweep
<1>8. CASE ReloadSweepCancel
  BY <1>8, CancelTypes DEF ReloadSweepCancel, CancelSlot, TypeOK
<1>9. CASE ReloadSweepForget BY <1>9 DEF ReloadSweepForget
<1>10. QED
  BY <1>1, <1>2, <1>3, <1>4, <1>5, <1>6, <1>7, <1>8, <1>9 DEF Reload

-----------------------------------------------------------------------------
\* The invariant is inductive: types, that a streamer without a state has no
\* monitor past its first step, what a steady iteration can rely on, and what
\* the reload has yet to do (internal/recorder's monitors, requests, reload).
THEOREM Inductive == Spec => []IInv
<1>1. Init => IInv
  <2> SUFFICES ASSUME Init PROVE IInv
    OBVIOUS
  <2>1. TypeOK
    BY InitTypes
  <2>2. NoneEarly
    BY RecordTypes DEF Init, NoneEarly, Between
  <2>3. SteadyInv /\ ReloadInv
    BY DEF Init, SteadyInv, ReloadInv
  <2>4. QED
    BY <2>1, <2>2, <2>3 DEF IInv
<1>2. IInv /\ [Next]_vars => IInv'
  <2> SUFFICES ASSUME IInv, [Next]_vars PROVE IInv'
    OBVIOUS
  <2>1. TypeOK /\ NoneEarly /\ SteadyInv /\ ReloadInv /\ TypeOK'
    BY StepTypes DEF IInv
  <2>2. ASSUME NEW m \in Monitors, MonitorStep(m) PROVE IInv'
    <3>1. NoneEarly' /\ SteadyInv' /\ MonitorEffect(m)
      BY <2>1, <2>2, MonitorSteadiness, MonitorEffects
    <3>2. ReloadInv'
      BY <2>1, <3>1 DEF ReloadInv, MonitorEffect
    <3>3. QED
      BY <2>1, <3>1, <3>2 DEF IInv
  <2>3. ASSUME NEW r \in Requests, Ask(r) PROVE IInv'
    <3>1. NoneEarly' /\ SteadyInv' /\ ~looked'
      BY <2>1, <2>3, AskEffects, OtherSteadiness
    <3>2. QED
      BY <2>1, <3>1 DEF IInv, ReloadInv
  <2>4. ASSUME NEW r \in Requests, Handle(r) PROVE IInv'
    <3>1. NoneEarly' /\ SteadyInv' /\ req[r].at # "idle" /\ looked' = looked
      BY <2>1, <2>4, HandleEffects, OtherSteadiness
    <3>2. QED
      BY <2>1, <3>1 DEF IInv, ReloadInv
  <2>5. CASE Edit
    <3>1. OtherEffect /\ FlagsEffect /\ ~looked'
      BY <2>1, <2>5, StateEffect, IdleEffect DEF Edit, mapVars
    <3>2. QED
      BY <2>1, <3>1, OtherSteadiness DEF IInv, ReloadInv
  <2>6. CASE Save
    <3>1. OtherEffect /\ FlagsEffect
      BY <2>1, <2>6, StateEffect, IdleEffect DEF Save, mapVars, otherVars
    <3>2. ReloadInv'
      BY <2>1, <2>6 DEF Save, mapVars, otherVars, ReloadInv
    <3>3. QED
      BY <2>1, <3>1, <3>2, OtherSteadiness DEF IInv
  <2>7. CASE Reload
    BY <2>1, <2>7, ReloadEffects, OtherSteadiness, ReloadSettles DEF IInv
  <2>8. CASE UNCHANGED vars
    <3>1. OtherEffect /\ FlagsEffect
      BY <2>1, <2>8, StateEffect, IdleEffect DEF vars, mapVars
    <3>2. ReloadInv'
      BY <2>1, <2>8 DEF vars, mapVars, ReloadInv
    <3>3. QED
      BY <2>1, <3>1, <3>2, OtherSteadiness DEF IInv
  <2>9. QED
    BY <2>2, <2>3, <2>4, <2>5, <2>6, <2>7, <2>8 DEF Next
<1>3. QED
  BY <1>1, <1>2, PTL DEF Spec

\* Every variable stays in its range, for any monitors, requests and flags.
THEOREM TypeCorrect == Spec => []TypeOK
<1>1. IInv => TypeOK
  BY DEF IInv
<1>2. QED
  BY <1>1, Inductive, PTL

\* No session goes on under settings that set_flags replaced, however many
\* requests, edits and reloads are interleaved with it (builtin_monitor.go:48,
\* builtin_api.go:352).
THEOREM FlagsAreApplied == Spec => []FlagsApplied
<1>1. IInv => FlagsApplied
  <2> SUFFICES ASSUME IInv, NEW m \in InSession, steady[m],
                      mon[m].flags # flags, ~mon[m].cancelled
               PROVE  \E r \in Requests : req[r].at \in Phases
    BY DEF FlagsApplied, Phases
  <2>1. Applied(m) /\ mon[m].at = "session"
    BY DEF IInv, SteadyInv, InSession
  <2>2. QED
    BY <2>1 DEF Applied, Changing
<1>2. QED
  BY <1>1, Inductive, PTL

\* A pass of the reload that finds the streamer paused or gone, with nothing
\* else under way, ends with the state paused, deleted or absent
\* (builtin_init.go:44-123).
THEOREM ReloadStopsIt == Spec => []ReloadStops
<1>1. IInv => ReloadStops
  BY DEF IInv, ReloadInv, ReloadStops
<1>2. QED
  BY <1>1, Inductive, PTL
=============================================================================
