----------------------------- MODULE MCServices ------------------------------
(***************************************************************************)
(* The services around uploads and recordings, for two runs of TLC.  They  *)
(* share no state, so an interleaving of two shows nothing that one alone  *)
(* does not: a behaviour is about one of them, part, and the others rest   *)
(* in one of their initial states.                                         *)
(***************************************************************************)
EXTENDS Sessions, LoginThrottle, Records, ConfigStore, Reports, Probes,
        CookieHealth, SelfUpdate, Bot, Hub, ProbePacing, Status, Recording,
        Selection

CONSTANTS Parts  \* the services a run is about

VARIABLES part

servicesVars == <<part, sessionVars, throttleVars, recordVars, configVars,
                  reportVars, probeVars, cookieVars, updateVars, botVars,
                  hubVars, pacingVars, statusVars, recordingVars, selectionVars>>

\* Where a service that rests is, of its initial states.
OthersRest ==
    /\ part # "sessions" =>
          table = {} /\ creds = CHOOSE c \in Credentials : TRUE
    /\ part # "config" => legacy = NoLegacy
    /\ part # "reports" => mailInterval = CHOOSE i \in Intervals : TRUE
    /\ part # "probes" => ~live
    /\ part # "cookies" => ~cookie
    /\ part # "bot" => \A k \in Streamers : entries[k] = "none"

Init ==
    /\ part \in Parts
    /\ SessionsInit /\ ThrottleInit /\ RecordsInit /\ ConfigInit /\ ReportsInit
    /\ ProbesInit /\ CookieInit /\ UpdateInit /\ BotInit /\ HubInit /\ PacingInit
    /\ StatusInit /\ RecordingInit /\ SelectionInit
    /\ OthersRest

\* The variables of every service but p stay.
OnlyMoves(p) ==
    /\ UNCHANGED part
    /\ IF p = "sessions" THEN TRUE ELSE UNCHANGED sessionVars
    /\ IF p = "throttle" THEN TRUE ELSE UNCHANGED throttleVars
    /\ IF p = "records" THEN TRUE ELSE UNCHANGED recordVars
    /\ IF p = "config" THEN TRUE ELSE UNCHANGED configVars
    /\ IF p = "reports" THEN TRUE ELSE UNCHANGED reportVars
    /\ IF p = "probes" THEN TRUE ELSE UNCHANGED probeVars
    /\ IF p = "cookies" THEN TRUE ELSE UNCHANGED cookieVars
    /\ IF p = "update" THEN TRUE ELSE UNCHANGED updateVars
    /\ IF p = "bot" THEN TRUE ELSE UNCHANGED botVars
    /\ IF p = "hub" THEN TRUE ELSE UNCHANGED hubVars
    /\ IF p = "pacing" THEN TRUE ELSE UNCHANGED pacingVars
    /\ IF p = "status" THEN TRUE ELSE UNCHANGED statusVars
    /\ IF p = "recording" THEN TRUE ELSE UNCHANGED recordingVars
    /\ IF p = "selection" THEN TRUE ELSE UNCHANGED selectionVars

Next ==
    \/ part = "sessions" /\ SessionsNext /\ OnlyMoves("sessions")
    \/ part = "throttle" /\ ThrottleNext /\ OnlyMoves("throttle")
    \/ part = "records" /\ RecordsNext /\ OnlyMoves("records")
    \/ part = "config" /\ ConfigNext /\ OnlyMoves("config")
    \/ part = "reports" /\ ReportsNext /\ OnlyMoves("reports")
    \/ part = "probes" /\ ProbesNext /\ OnlyMoves("probes")
    \/ part = "cookies" /\ CookieNext /\ OnlyMoves("cookies")
    \/ part = "update" /\ UpdateNext /\ OnlyMoves("update")
    \/ part = "bot" /\ BotNext /\ OnlyMoves("bot")
    \/ part = "hub" /\ HubNext /\ OnlyMoves("hub")
    \/ part = "pacing" /\ PacingNext /\ OnlyMoves("pacing")
    \/ part = "status" /\ StatusNext /\ OnlyMoves("status")
    \/ part = "recording" /\ RecordingNext /\ OnlyMoves("recording")
    \/ part = "selection" /\ SelectionNext /\ OnlyMoves("selection")

Spec == Init /\ [][Next]_servicesVars

\* A goroutine of the hub that can go on does; pages may stay open for ever.
HubFairness ==
    LET on == part = "hub"
    IN  /\ WF_hubVars(on /\ HubGoesOn)
        /\ \A c \in Clients : /\ WF_hubVars(on /\ ReaderGoesOn(c))
                              /\ WF_hubVars(on /\ WriterGoesOn(c))

\* Time passes, the mutex serves every goroutine, and a probe that may go on
\* does.
PacingFairness ==
    LET on == part = "pacing"
    IN  /\ WF_pacingVars(on /\ Tick)
        /\ \A r \in Rooms : /\ SF_pacingVars(on /\ LockGate(r))
                            /\ WF_pacingVars(on /\ (StampFetch(r) \/ Fetch(r)))

\* A monitor that can go on does; nobody has to ask for anything.
StatusFairness ==
    \A m \in Recorders : WF_statusVars(part = "status" /\ RecorderNext(m))

\* RecordStream runs, time passes and timers go off; select is fair to each of
\* its cases.  ffmpeg is under no obligation, and nobody has to cancel.
RecordingFairness ==
    LET on == part = "recording"
    IN  /\ WF_recordingVars(on /\ RecordStreamNext)
        /\ WF_recordingVars(on /\ TimePasses)
        /\ WF_recordingVars(on /\ KillByTimer)
        /\ WF_recordingVars(on /\ FirstShot)
        /\ SF_recordingVars(on /\ EndShots)
        /\ SF_recordingVars(on /\ SeeEnd)
        /\ SF_recordingVars(on /\ SeeCancelled)

FairSpec ==
    /\ Spec
    /\ HubFairness /\ PacingFairness /\ StatusFairness /\ RecordingFairness

\* The state of every service is of its type.
ServicesTypeOK ==
    /\ SessionsTypeOK /\ ThrottleTypeOK /\ RecordsTypeOK /\ ConfigTypeOK
    /\ ReportsTypeOK /\ ProbesTypeOK /\ CookieTypeOK /\ UpdateTypeOK
    /\ BotTypeOK /\ HubTypeOK /\ PacingTypeOK /\ StatusTypeOK /\ RecordingTypeOK
    /\ SelectionTypeOK
=============================================================================
