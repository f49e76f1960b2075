---------------------------- MODULE CookieHealth ----------------------------
(***************************************************************************)
(* The health of one platform's cookie                                     *)
(* (internal/recorder/builtin_cookiecheck.go): every monitor of the        *)
(* platform reports how its probe ended, and the health loop asks the      *)
(* platform where it has an interface for that.  The counter of errors has *)
(* a mutex; the verdict is a sync.Map, looked up in one step and stored in *)
(* another, by any of them.                                                *)
(***************************************************************************)
EXTENDS Integers, Sequences

CONSTANTS Watchers,     \* monitors of the platform
          HealthLoop,   \* the goroutine that asks the platform
          ErrorLimit,   \* failures in a row that make the cookie suspect
          MaxErrors     \* bound: failures in a row

ASSUME CookieAssumption ==
    /\ HealthLoop \notin Watchers
    /\ ErrorLimit \in Nat \ {0} /\ MaxErrors \in Nat

VARIABLES
  cookie,    \* platformCookie: one is configured
  verdict,   \* builtinCookieHealth: the state ("unknown" when there is none)
  failures,  \* consecutiveErrors
  reporters, \* per reporter: position, the state it sets, the one it found
  notice,    \* the last notice sent: "none", "alarm" or "recovered"
  suspected  \* history: the verdict was suspect since the last success

cookieVars == <<cookie, verdict, failures, reporters, notice, suspected>>

Reporters == Watchers \cup {HealthLoop}

Bad == {"invalid", "suspect"}
Verdicts == Bad \cup {"ok", "unknown"}

Quiet == [at |-> "idle", sets |-> "unknown", found |-> "unknown"]
Setting(s) == [at |-> "set", sets |-> s, found |-> "unknown"]

CookieTypeOK ==
    /\ cookie \in BOOLEAN /\ verdict \in Verdicts
    /\ failures \in 0..MaxErrors /\ suspected \in BOOLEAN
    /\ reporters \in [Reporters -> [at : {"idle", "failed", "succeeded", "set",
                                          "found"},
                                    sets : Verdicts, found : Verdicts]]
    /\ notice \in {"none", "alarm", "recovered"}

CookieInit ==
    /\ cookie \in BOOLEAN /\ verdict = "unknown" /\ failures = 0
    /\ reporters = [r \in Reporters |-> Quiet]
    /\ notice = "none" /\ suspected = FALSE

Reports(r, s) == reporters' = [reporters EXCEPT ![r] = s]

\* The cookies are replaced in the console: neither the counter nor the
\* verdict is touched.
ChangeCookie ==
    /\ cookie' = ~cookie
    /\ UNCHANGED <<verdict, failures, reporters, notice, suspected>>

\* recordCookieProbeOutcome, the counter set back under its mutex.
ProbeSucceeds(w) ==
    /\ reporters[w].at = "idle" /\ cookie
    /\ failures' = 0 /\ suspected' = FALSE
    /\ Reports(w, [Quiet EXCEPT !.at = "succeeded"])
    /\ UNCHANGED <<cookie, verdict, notice>>

\* A suspicion, no refusal, is lifted by a success.
LiftSuspicion(w) ==
    /\ reporters[w].at = "succeeded"
    /\ Reports(w, IF verdict = "suspect" THEN Setting("ok") ELSE Quiet)
    /\ UNCHANGED <<cookie, verdict, failures, notice, suspected>>

\* Mutant: the counter is read again after the mutex is released.
JudgeLater(w) ==
    \/ /\ reporters[w].at = "idle" /\ cookie /\ failures < MaxErrors
       /\ failures' = failures + 1
       /\ Reports(w, [Quiet EXCEPT !.at = "failed"])
       /\ UNCHANGED <<cookie, verdict, notice, suspected>>
    \/ /\ reporters[w].at = "failed"
       /\ Reports(w, IF failures = ErrorLimit THEN Setting("suspect") ELSE Quiet)
       /\ UNCHANGED <<cookie, verdict, failures, notice, suspected>>

\* A failure is counted, and judged by the count read under the mutex.
ProbeFails(w) ==
    /\ reporters[w].at = "idle" /\ cookie /\ failures < MaxErrors
    /\ failures' = failures + 1
    /\ Reports(w, IF failures' = ErrorLimit THEN Setting("suspect") ELSE Quiet)
    /\ UNCHANGED <<cookie, verdict, notice, suspected>>

\* probeBilibiliCookie, probeTwitchCookie: the platform accepts the cookie,
\* refuses it, or there is no usable answer.
AskPlatform ==
    /\ reporters[HealthLoop].at = "idle" /\ cookie
    /\ \E s \in {"ok", "invalid", "unknown"} : Reports(HealthLoop, Setting(s))
    /\ UNCHANGED <<cookie, verdict, failures, notice, suspected>>

\* setCookieHealth: the verdict there is; none is replaced for want of an
\* answer.
FindVerdict(r) ==
    /\ reporters[r].at = "set"
    /\ Reports(r, IF reporters[r].sets = "unknown" /\ verdict # "unknown"
                  THEN Quiet
                  ELSE [reporters[r] EXCEPT !.at = "found", !.found = verdict])
    /\ UNCHANGED <<cookie, verdict, failures, notice, suspected>>

\* The new one is stored, and a notice sent when it crossed the line between
\* good and bad as seen from the one found.
StoreVerdict(r) ==
    /\ reporters[r].at = "found"
    /\ LET s == reporters[r].sets
           wasBad == reporters[r].found \in Bad
       IN  /\ verdict' = s
           /\ notice' = IF s \in Bad /\ ~wasBad THEN "alarm"
                        ELSE IF s \notin Bad /\ wasBad THEN "recovered"
                        ELSE notice
           /\ suspected' = (suspected \/ s = "suspect")
    /\ Reports(r, Quiet)
    /\ UNCHANGED <<cookie, failures>>

CookieNext ==
    \/ ChangeCookie \/ AskPlatform
    \/ \E w \in Watchers : ProbeSucceeds(w) \/ LiftSuspicion(w) \/ ProbeFails(w)
    \/ \E r \in Reporters : FindVerdict(r) \/ StoreVerdict(r)

-----------------------------------------------------------------------------
AllQuiet == \A r \in Reporters : reporters[r] = Quiet

\* Failures in a row, of whatever monitors, do not pass the limit without the
\* cookie being called suspect: none of two that count at the same time
\* misses that the limit is reached (builtin_cookiecheck.go:118-126).
StreakIsReported == AllQuiet /\ failures >= ErrorLimit => suspected
=============================================================================
