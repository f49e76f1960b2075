------------------------------- MODULE Reports ------------------------------
(***************************************************************************)
(* The mail reports of reportLoop (internal/app/report.go), with the SMTP  *)
(* dialogue of SendEmail (internal/notification/email.go).  Time is        *)
(* counted in units; an upload is known by the time it landed.             *)
(***************************************************************************)
EXTENDS Integers, FiniteSets

CONSTANTS MaxTime,          \* bound: the time the clock stops at
          Intervals,        \* values of EmailInterval the operator may save
          DefaultInterval,  \* the 360 minutes that stand in for 0 and less
          Recipients        \* the addresses in MailTo; none: not configured

ASSUME ReportsAssumption ==
    /\ MaxTime \in Nat /\ DefaultInterval \in Nat \ {0}
    /\ Intervals \subseteq Int /\ Intervals # {}

VARIABLES
  clock,
  landed,      \* times of the records in the success log
  mailInterval,\* cfg.EmailInterval
  report,      \* reportLoop: [at, due, by: the interval counted down, list]
  dialogue,    \* SendEmail: [at, left: recipients not yet accepted, rcpt]
  reported,    \* history: how many reports have listed a record
  lengthened,  \* history: an interval was saved longer than the one in force
  mailed         \* history: who got the last mail; whether it was logged sent

reportVars == <<clock, landed, mailInterval, report, dialogue, reported,
                lengthened, mailed>>

NoDialogue == [at |-> "none", left |-> {}, rcpt |-> {}]
Effective(i) == IF i <= 0 THEN DefaultInterval ELSE i

ReportsTypeOK ==
    /\ clock \in 0..MaxTime /\ landed \subseteq 0..MaxTime
    /\ mailInterval \in Intervals
    /\ report.at \in {"sleep", "send"} /\ report.due \in Int
    /\ report.by \in Int
    /\ report.list \subseteq landed
    /\ dialogue.at \in {"none", "dial", "greet", "auth", "from", "rcpt", "data",
                        "quit"}
    /\ dialogue.left \subseteq Recipients /\ dialogue.rcpt \subseteq Recipients
    /\ reported \in [0..MaxTime -> Nat] /\ lengthened \in BOOLEAN
    /\ mailed.to \subseteq Recipients /\ mailed.logged \in BOOLEAN

ReportsInit ==
    /\ clock = 0 /\ landed = {} /\ mailInterval \in Intervals
    /\ report = [at |-> "sleep", due |-> Effective(mailInterval),
                 by |-> Effective(mailInterval), list |-> {}]
    /\ dialogue = NoDialogue
    /\ reported = [t \in 0..MaxTime |-> 0] /\ lengthened = FALSE
    /\ mailed = [to |-> {}, logged |-> FALSE]

-----------------------------------------------------------------------------
(* The environment: time, uploads, the operator's form.                    *)

PassTime ==
    /\ clock < MaxTime /\ clock' = clock + 1
    /\ UNCHANGED <<landed, mailInterval, report, dialogue, reported, lengthened,
                   mailed>>

Land ==
    /\ landed' = landed \cup {clock} /\ clock \notin landed
    /\ UNCHANGED <<clock, mailInterval, report, dialogue, reported, lengthened,
                   mailed>>

\* A saved interval wakes reportLoop (TriggerReportReset), which goes back to
\* sleep until the time it had: the countdown is not restarted.
SaveInterval ==
    \E i \in Intervals \ {mailInterval} :
       /\ mailInterval' = i
       /\ lengthened' = (lengthened \/ i > report.by)
       /\ UNCHANGED <<clock, landed, report, dialogue, reported, mailed>>

-----------------------------------------------------------------------------
(* reportLoop and sendReport.                                              *)

\* Mutant: the next report is due an interval after the last was due.
NextKept(t) == [at |-> "sleep", due |-> report.due + Effective(mailInterval),
                by |-> Effective(mailInterval), list |-> {}]

\* The countdown starts anew when the report is done.
NextReport(t) == [at |-> "sleep", due |-> t + Effective(mailInterval),
                  by |-> Effective(mailInterval), list |-> {}]

\* sendReport: the records of the last EmailInterval minutes - the raw value,
\* where the loop reads 0 and less as 360.
Recent == {t \in landed : t > clock - mailInterval}

MailReady == Recipients # {}

SendReport ==
    /\ report.at = "sleep" /\ clock >= report.due
    /\ reported' = [t \in 0..MaxTime |->
                       IF t \in Recent THEN reported[t] + 1 ELSE reported[t]]
    /\ IF Recent = {} \/ ~MailReady
       THEN report' = NextReport(clock) /\ UNCHANGED dialogue
       ELSE /\ report' = [report EXCEPT !.at = "send", !.list = Recent]
            /\ dialogue' = [at |-> "dial", left |-> Recipients, rcpt |-> {}]
    /\ UNCHANGED <<clock, landed, mailInterval, lengthened, mailed>>

\* The dialogue with the server, in the order of SendEmail; each step may
\* fail, and then the report is lost: nothing sends it again.
Following == [dial |-> "greet", greet |-> "auth", auth |-> "from",
              from |-> "rcpt", data |-> "quit"]

MailStep ==
    /\ dialogue.at \in DOMAIN Following
    /\ dialogue' = [dialogue EXCEPT !.at = Following[dialogue.at]]
    /\ mailed' = IF dialogue.at = "data"
                  THEN [mailed EXCEPT !.to = dialogue.rcpt] ELSE mailed
    /\ UNCHANGED <<clock, landed, mailInterval, report, reported, lengthened>>

Rcpt ==
    /\ dialogue.at = "rcpt"
    /\ IF dialogue.left = {} THEN dialogue' = [dialogue EXCEPT !.at = "data"]
       ELSE \E r \in dialogue.left :
               dialogue' = [dialogue EXCEPT !.left = @ \ {r}, !.rcpt = @ \cup {r}]
    /\ UNCHANGED <<clock, landed, mailInterval, report, reported, lengthened,
                   mailed>>

Abandon ==
    /\ dialogue' = NoDialogue /\ report' = NextReport(clock)
    /\ mailed' = [mailed EXCEPT !.logged = FALSE]

\* Any step may fail, a refused address with the others.
MailFails ==
    /\ dialogue.at # "none"
    /\ Abandon
    /\ UNCHANGED <<clock, landed, mailInterval, reported, lengthened>>

MailDone ==
    /\ dialogue.at = "quit"
    /\ dialogue' = NoDialogue /\ report' = NextReport(clock)
    /\ mailed' = [mailed EXCEPT !.logged = TRUE]
    /\ UNCHANGED <<clock, landed, mailInterval, reported, lengthened>>

-----------------------------------------------------------------------------
ReportsNext == \/ PassTime \/ Land \/ SaveInterval \/ SendReport \/ MailStep
               \/ Rcpt \/ MailFails \/ MailDone

-----------------------------------------------------------------------------
(* Properties.                                                             *)

\* No record is in two reports, however late the loop wakes and however long
\* the mail server takes, as long as no longer interval was saved than the one
\* the countdown runs by (a longer one looks further back than the last
\* report).
ReportedOnce == lengthened \/ \A t \in landed : reported[t] <= 1
=============================================================================
