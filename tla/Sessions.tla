------------------------------ MODULE Sessions ------------------------------
(***************************************************************************)
(* The login sessions of the console (internal/auth/session.go and the     *)
(* login and logout handlers): the table of tokens in memory and its saves *)
(* to sessions.json, which survive a restart.  A save takes its snapshot   *)
(* first and the file lock afterwards, so saves may be written in another  *)
(* order than they were taken.  Times are left out: a token expires at any *)
(* moment.                                                                 *)
(***************************************************************************)
EXTENDS Integers, Sequences, FiniteSets

CONSTANTS Tokens, Requests,
          Credentials,   \* accounts and passwords the operator configures
          MaxRestarts    \* bound: ends of the process

ASSUME SessionsAssumption ==
    /\ MaxRestarts \in Nat
    /\ Tokens \cap Requests = {} /\ "none" \notin Credentials

VARIABLES
  table,     \* SessionStore.mu: the tokens in it
  expired,   \* tokens whose time has come
  timers,    \* armed AfterFuncs
  saves,     \* saves under way: asked for, or the snapshot that was taken
  sessionFile,      \* sessions.json: its fingerprint and tokens
  creds,     \* the credentials of this run
  handler,   \* position of each request, and the token it is about
  restarts,  \* counter of the bound
  issued,    \* history: the credentials a token was issued or adopted under
  saveOrder,     \* history: those with a snapshot, the oldest first
  behind     \* history: the file is older than a snapshot that was written,
             \* or the last write failed

storeVars == <<table, expired, timers, issued>>
saveVars == <<saves, sessionFile, saveOrder, behind>>
runVars == <<creds, restarts>>
sessionVars == <<storeVars, saveVars, handler, runVars>>

\* A timer's callback saves as a request does; each is an actor.
Actors == Requests \cup Tokens

Idle == [at |-> "idle", token |-> "none"]

NoSave == [at |-> "none", tokens |-> {}]

SessionsTypeOK ==
    /\ table \subseteq Tokens /\ expired \subseteq Tokens /\ timers \subseteq Tokens
    /\ saves \in [Actors -> [at : {"none", "asked", "taken"},
                             tokens : SUBSET Tokens]]
    /\ sessionFile \in [fingerprint : Credentials \cup {"none"},
                       tokens : SUBSET Tokens]
    /\ creds \in Credentials /\ behind \in BOOLEAN
    /\ handler \in [Requests -> [at : {"idle", "drop"},
                                token : Tokens \cup {"none"}]]
    /\ issued \in [Tokens -> Credentials \cup {"none"}]
    /\ saveOrder \in Seq(Actors)
    /\ \A i, j \in DOMAIN saveOrder : saveOrder[i] = saveOrder[j] => i = j
    /\ restarts \in 0..MaxRestarts

\* What a start finds: nothing, or a file of the old format, which has no
\* fingerprint (load).  The old file is adopted under the credentials.
SessionsInit ==
    /\ creds \in Credentials
    /\ \E old \in SUBSET Tokens :
          /\ table = old /\ timers = old
          /\ sessionFile = [fingerprint |-> IF old = {} THEN "none" ELSE creds,
                     tokens |-> old]
          /\ issued = [t \in Tokens |-> IF t \in old THEN creds ELSE "none"]
    /\ expired = {} /\ saves = [a \in Actors |-> NoSave]
    /\ handler = [r \in Requests |-> Idle]
    /\ restarts = 0
    /\ saveOrder = <<>> /\ behind = FALSE

-----------------------------------------------------------------------------
(* save: ask, take the snapshot, write it under the lock.                  *)

AskSave(a) == saves' = [saves EXCEPT ![a] = [at |-> "asked", tokens |-> {}]]

SnapshotStore(a) ==
    /\ saves[a].at = "asked"
    /\ saves' = [saves EXCEPT ![a] = [at |-> "taken", tokens |-> table \ expired]]
    /\ saveOrder' = Append(saveOrder, a)
    /\ UNCHANGED <<storeVars, sessionFile, behind, handler, runVars>>

\* Those whose snapshots are as old as a's, or older, can only bring the file
\* back; they leave the order when a writes.
Newer(a) ==
    LET i == CHOOSE j \in DOMAIN saveOrder : saveOrder[j] = a
    IN SubSeq(saveOrder, i + 1, Len(saveOrder))

WriteFile(a) ==
    /\ saves[a].at = "taken"
    /\ saves' = [saves EXCEPT ![a] = NoSave]
    /\ LET late == \A i \in DOMAIN saveOrder : saveOrder[i] # a
       IN /\ saveOrder' = IF late THEN saveOrder ELSE Newer(a)
          /\ \/ /\ sessionFile' = [fingerprint |-> creds,
                                 tokens |-> saves[a].tokens]
                /\ behind' = late
             \/ behind' = TRUE /\ UNCHANGED sessionFile   \* failed, and logged
    /\ UNCHANGED <<storeVars, handler, runVars>>

-----------------------------------------------------------------------------
(* Requests.                                                               *)

HandlerAt(r, p) == handler[r].at = p /\ saves[r].at = "none"
HandlerTo(r, p, t) == handler' = [handler EXCEPT ![r] = [at |-> p, token |-> t]]
Finished(r) == handler' = [handler EXCEPT ![r] = Idle]

\* A login that is allowed (handleLogin, Issue): a token nobody had before.
Issue(r) ==
    /\ HandlerAt(r, "idle")
    /\ \E t \in {u \in Tokens : issued[u] = "none"} :
          /\ table' = table \cup {t} /\ timers' = timers \cup {t}
          /\ issued' = [issued EXCEPT ![t] = creds]
    /\ AskSave(r)
    /\ UNCHANGED <<expired, sessionFile, saveOrder, behind, handler, runVars>>

\* As if a logout were not saved.
RevokeUnsaved(r) ==
    /\ HandlerAt(r, "idle")
    /\ \E t \in table : table' = table \ {t}
    /\ UNCHANGED <<expired, timers, issued, saveVars, handler, runVars>>

\* handleLogout.
Revoke(r) ==
    /\ HandlerAt(r, "idle")
    /\ \E t \in table : table' = table \ {t}
    /\ AskSave(r)
    /\ UNCHANGED <<expired, timers, issued, sessionFile, saveOrder, behind,
                   handler, runVars>>

\* Verify of an expired token, which is still there until its timer fires:
\* it is removed in a second step, and the file is not saved.
Verify(r) ==
    /\ HandlerAt(r, "idle")
    /\ \E t \in table \cap expired : HandlerTo(r, "drop", t)
    /\ UNCHANGED <<storeVars, saveVars, runVars>>

VerifyDrop(r) ==
    /\ HandlerAt(r, "drop") /\ table' = table \ {handler[r].token} /\ Finished(r)
    /\ UNCHANGED <<expired, timers, issued, saveVars, runVars>>

Expire(t) ==
    /\ issued[t] # "none" /\ t \notin expired /\ expired' = expired \cup {t}
    /\ UNCHANGED <<table, timers, issued, saveVars, handler, runVars>>

\* scheduleExpiry.
TimerFires(t) ==
    /\ t \in timers \cap expired /\ saves[t].at = "none"
    /\ timers' = timers \ {t} /\ table' = table \ {t}
    /\ IF t \in table THEN AskSave(t) ELSE UNCHANGED saves
    /\ UNCHANGED <<expired, issued, sessionFile, saveOrder, behind, handler,
                   runVars>>

\* As if the fingerprint were not compared.
RestoredAlways(c) == sessionFile.tokens \ expired

\* The tokens a start under credentials c takes from the file (load).
Restored(c) ==
    IF sessionFile.fingerprint = c THEN sessionFile.tokens \ expired ELSE {}

\* The process ends at any moment and starts again, perhaps with another
\* password; Init runs before any request is served.
Restart ==
    /\ restarts < MaxRestarts /\ restarts' = restarts + 1
    /\ creds' \in Credentials
    /\ table' = Restored(creds') /\ timers' = table'
    /\ saves' = [a \in Actors |-> NoSave]
    /\ handler' = [r \in Requests |-> Idle]
    /\ saveOrder' = <<>> /\ behind' = FALSE
    /\ UNCHANGED <<expired, sessionFile, issued>>

SessionsNext ==
    \/ \E a \in Actors : SnapshotStore(a) \/ WriteFile(a)
    \/ \E r \in Requests : Issue(r) \/ Revoke(r) \/ Verify(r) \/ VerifyDrop(r)
    \/ \E t \in Tokens : Expire(t) \/ TimerFires(t)
    \/ Restart

-----------------------------------------------------------------------------
\* A change of the account or the password ends every older session for good:
\* no token in the table was issued under other credentials, whatever restarts,
\* saves and changes back and forth came in between (load, save).
TokensMatchCredentials == \A t \in table : issued[t] = creds

\* When no save is under way, and the file did not fall behind, a restart
\* would restore exactly the sessions that are valid now: none that was logged
\* out, and none missing (Issue, Revoke, scheduleExpiry).
RestartKeepsSessions ==
    ~behind /\ (\A a \in Actors : saves[a].at = "none") =>
        Restored(creds) = table \ expired
=============================================================================
